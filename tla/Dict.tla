-------------------------------- MODULE Dict --------------------------------
(* The hash table of sobj.c (dict_wrap, dict_lookup with its three flags,   *)
(* dict_rehash, dict_get_keys) and the primitives and environment functions *)
(* that use it.  A bucket is the list of its entries; an entry is a pair    *)
(* with an identity, because the callers of dict_lookup keep the pair they  *)
(* are given and write its cdr after the table may have been resized.       *)
EXTENDS Integers, FiniteSetsExt, SequencesExt

CONSTANTS
  Key,             \* the symbols
  Val,             \* the objects stored under them
  Hash,            \* symbol_hash
  Entry,           \* the pairs that serve as entries
  Null,            \* NULL
  DICT_INIT_SIZE   \* length of a new vector, a power of two

ASSUME NullAssumption == Null \notin Entry
ASSUME HashAssumption == Hash \in [Key -> Int]
ASSUME SizeAssumption == DICT_INIT_SIZE \in Nat \ {0}

VARIABLES
  vec,             \* as_dict.vec: the buckets, each newest entry first
  hash_mask,
  nb_items,
  cell,            \* the entries: cell[e].key is the car, cell[e].val the cdr
  op,              \* the operation under way
  pc,              \* where it stands
  entry,           \* what dict_lookup has found or made
  new_vec,         \* dict_rehash: the vector that is being filled
  vec_i,           \* the walks of dict_rehash and dict_get_keys: the bucket
  entry_list,      \* and what is left of it
  ret              \* the value returned, or dict_get_keys' retval so far

tableVars  == <<vec, hash_mask, nb_items>>
walkVars   == <<new_vec, vec_i, entry_list>>
vars == <<tableVars, cell, op, pc, entry, walkVars, ret>>

\* hashval & hash_mask, for a hash_mask that is a power of two less one.
Bucket(k, mask) == (Hash[k] % (mask + 1)) + 1

EmptyVector(n) == [i \in 1 .. n |-> << >>]

\* The operations that go through dict_lookup, and the flag they pass.
Flag == [set    |-> "CREATE_ON_ABSENT",  \* hash-set!, environ_bind
         intern |-> "CREATE_ON_ABSENT",  \* symbol_intern
         delete |-> "POP_IF_FOUND",      \* hash-delete!
         update |-> "DEFAULT",           \* environ_set
         get    |-> "DEFAULT",           \* hash-ref, environ_lookup
         getdef |-> "DEFAULT",           \* hash-ref/default
         exists |-> "DEFAULT"]           \* hash-exists?

NoOp == [name |-> "none", key |-> Null, val |-> Null]

Init == /\ vec = EmptyVector(DICT_INIT_SIZE)
        /\ hash_mask = DICT_INIT_SIZE - 1
        /\ nb_items = 0
        /\ cell = << >>
        /\ op = NoOp
        /\ pc = "idle"
        /\ entry = Null
        /\ new_vec = << >> /\ vec_i = 0 /\ entry_list = << >>
        /\ ret = << >>

-----------------------------------------------------------------------------
\* A primitive or an environment function calls dict_lookup.
Begin ==
  /\ pc = "idle"
  /\ \E name \in DOMAIN Flag, k \in Key, v \in Val :
       op' = [name |-> name, key |-> k, val |-> v]
  /\ pc' = "lookup"
  /\ ret' = << >>
  /\ UNCHANGED <<tableVars, cell, entry, walkVars>>

bucket == Bucket(op.key, hash_mask)

\* The positions in the bucket at which the key is found.
Matches == { i \in DOMAIN vec[bucket] : cell[vec[bucket][i]].key = op.key }

\* A slip: the walk begins at the second entry.
FoundBehindHead == \E i \in Matches : i > 1

Found == Matches # {}

\* The bucket without the entry at i: the one before it is linked to the one
\* after it.  A slip: the one before it ends the list.
CutOff(list, i) == SubSeq(list, 1, i - 1)

Unlinked(list, i) == RemoveAt(list, i)

\* Found, and no flag says to take it out.
LookupFound ==
  /\ pc = "lookup" /\ Found /\ Flag[op.name] # "POP_IF_FOUND"
  /\ entry' = vec[bucket][Min(Matches)]
  /\ pc' = "return"
  /\ UNCHANGED <<tableVars, cell, op, walkVars, ret>>

\* Not found, and no flag says to create it: NULL.
LookupMissing ==
  /\ pc = "lookup" /\ ~Found /\ Flag[op.name] # "CREATE_ON_ABSENT"
  /\ entry' = Null
  /\ pc' = "return"
  /\ UNCHANGED <<tableVars, cell, op, walkVars, ret>>

\* dict_rehash begins with a vector of target_size empty buckets.
StartRehash(target_size) ==
  /\ new_vec' = EmptyVector(target_size)
  /\ vec_i' = 0
  /\ entry_list' = << >>
  /\ pc' = "rehash"

\* nb_items > 1.5 * length, in integers.  A slip: twice the length.
OverFull(items, length) == items > 2 * length

TooFull(items, length) == 2 * items > 3 * length

LookupCreate ==
  /\ pc = "lookup" /\ ~Found /\ Flag[op.name] = "CREATE_ON_ABSENT"
  /\ \E e \in Entry \ DOMAIN cell :
       /\ cell' = [d \in DOMAIN cell \cup {e} |->
                    IF d = e THEN [key |-> op.key, val |-> Null] ELSE cell[d]]
       /\ vec' = [vec EXCEPT ![bucket] = <<e>> \o @]
       /\ entry' = e
  /\ nb_items' = nb_items + 1
  /\ IF TooFull(nb_items', Len(vec))
     THEN StartRehash((1 + hash_mask) * 2)
     ELSE pc' = "return" /\ UNCHANGED walkVars
  /\ UNCHANGED <<hash_mask, op, ret>>

\* nb_items < 0.3 * length && length > DICT_INIT_SIZE * 2, in integers.
\* Slips: the least length is forgotten; 0.8 is taken for 0.3.
SparseAtAnyLength(items, length) == 10 * items < 3 * length
SparseTooSoon(items, length) == 10 * items < 8 * length /\ length > DICT_INIT_SIZE * 2

TooSparse(items, length) == 10 * items < 3 * length /\ length > DICT_INIT_SIZE * 2

LookupPop ==
  /\ pc = "lookup" /\ Found /\ Flag[op.name] = "POP_IF_FOUND"
  /\ LET i == Min(Matches) IN
       /\ entry' = vec[bucket][i]
       /\ vec' = [vec EXCEPT ![bucket] = Unlinked(@, i)]
       /\ cell' = Restrict(cell, DOMAIN cell \ {vec[bucket][i]})
  /\ nb_items' = nb_items - 1
  /\ IF TooSparse(nb_items', Len(vec))
     THEN StartRehash((1 + hash_mask) \div 2)
     ELSE pc' = "return" /\ UNCHANGED walkVars
  /\ UNCHANGED <<hash_mask, op, ret>>

-----------------------------------------------------------------------------
\* dict_rehash copies entry by entry; the old vector stays in place until
\* the end.  dict_get_keys walks the entries in the same way.

\* pair_wrap(frame, entry, *new_entry_head).  A slip: the head is dropped.
OnlyEntry(e, list) == <<e>>

NewHead(e, list) == <<e>> \o list

\* The walk goes on to the next bucket.
NextBucket == /\ entry_list = << >> /\ vec_i < Len(vec)
              /\ vec_i' = vec_i + 1
              /\ entry_list' = vec[vec_i + 1]

WalkedAll == entry_list = << >> /\ vec_i = Len(vec)

\* The next entry of the bucket becomes the head of its new bucket.
RehashMove ==
  /\ pc = "rehash" /\ entry_list # << >>
  /\ LET e == Head(entry_list)
         new_bucket == Bucket(cell[e].key, Len(new_vec) - 1)
     IN  new_vec' = [new_vec EXCEPT ![new_bucket] = NewHead(e, @)]
  /\ entry_list' = Tail(entry_list)
  /\ UNCHANGED <<tableVars, cell, op, pc, entry, vec_i, ret>>

RehashNextBucket ==
  /\ pc = "rehash" /\ NextBucket
  /\ UNCHANGED <<tableVars, cell, op, pc, entry, new_vec, ret>>

\* The mask that goes with the new vector.  A slip: the mask that
\* ndict->as_dict.hash_mask holds, which is the old one.
StaleMask == hash_mask

NewMask == Len(new_vec) - 1

RehashEnd ==
  /\ pc = "rehash" /\ WalkedAll
  /\ vec' = new_vec
  /\ hash_mask' = NewMask
  /\ new_vec' = << >> /\ vec_i' = 0
  /\ pc' = "return"
  /\ UNCHANGED <<nb_items, cell, op, entry, entry_list, ret>>

\* hash-keys.
KeysBegin ==
  /\ pc = "idle"
  /\ pc' = "keys"
  /\ ret' = << >>
  /\ UNCHANGED <<tableVars, cell, op, entry, walkVars>>

KeysPut ==
  /\ pc = "keys" /\ entry_list # << >>
  /\ ret' = <<cell[Head(entry_list)].key>> \o ret
  /\ entry_list' = Tail(entry_list)
  /\ UNCHANGED <<tableVars, cell, op, pc, entry, new_vec, vec_i>>

KeysNextBucket ==
  /\ pc = "keys" /\ NextBucket
  /\ UNCHANGED <<tableVars, cell, op, pc, entry, new_vec, ret>>

KeysEnd ==
  /\ pc = "keys" /\ WalkedAll
  /\ vec_i' = 0
  /\ pc' = "idle"
  /\ UNCHANGED <<tableVars, cell, op, entry, new_vec, entry_list, ret>>

-----------------------------------------------------------------------------
\* The caller of dict_lookup goes on.

Finish == /\ op' = NoOp
          /\ entry' = Null
          /\ pc' = "idle"
          /\ UNCHANGED <<tableVars, walkVars>>

\* pair_set_cdr(entry, val): hash-set!, environ_bind, environ_def, environ_set.
ReturnSet ==
  /\ pc = "return" /\ op.name \in {"set", "update"} /\ entry # Null
  /\ cell' = [cell EXCEPT ![entry].val = op.val]
  /\ UNCHANGED ret
  /\ Finish

\* pair_car(got) is the one symbol of that name.
ReturnIntern ==
  /\ pc = "return" /\ op.name = "intern"
  /\ ret' = <<cell[entry].key>>
  /\ UNCHANGED cell
  /\ Finish

\* pair_cdr(got), or the default.
ReturnGet ==
  /\ pc = "return" /\ op.name \in {"get", "getdef"}
  /\ entry = Null => op.name = "getdef"
  /\ ret' = <<IF entry # Null THEN cell[entry].val ELSE op.val>>
  /\ UNCHANGED cell
  /\ Finish

ReturnExists ==
  /\ pc = "return" /\ op.name = "exists"
  /\ ret' = <<entry # Null>>
  /\ UNCHANGED cell
  /\ Finish

ReturnDelete ==
  /\ pc = "return" /\ op.name = "delete"
  /\ UNCHANGED <<cell, ret>>
  /\ Finish

\* "hash-ref: no such key", "set! -- No such binding": the process exits.
ReturnFatal ==
  /\ pc = "return" /\ op.name \in {"get", "update"} /\ entry = Null
  /\ pc' = "fatal"
  /\ UNCHANGED <<tableVars, cell, op, entry, walkVars, ret>>

Exited == pc = "fatal" /\ UNCHANGED vars

Next == \/ Begin
        \/ LookupFound \/ LookupMissing \/ LookupCreate \/ LookupPop
        \/ RehashMove \/ RehashNextBucket \/ RehashEnd
        \/ KeysBegin \/ KeysPut \/ KeysNextBucket \/ KeysEnd
        \/ ReturnSet \/ ReturnIntern \/ ReturnGet \/ ReturnExists \/ ReturnDelete
        \/ ReturnFatal \/ Exited

Spec == Init /\ [][Next]_vars

-----------------------------------------------------------------------------
\* The entries in the buckets of a vector.
EntriesOf(v) == UNION { Range(v[i]) : i \in DOMAIN v }

TypeOK ==
  /\ vec \in Seq(Seq(Entry))
  /\ hash_mask \in Nat
  /\ nb_items \in Nat
  /\ DOMAIN cell \subseteq Entry
  /\ \A e \in DOMAIN cell : cell[e] \in [key : Key, val : Val \cup {Null}]
  /\ op = NoOp \/ op \in [name : DOMAIN Flag, key : Key, val : Val]
  /\ pc \in {"idle", "lookup", "rehash", "keys", "return", "fatal"}
  /\ entry \in Entry \cup {Null}
  /\ new_vec \in Seq(Seq(Entry))
  /\ vec_i \in 0 .. Len(vec)
  /\ entry_list \in Seq(Entry)

(* Every entry is in the bucket where dict_lookup will look for it: the     *)
(* mask and the vector agree whatever resizings there have been.            *)
WellPlaced ==
  /\ hash_mask = Len(vec) - 1
  /\ \A i \in DOMAIN vec : \A j \in DOMAIN vec[i] :
       /\ vec[i][j] \in DOMAIN cell
       /\ Bucket(cell[vec[i][j]].key, hash_mask) = i

NoTwice(list) == \A i, j \in DOMAIN list : list[i] = list[j] => i = j

(* No bucket has an entry twice, no key has two entries, and nb_items is    *)
(* the number of entries.                                                   *)
CountExact ==
  /\ nb_items = Cardinality(EntriesOf(vec))
  /\ \A i \in DOMAIN vec : NoTwice(vec[i])
  /\ \A d, e \in EntriesOf(vec) : cell[d].key = cell[e].key => d = e

(* A resizing settles: after growing, one deletion does not shrink the      *)
(* table, and after shrinking one insertion does not grow it.               *)
ResizingSettles ==
  [][pc = "rehash" /\ pc' = "return" =>
       IF Len(vec') > Len(vec)
       THEN ~TooSparse(nb_items - 1, Len(vec'))
       ELSE ~TooFull(nb_items + 1, Len(vec'))]_vars

(* Between two operations the buckets hold one and a half entries on        *)
(* average at the most.                                                     *)
LoadBounded == pc = "idle" => 2 * nb_items <= 3 * Len(vec)

\* The entry of a key that is present.
EntryFor(k) == CHOOSE e \in EntriesOf(vec) : cell[e].key = k

KeysPresent == { cell[e].key : e \in EntriesOf(vec) }

(* A key keeps its entry as long as it is in the table, however often the   *)
(* table is resized: the binding an environment function holds, and the     *)
(* symbol that symbol_intern returned, stay the ones the table knows.       *)
EntriesStay ==
  [][\A k \in KeysPresent \cap KeysPresent' : EntryFor(k)' = EntryFor(k)]_vars

\* The map that the table represents.  A write is there as soon as the entry
\* has been found or made; its caller only has to finish.
Writing(e) == e = entry /\ pc \in {"rehash", "return"} /\ op.name \in {"set", "update"}
contents == [k \in KeysPresent |->
               IF Writing(EntryFor(k)) THEN op.val ELSE cell[EntryFor(k)].val]

\* The keys are returned when dict_get_keys has walked all buckets.
returned == IF pc = "keys" THEN << >> ELSE ret

Map == INSTANCE FiniteMap WITH map <- contents, ret <- returned, Nil <- Null

(* The hash table is a finite map: insertions, overwritings, deletions and  *)
(* queries give what they would give on the map, resized or not.            *)
ImplementsMap == Map!Spec

-----------------------------------------------------------------------------
(* The inductive invariant.                                                 *)

PlacedIn(v, c) ==
  \A i \in DOMAIN v :
    /\ NoTwice(v[i])
    /\ \A e \in Range(v[i]) : Bucket(c[e].key, Len(v) - 1) = i

\* The table as the next operation finds it.
Table ==
  /\ vec # << >> /\ hash_mask = Len(vec) - 1
  /\ PlacedIn(vec, cell)
  /\ EntriesOf(vec) = DOMAIN cell
  /\ IsFiniteSet(DOMAIN cell) /\ nb_items = Cardinality(DOMAIN cell)
  /\ \A d, e \in DOMAIN cell : cell[d].key = cell[e].key => d = e

\* What a walk over the buckets has still to come to: the rest of the bucket
\* it is in, and the buckets behind it.
Behind(v, n) == UNION { Range(v[i]) : i \in n + 1 .. Len(v) }

Left == Range(entry_list) \cup Behind(vec, vec_i)

Walking ==
  IF pc \notin {"rehash", "keys"} THEN vec_i = 0 /\ entry_list = << >>
  ELSE /\ NoTwice(entry_list)
       /\ Left \subseteq DOMAIN cell
       /\ Range(entry_list) \cap Behind(vec, vec_i) = {}

\* dict_rehash has moved the entries that it has come by.
Moving ==
  IF pc # "rehash" THEN new_vec = << >>
  ELSE PlacedIn(new_vec, cell) /\ EntriesOf(new_vec) = DOMAIN cell \ Left

\* dict_get_keys has put their keys on its list.
Listing ==
  pc = "keys" =>
    /\ ret \in Seq(Key) /\ NoTwice(ret)
    /\ Range(ret) = { cell[e].key : e \in DOMAIN cell \ Left }

\* A resizing has a reason, and its new vector is long enough.
Load ==
  IF pc # "rehash" THEN 2 * nb_items <= 3 * Len(vec)
  ELSE \/ /\ TooFull(nb_items, Len(vec)) /\ 2 * (nb_items - 1) <= 3 * Len(vec)
          /\ Len(new_vec) = 2 * Len(vec)
       \/ /\ TooSparse(nb_items, Len(vec))
          /\ Len(new_vec) = Len(vec) \div 2

\* The entry that the caller is given is the one of its key, if there is one.
Handed ==
  /\ pc \in {"lookup", "rehash", "return"} => op # NoOp
  /\ pc \in {"rehash", "return"} /\ op.name # "delete" =>
       \/ entry \in DOMAIN cell /\ cell[entry].key = op.key
       \/ /\ entry = Null /\ Flag[op.name] = "DEFAULT"
          /\ \A e \in DOMAIN cell : cell[e].key # op.key

IInv == TypeOK /\ Table /\ Walking /\ Moving /\ Listing /\ Load /\ Handed
=============================================================================
