----------------------------- MODULE FiniteMap -----------------------------
(* What a hash table of the interpreter promises: a finite map from symbols *)
(* to objects.  Nothing is said of buckets, hashes or resizing.             *)
EXTENDS Sequences, Functions

CONSTANTS Key, Val, Nil

VARIABLES map,         \* a function from the keys present to their values
          ret          \* what the last operation returned, <<>> for nothing

vars == <<map, ret>>

Init == map = << >> /\ ret = << >>

\* An operation begins: what was returned before is gone.
Begin == ret' = << >> /\ UNCHANGED map

Put(k, v) == /\ map' = [x \in DOMAIN map \cup {k} |-> IF x = k THEN v ELSE map[x]]
             /\ UNCHANGED ret

Delete(k) == /\ map' = Restrict(map, DOMAIN map \ {k})
             /\ UNCHANGED ret

\* A key is entered without a value, and afterwards found to be known.
Enter(k) == /\ k \notin DOMAIN map
            /\ map' = [x \in DOMAIN map \cup {k} |-> IF x = k THEN Nil ELSE map[x]]
            /\ UNCHANGED ret

Known(k) == /\ k \in DOMAIN map
            /\ ret' = <<k>>
            /\ UNCHANGED map

Get(k) == /\ k \in DOMAIN map
          /\ ret' = <<map[k]>>
          /\ UNCHANGED map

GetDefault(k, v) == /\ ret' = <<IF k \in DOMAIN map THEN map[k] ELSE v>>
                    /\ UNCHANGED map

Exists(k) == /\ ret' = <<k \in DOMAIN map>>
             /\ UNCHANGED map

\* Every key once, in some order.
Keys == /\ Range(ret') = DOMAIN map
        /\ \A i, j \in DOMAIN ret' : ret'[i] = ret'[j] => i = j
        /\ UNCHANGED map

Next == \/ Begin
        \/ \E k \in Key : Enter(k) \/ Known(k) \/ Get(k) \/ Delete(k) \/ Exists(k)
        \/ \E k \in Key, v \in Val : Put(k, v) \/ GetDefault(k, v)
        \/ Keys

Spec == Init /\ [][Next]_vars
=============================================================================
