------------------------------ MODULE DictProofs ------------------------------
(* Proofs about Dict, for every set of keys, values and entries, every hash *)
(* function and initial length: entries are where dict_lookup looks, each   *)
(* key has one, and keeps it through every resizing.                        *)
EXTENDS Dict, FiniteSetTheorems, SequenceTheorems, TLAPS

-----------------------------------------------------------------------------
(* Buckets and vectors.                                                     *)

(* A hash picks a bucket.                                                   *)
LEMMA BucketRange ==
  ASSUME NEW k \in Key, NEW n \in Nat \ {0}
  PROVE  Bucket(k, n - 1) \in 1 .. n
<1>1. Hash[k] \in Int
  BY HashAssumption
<1>2. n - 1 + 1 = n
  OBVIOUS
<1>3. Hash[k] % n \in 0 .. n - 1
  BY <1>1
<1>4. QED
  BY <1>2, <1>3 DEF Bucket

(* t is the list s and e.                                                   *)
Longer(s, e, t) == /\ Range(t) = Range(s) \cup {e}
                   /\ e \notin Range(s) /\ NoTwice(s) => NoTwice(t)

(* An entry put in front of a bucket, or a key in front of a list of keys.  *)
LEMMA Prepended ==
  ASSUME NEW T, NEW s \in Seq(T), NEW e \in T, NEW t, t = <<e>> \o s
  PROVE  t \in Seq(T) /\ Longer(s, e, t)
<1>1. /\ t \in Seq(T) /\ Len(t) = Len(s) + 1 /\ Len(s) \in Nat
      /\ t[1] = e /\ \A i \in 1 .. Len(s) : t[i + 1] = s[i]
  OBVIOUS
<1>2. DOMAIN s = 1 .. Len(s) /\ DOMAIN t = 1 .. Len(s) + 1
  BY <1>1
<1>3. \A i \in DOMAIN t : i = 1 \/ (i - 1 \in DOMAIN s /\ t[i] = s[i - 1])
  BY <1>1, <1>2
<1>4. Range(t) = Range(s) \cup {e}
  <2>1. ASSUME NEW x \in Range(t) PROVE x \in Range(s) \cup {e}
    BY <1>1, <1>3 DEF Range
  <2>2. e \in Range(t)
    BY <1>1, <1>2 DEF Range
  <2>3. ASSUME NEW x \in Range(s) PROVE x \in Range(t)
    <3>1. PICK i \in DOMAIN s : x = s[i]
      BY DEF Range
    <3>2. i + 1 \in DOMAIN t /\ t[i + 1] = x
      BY <1>1, <1>2, <3>1
    <3>3. QED
      BY <3>2 DEF Range
  <2>4. QED
    BY <2>1, <2>2, <2>3
<1>5. ASSUME e \notin Range(s), NoTwice(s) PROVE NoTwice(t)
  <2>1. SUFFICES ASSUME NEW i \in DOMAIN t, NEW j \in DOMAIN t, t[i] = t[j] PROVE i = j
    BY DEF NoTwice
  <2>2. CASE i = 1
    BY <1>1, <1>3, <1>5, <2>1, <2>2 DEF Range
  <2>3. CASE j = 1
    BY <1>1, <1>3, <1>5, <2>1, <2>3 DEF Range
  <2>4. CASE i # 1 /\ j # 1
    <3>1. i - 1 = j - 1
      BY <1>3, <1>5, <2>1, <2>4 DEF NoTwice
    <3>2. QED
      BY <1>2, <3>1
  <2>5. QED
    BY <2>2, <2>3, <2>4
<1>6. QED
  BY <1>1, <1>4, <1>5 DEF Longer

(* The first entry of a bucket, and those behind it.                        *)
LEMMA Popped ==
  ASSUME NEW s \in Seq(Entry), s # << >>
  PROVE  /\ Head(s) \in Entry /\ Tail(s) \in Seq(Entry)
         /\ Range(s) = {Head(s)} \cup Range(Tail(s))
         /\ NoTwice(s) => NoTwice(Tail(s)) /\ Head(s) \notin Range(Tail(s))
<1>1. /\ Head(s) \in Entry /\ Tail(s) \in Seq(Entry) /\ Len(s) \in Nat \ {0}
      /\ Len(Tail(s)) = Len(s) - 1 /\ Head(s) = s[1]
      /\ \A i \in 1 .. Len(s) - 1 : Tail(s)[i] = s[i + 1]
  BY EmptySeq, HeadTailProperties
<1>2. DOMAIN s = 1 .. Len(s) /\ DOMAIN Tail(s) = 1 .. Len(s) - 1
  BY <1>1, LenProperties
<1> DEFINE t == Tail(s)
<1>3. /\ \A i \in DOMAIN t : i + 1 \in DOMAIN s /\ t[i] = s[i + 1] /\ i + 1 # 1
      /\ \A i \in DOMAIN s : i = 1 \/ (i - 1 \in DOMAIN t /\ s[i] = t[i - 1])
      /\ 1 \in DOMAIN s
  BY <1>1, <1>2
<1> HIDE DEF t
<1>4. Range(s) = {s[1]} \cup Range(t)
  <2>1. ASSUME NEW x \in Range(s) PROVE x \in {s[1]} \cup Range(t)
    BY <1>3 DEF Range
  <2>2. ASSUME NEW x \in Range(t) PROVE x \in Range(s)
    BY <1>3 DEF Range
  <2>3. QED
    BY <1>3, <2>1, <2>2 DEF Range
<1>5. ASSUME NoTwice(s) PROVE NoTwice(t) /\ s[1] \notin Range(t)
  <2>1. ASSUME NEW i \in DOMAIN t, NEW j \in DOMAIN t, t[i] = t[j] PROVE i = j
    <3>1. i + 1 = j + 1
      BY <1>3, <1>5, <2>1 DEF NoTwice
    <3>2. QED
      BY <1>2, <3>1 DEF t
  <2>2. s[1] \notin Range(t)
    BY <1>3, <1>5 DEF NoTwice, Range
  <2>3. QED
    BY <2>1, <2>2 DEF NoTwice
<1>6. QED
  BY <1>1, <1>4, <1>5 DEF t

(* An entry taken out of a bucket.                                          *)
LEMMA TakenOut ==
  ASSUME NEW s \in Seq(Entry), NoTwice(s), NEW k \in DOMAIN s, NEW t, t = Unlinked(s, k)
  PROVE  t \in Seq(Entry) /\ Range(t) = Range(s) \ {s[k]} /\ NoTwice(t)
<1> DEFINE u == SubSeq(s, 1, k - 1)
           v == SubSeq(s, k + 1, Len(s))
<1>1. Len(s) \in Nat /\ DOMAIN s = 1 .. Len(s) /\ k \in 1 .. Len(s)
  BY LenProperties
<1>2. \A i \in 1 .. Len(s) : s[i] \in Entry
  BY ElementOfSeq
<1>3. /\ u \in Seq(Entry) /\ Len(u) = k - 1
      /\ \A i \in 1 .. k - 1 : u[i] = s[i]
  <2>1. k - 1 \in Int /\ \A i \in 1 .. k - 1 : s[i] \in Entry
    BY <1>1, <1>2
  <2>2. /\ u \in Seq(Entry) /\ Len(u) = IF 1 <= k - 1 THEN k - 1 - 1 + 1 ELSE 0
        /\ \A i \in 1 .. k - 1 - 1 + 1 : u[i] = s[1 + i - 1]
    BY <2>1, SubSeqProperties
  <2>3. k - 1 - 1 + 1 = k - 1 /\ \A i \in 1 .. k - 1 : 1 + i - 1 = i
    BY <1>1
  <2> HIDE DEF u
  <2>4. Len(u) = k - 1
    BY <1>1, <2>2
  <2>5. QED
    BY <2>2, <2>3, <2>4
<1>4. /\ v \in Seq(Entry) /\ Len(v) = Len(s) - k
      /\ \A i \in 1 .. Len(s) - k : v[i] = s[k + i]
  <2>1. k + 1 \in Int /\ Len(s) \in Int /\ \A i \in k + 1 .. Len(s) : s[i] \in Entry
    BY <1>1, <1>2
  <2>2. /\ v \in Seq(Entry) /\ Len(v) = IF k + 1 <= Len(s) THEN Len(s) - (k + 1) + 1 ELSE 0
        /\ \A i \in 1 .. Len(s) - (k + 1) + 1 : v[i] = s[k + 1 + i - 1]
    BY <2>1, SubSeqProperties
  <2>3. Len(s) - (k + 1) + 1 = Len(s) - k /\ \A i \in 1 .. Len(s) - k : k + 1 + i - 1 = k + i
    BY <1>1
  <2> HIDE DEF v
  <2>4. Len(v) = Len(s) - k
    BY <1>1, <2>2
  <2>5. QED
    BY <2>2, <2>3, <2>4
<1>5. t = u \o v
  BY DEF Unlinked, RemoveAt
<1> HIDE DEF u, v
<1>6. /\ t \in Seq(Entry) /\ Len(t) = Len(u) + Len(v)
      /\ \A i \in 1 .. Len(u) + Len(v) : t[i] = IF i <= Len(u) THEN u[i] ELSE v[i - Len(u)]
  <2>1. t \in Seq(Entry)
    BY <1>3, <1>4, <1>5, ConcatProperties
  <2>2. Len(t) = Len(u) + Len(v)
    BY <1>3, <1>4, <1>5, ConcatProperties
  <2>3. \A i \in 1 .. Len(u) + Len(v) : t[i] = IF i <= Len(u) THEN u[i] ELSE v[i - Len(u)]
    BY <1>3, <1>4, <1>5, ConcatProperties
  <2>4. QED
    BY <2>1, <2>2, <2>3
<1>7. DOMAIN t = 1 .. Len(s) - 1
  BY <1>1, <1>3, <1>4, <1>6, LenProperties
<1>8. \A i \in DOMAIN t : t[i] = s[IF i < k THEN i ELSE i + 1]
  <2>1. ASSUME NEW i \in 1 .. Len(s) - 1 PROVE t[i] = s[IF i < k THEN i ELSE i + 1]
    <3>1. CASE i < k
      BY <1>1, <1>3, <1>4, <1>6, <3>1
    <3>2. CASE ~ i < k
      <4>1. /\ i - Len(u) \in 1 .. Len(s) - k /\ k + (i - Len(u)) = i + 1
            /\ ~ i <= Len(u) /\ i \in 1 .. Len(u) + Len(v)
        BY <1>1, <1>3, <1>4, <3>2
      <4>2. t[i] = v[i - Len(u)]
        BY <1>6, <4>1
      <4>3. v[i - Len(u)] = s[i + 1]
        BY <1>4, <4>1
      <4>4. QED
        BY <3>2, <4>2, <4>3
    <3>3. QED
      BY <3>1, <3>2
  <2>2. QED
    BY <1>7, <2>1
<1> DEFINE From(i) == IF i < k THEN i ELSE i + 1
<1>9. /\ \A i \in DOMAIN t : t[i] = s[From(i)] /\ From(i) \in DOMAIN s /\ From(i) # k
      /\ \A i, j \in DOMAIN t : From(i) = From(j) => i = j
  BY <1>1, <1>7, <1>8
<1>10. \A j \in DOMAIN s : j # k => \E i \in DOMAIN t : t[i] = s[j]
  <2>1. ASSUME NEW j \in DOMAIN s, j < k PROVE j \in DOMAIN t /\ From(j) = j
    BY <1>1, <1>7, <2>1
  <2>2. ASSUME NEW j \in DOMAIN s, j > k PROVE j - 1 \in DOMAIN t /\ From(j - 1) = j
    BY <1>1, <1>7, <2>2
  <2>3. \A j \in DOMAIN s : j < k \/ j = k \/ j > k
    BY <1>1
  <2> HIDE DEF From
  <2>4. QED
    BY <1>9, <2>1, <2>2, <2>3
<1> HIDE DEF From
<1>11. Range(t) = Range(s) \ {s[k]}
  <2>1. ASSUME NEW x \in Range(t) PROVE x \in Range(s) /\ x # s[k]
    BY <1>9 DEF Range, NoTwice
  <2>2. ASSUME NEW x \in Range(s), x # s[k] PROVE x \in Range(t)
    BY <1>10, <2>2 DEF Range
  <2>3. QED
    BY <2>1, <2>2
<1>12. NoTwice(t)
  BY <1>9 DEF NoTwice
<1>13. QED
  BY <1>6, <1>11, <1>12

(* A vector of buckets.                                                     *)
LEMMA VectorProperties ==
  ASSUME NEW v \in Seq(Seq(Entry))
  PROVE  /\ Len(v) \in Nat /\ DOMAIN v = 1 .. Len(v)
         /\ v # << >> => Len(v) \in Nat \ {0}
         /\ \A i \in 1 .. Len(v) : v[i] \in Seq(Entry)
<1>1. Len(v) \in Nat /\ DOMAIN v = 1 .. Len(v)
  BY LenProperties
<1>2. v # << >> => Len(v) \in Nat \ {0}
  BY EmptySeq
<1>3. \A i \in 1 .. Len(v) : v[i] \in Seq(Entry)
  BY ElementOfSeq
<1>4. QED
  BY <1>1, <1>2, <1>3

LEMMA InEntries ==
  ASSUME NEW v, NEW e
  PROVE  e \in EntriesOf(v) <=> \E i \in DOMAIN v : e \in Range(v[i])
BY DEF EntriesOf

LEMMA BucketWritten ==
  ASSUME NEW v \in Seq(Seq(Entry)), NEW b \in 1 .. Len(v), NEW w \in Seq(Entry),
         NEW u, u = [v EXCEPT ![b] = w]
  PROVE  /\ u \in Seq(Seq(Entry)) /\ Len(u) = Len(v) /\ u[b] = w
         /\ \A i \in 1 .. Len(v) : i # b => u[i] = v[i]
<1>1. u \in Seq(Seq(Entry))
  BY ExceptSeq
<1>2. Len(u) = Len(v)
  BY ExceptSeq
<1>3. \A j \in 1 .. Len(v) : u[j] = IF j = b THEN w ELSE v[j]
  BY ExceptSeq
<1>4. QED
  BY <1>1, <1>2, <1>3

(* u is v with e in bucket b as well.                                       *)
Grown(v, b, e, u) ==
  /\ u \in Seq(Seq(Entry)) /\ Len(u) = Len(v)
  /\ DOMAIN u = 1 .. Len(v) /\ DOMAIN v = 1 .. Len(v)
  /\ Range(u[b]) = Range(v[b]) \cup {e}
  /\ e \notin Range(v[b]) /\ NoTwice(v[b]) => NoTwice(u[b])
  /\ \A i \in 1 .. Len(v) : i # b => u[i] = v[i]

LEMMA EntryAdded ==
  ASSUME NEW v \in Seq(Seq(Entry)), NEW b \in 1 .. Len(v), NEW e \in Entry,
         NEW u, u = [v EXCEPT ![b] = <<e>> \o v[b]]
  PROVE  Grown(v, b, e, u)
<1> DEFINE w == <<e>> \o v[b]
<1>1. v[b] \in Seq(Entry)
  BY VectorProperties
<1>2. w \in Seq(Entry) /\ Longer(v[b], e, w)
  BY <1>1, Prepended
<1>3. u = [v EXCEPT ![b] = w]
  OBVIOUS
<1> HIDE DEF w
<1>4. /\ u \in Seq(Seq(Entry)) /\ Len(u) = Len(v) /\ u[b] = w
      /\ \A i \in 1 .. Len(v) : i # b => u[i] = v[i]
  BY <1>2, <1>3, BucketWritten
<1>5. DOMAIN u = 1 .. Len(v) /\ DOMAIN v = 1 .. Len(v)
  BY <1>4, VectorProperties
<1>6. QED
  BY <1>2, <1>4, <1>5 DEF Grown, Longer

LEMMA EntryCounted ==
  ASSUME NEW v, NEW b \in 1 .. Len(v), NEW e, NEW u, Grown(v, b, e, u)
  PROVE  EntriesOf(u) = EntriesOf(v) \cup {e}
<1>1. \A d : d \in EntriesOf(u) <=> d \in EntriesOf(v) \/ d = e
  BY InEntries DEF Grown
<1>2. QED
  BY <1>1

LEMMA EntryPlaced ==
  ASSUME NEW v, NEW b \in 1 .. Len(v), NEW e, NEW u, Grown(v, b, e, u),
         NEW c, PlacedIn(v, c), e \notin EntriesOf(v), Bucket(c[e].key, Len(v) - 1) = b
  PROVE  PlacedIn(u, c)
<1>1. e \notin Range(v[b]) /\ NoTwice(v[b])
  BY DEF EntriesOf, PlacedIn, Grown
<1>2. ASSUME NEW i \in DOMAIN u
      PROVE  /\ NoTwice(u[i])
             /\ \A d \in Range(u[i]) : Bucket(c[d].key, Len(u) - 1) = i
  BY <1>1 DEF PlacedIn, Grown
<1>3. QED
  BY <1>2 DEF PlacedIn

LEMMA EntryTakenOut ==
  ASSUME NEW v \in Seq(Seq(Entry)), NEW c, PlacedIn(v, c),
         NEW b \in 1 .. Len(v), NEW k \in DOMAIN v[b],
         NEW u, u = [v EXCEPT ![b] = Unlinked(v[b], k)]
  PROVE  /\ u \in Seq(Seq(Entry)) /\ Len(u) = Len(v)
         /\ EntriesOf(u) = EntriesOf(v) \ {v[b][k]}
         /\ PlacedIn(u, c)
<1> DEFINE w == Unlinked(v[b], k)
           e == v[b][k]
<1>1. v[b] \in Seq(Entry) /\ DOMAIN v = 1 .. Len(v)
  BY VectorProperties
<1>2. w \in Seq(Entry) /\ Range(w) = Range(v[b]) \ {e} /\ NoTwice(w)
  BY <1>1, TakenOut DEF PlacedIn
<1>3. u = [v EXCEPT ![b] = w]
  OBVIOUS
<1>4. e \in Range(v[b])
  BY DEF Range
<1> HIDE DEF w, e
<1>5. /\ u \in Seq(Seq(Entry)) /\ Len(u) = Len(v) /\ u[b] = w
      /\ \A i \in 1 .. Len(v) : i # b => u[i] = v[i]
  BY <1>2, <1>3, BucketWritten
<1>6. DOMAIN u = 1 .. Len(v)
  BY <1>5, VectorProperties
<1>7. \A i \in 1 .. Len(v) : Range(u[i]) = Range(v[i]) \ {e}
  <2>1. ASSUME NEW i \in 1 .. Len(v), i # b PROVE e \notin Range(v[i])
    BY <1>1, <1>4, <2>1 DEF PlacedIn
  <2>2. QED
    BY <1>2, <1>5, <2>1
<1>8. EntriesOf(u) = EntriesOf(v) \ {e}
  <2>1. ASSUME NEW d \in EntriesOf(u) PROVE d \in EntriesOf(v) /\ d # e
    <3>1. PICK i \in DOMAIN u : d \in Range(u[i])
      BY InEntries
    <3>2. i \in DOMAIN v /\ d \in Range(v[i]) /\ d # e
      BY <1>1, <1>6, <1>7, <3>1
    <3>3. QED
      BY <3>2, InEntries
  <2>2. ASSUME NEW d \in EntriesOf(v), d # e PROVE d \in EntriesOf(u)
    BY <1>1, <1>6, <1>7, <2>2, InEntries
  <2>3. QED
    BY <2>1, <2>2
<1>9. ASSUME NEW i \in DOMAIN u
      PROVE  /\ NoTwice(u[i])
             /\ \A d \in Range(u[i]) : Bucket(c[d].key, Len(u) - 1) = i
  BY <1>1, <1>2, <1>5, <1>6, <1>7 DEF PlacedIn
<1>10. QED
  BY <1>5, <1>8, <1>9 DEF PlacedIn, e

(* The vector that a resizing starts with.                                  *)
LEMMA Emptied ==
  ASSUME NEW n \in Nat
  PROVE  /\ EmptyVector(n) \in Seq(Seq(Entry)) /\ Len(EmptyVector(n)) = n
         /\ EntriesOf(EmptyVector(n)) = {} /\ \A c : PlacedIn(EmptyVector(n), c)
<1> DEFINE v == EmptyVector(n)
<1>1. v \in [1 .. n -> Seq(Entry)] /\ DOMAIN v = 1 .. n /\ \A i \in 1 .. n : v[i] = << >>
  BY EmptySeq DEF EmptyVector
<1>2. v \in Seq(Seq(Entry)) /\ Len(v) = n
  BY <1>1
<1> HIDE DEF v
<1>3. Range(<< >>) = {} /\ NoTwice(<< >>)
  BY DEF Range, NoTwice
<1>4. EntriesOf(v) = {}
  BY <1>1, <1>3 DEF EntriesOf
<1>5. \A c : PlacedIn(v, c)
  BY <1>1, <1>3 DEF PlacedIn
<1>6. QED
  BY <1>2, <1>4, <1>5 DEF v

(* The keys decide, nothing else of an entry.                               *)
LEMMA SameKeys ==
  ASSUME NEW v, NEW c, NEW d, PlacedIn(v, c), \A e \in EntriesOf(v) : d[e].key = c[e].key
  PROVE  PlacedIn(v, d)
<1>1. \A i \in DOMAIN v : Range(v[i]) \subseteq EntriesOf(v)
  BY DEF EntriesOf
<1>2. QED
  BY <1>1 DEF PlacedIn

(* The buckets that a resizing has still to move.                           *)
LEMMA BehindNext ==
  ASSUME NEW v \in Seq(Seq(Entry)), NEW c, PlacedIn(v, c), NEW n \in 0 .. Len(v) - 1
  PROVE  /\ Behind(v, n) = Range(v[n + 1]) \cup Behind(v, n + 1)
         /\ Range(v[n + 1]) \cap Behind(v, n + 1) = {}
<1>1. Len(v) \in Nat /\ DOMAIN v = 1 .. Len(v)
  BY VectorProperties
<1>2. n + 1 .. Len(v) = {n + 1} \cup (n + 1 + 1 .. Len(v)) /\ n + 1 \in DOMAIN v
  BY <1>1
<1>3. Behind(v, n) = Range(v[n + 1]) \cup Behind(v, n + 1)
  BY <1>2 DEF Behind
<1>4. ASSUME NEW i \in n + 1 + 1 .. Len(v), NEW e \in Range(v[i]), e \in Range(v[n + 1]) PROVE FALSE
  <2>1. i \in DOMAIN v /\ i # n + 1
    BY <1>1
  <2>2. QED
    BY <1>2, <1>4, <2>1 DEF PlacedIn
<1>5. QED
  BY <1>3, <1>4 DEF Behind

LEMMA BehindEnds ==
  ASSUME NEW v \in Seq(Seq(Entry))
  PROVE  Behind(v, 0) = EntriesOf(v) /\ Behind(v, Len(v)) = {}
<1>1. Len(v) \in Nat /\ DOMAIN v = 1 .. Len(v)
  BY VectorProperties
<1>2. 0 + 1 .. Len(v) = DOMAIN v /\ Len(v) + 1 .. Len(v) = {}
  BY <1>1
<1>3. QED
  BY <1>2 DEF Behind, EntriesOf

-----------------------------------------------------------------------------
(* What the invariant says where it is needed.                              *)

LEMMA Facts ==
  ASSUME IInv
  PROVE  /\ vec \in Seq(Seq(Entry)) /\ Len(vec) \in Nat \ {0} /\ DOMAIN vec = 1 .. Len(vec)
         /\ hash_mask = Len(vec) - 1 /\ nb_items \in Nat
         /\ \A i \in 1 .. Len(vec) : vec[i] \in Seq(Entry)
         /\ \A e \in DOMAIN cell : e \in Entry /\ cell[e].key \in Key
<1>1. vec \in Seq(Seq(Entry)) /\ vec # << >> /\ hash_mask = Len(vec) - 1 /\ nb_items \in Nat
  BY DEF IInv, TypeOK, Table
<1>2. \A e \in DOMAIN cell : e \in Entry /\ cell[e].key \in Key
  BY DEF IInv, TypeOK
<1>3. QED
  BY <1>1, <1>2, VectorProperties

LEMMA Operation ==
  ASSUME IInv, pc \in {"lookup", "rehash", "return"}
  PROVE  op \in [name : DOMAIN Flag, key : Key, val : Val]
BY DEF IInv, TypeOK, Handed

(* dict_lookup finds the entry of its key if there is one.                  *)
LEMMA Walk ==
  ASSUME IInv, pc = "lookup"
  PROVE  /\ bucket \in 1 .. Len(vec) /\ bucket = Bucket(op.key, Len(vec) - 1)
         /\ vec[bucket] \in Seq(Entry)
         /\ Found => LET i == Min(Matches)
                     IN  /\ i \in DOMAIN vec[bucket] /\ vec[bucket][i] \in DOMAIN cell
                         /\ cell[vec[bucket][i]].key = op.key
         /\ ~ Found => \A e \in DOMAIN cell : cell[e].key # op.key
<1>1. op.key \in Key
  BY Operation
<1>2. bucket \in 1 .. Len(vec) /\ bucket = Bucket(op.key, Len(vec) - 1)
  BY <1>1, Facts, BucketRange DEF bucket
<1>3. vec[bucket] \in Seq(Entry) /\ DOMAIN vec[bucket] = 1 .. Len(vec[bucket])
  BY <1>2, Facts, LenProperties
<1>4. PlacedIn(vec, cell) /\ EntriesOf(vec) = DOMAIN cell
      /\ \A d, e \in DOMAIN cell : cell[d].key = cell[e].key => d = e
  BY DEF IInv, Table
<1>5. \A i \in DOMAIN vec[bucket] : vec[bucket][i] \in DOMAIN cell
  <2>1. \A i \in DOMAIN vec[bucket] : vec[bucket][i] \in Range(vec[bucket])
    BY DEF Range
  <2>2. bucket \in DOMAIN vec
    BY <1>2, Facts
  <2>3. \A e \in Range(vec[bucket]) : e \in EntriesOf(vec)
    BY <2>2, InEntries
  <2>4. QED
    BY <1>4, <2>1, <2>3
<1>6. ASSUME Found
      PROVE  /\ Min(Matches) \in DOMAIN vec[bucket] /\ vec[bucket][Min(Matches)] \in DOMAIN cell
             /\ cell[vec[bucket][Min(Matches)]].key = op.key
  <2>1. PICK i \in Matches : TRUE
    BY <1>6 DEF Found
  <2>2. ASSUME NEW j \in Matches PROVE i = j
    <3>1. i \in DOMAIN vec[bucket] /\ j \in DOMAIN vec[bucket] /\ vec[bucket][i] = vec[bucket][j]
      BY <1>4, <1>5, <2>1 DEF Matches
    <3>2. NoTwice(vec[bucket])
      BY <1>2, <1>4, Facts DEF PlacedIn
    <3>3. QED
      BY <3>1, <3>2 DEF NoTwice
  <2>3. i \in Int
    BY <1>3 DEF Matches
  <2>4. Min(Matches) \in Matches
    <3>1. \A y \in Matches : i =< y
      BY <2>2, <2>3
    <3>2. \E x \in Matches : \A y \in Matches : x =< y
      BY <2>1, <3>1
    <3>3. QED
      BY <3>2, Zenon DEF Min
  <2>5. QED
    BY <1>5, <2>4 DEF Matches
<1>7. ASSUME ~ Found, NEW e \in DOMAIN cell, cell[e].key = op.key PROVE FALSE
  <2>1. PICK i \in DOMAIN vec : e \in Range(vec[i])
    BY <1>4, InEntries
  <2>2. i = bucket
    BY <1>2, <1>4, <1>7, <2>1 DEF PlacedIn
  <2>3. PICK j \in DOMAIN vec[bucket] : vec[bucket][j] = e
    BY <2>1, <2>2 DEF Range
  <2>4. j \in Matches
    BY <1>7, <2>3 DEF Matches
  <2>5. QED
    BY <1>7, <2>4 DEF Found
<1>8. QED
  BY <1>2, <1>3, <1>6, <1>7

(* A step that leaves the table and its keys as they are.                   *)
LEMMA Unmoved ==
  ASSUME IInv, pc \notin {"rehash", "keys"}, pc' \notin {"rehash", "keys"},
         UNCHANGED <<tableVars, walkVars>>,
         DOMAIN cell' = DOMAIN cell, \A e \in DOMAIN cell : cell'[e].key = cell[e].key
  PROVE  Table' /\ Walking' /\ Moving' /\ Listing' /\ Load'
<1>1. UNCHANGED <<vec, hash_mask, nb_items, new_vec, vec_i, entry_list>>
  BY DEF tableVars, walkVars
<1>2. Table /\ Walking /\ Moving /\ Load
  BY DEF IInv
<1>3. PlacedIn(vec, cell')
  BY <1>2, SameKeys DEF Table
<1>4. Table'
  BY <1>1, <1>2, <1>3 DEF Table, EntriesOf
<1>5. Walking' /\ Moving' /\ Listing'
  BY <1>1, <1>2 DEF Walking, Moving, Listing
<1>6. Load'
  BY <1>1, <1>2 DEF Load
<1>7. QED
  BY <1>4, <1>5, <1>6

(* A walk over the buckets begins with all entries to come.                 *)
LEMMA WalkBegins ==
  ASSUME NEW v \in Seq(Seq(Entry))
  PROVE  Range(<< >>) \cup Behind(v, 0) = EntriesOf(v) /\ NoTwice(<< >>) /\ Range(<< >>) = {}
<1>1. Range(<< >>) = {} /\ NoTwice(<< >>)
  BY DEF Range, NoTwice
<1>2. QED
  BY <1>1, BehindEnds

(* It comes to the next entry of a bucket.                                  *)
LEMMA WalkOn ==
  ASSUME IInv, pc \in {"rehash", "keys"}, entry_list # << >>, entry_list' = Tail(entry_list),
         UNCHANGED <<vec, vec_i, cell, pc>>
  PROVE  /\ Head(entry_list) \in Left /\ Head(entry_list) \in DOMAIN cell
         /\ Left' = Left \ {Head(entry_list)}
         /\ entry_list' \in Seq(Entry) /\ Walking'
<1> DEFINE e == Head(entry_list)
           t == Tail(entry_list)
           n == Behind(vec, vec_i)
<1>1. /\ entry_list \in Seq(Entry) /\ NoTwice(entry_list) /\ Left \subseteq DOMAIN cell
      /\ Range(entry_list) \cap n = {}
  BY DEF IInv, TypeOK, Walking
<1>2. /\ t \in Seq(Entry) /\ Range(entry_list) = {e} \cup Range(t)
      /\ NoTwice(t) /\ e \notin Range(t)
  BY <1>1, Popped
<1>3. Left = Range(entry_list) \cup n /\ Left' = Range(t) \cup n /\ entry_list' = t /\ Behind(vec, vec_i)' = n
  BY DEF Left
<1> HIDE DEF e, t, n
<1>4. e \in Left /\ e \in DOMAIN cell /\ Left' = Left \ {e}
  BY <1>1, <1>2, <1>3
<1>5. Walking'
  BY <1>1, <1>2, <1>3, <1>4 DEF Walking
<1>6. QED
  BY <1>2, <1>3, <1>4, <1>5 DEF e

(* It comes to the next bucket.                                             *)
LEMMA WalkNext ==
  ASSUME IInv, pc \in {"rehash", "keys"}, NextBucket, UNCHANGED <<vec, cell, pc>>
  PROVE  Left' = Left /\ vec_i' \in 0 .. Len(vec) /\ entry_list' \in Seq(Entry) /\ Walking'
<1>1. entry_list = << >> /\ vec_i < Len(vec) /\ vec_i' = vec_i + 1 /\ entry_list' = vec[vec_i + 1]
  BY DEF NextBucket
<1>2. /\ vec \in Seq(Seq(Entry)) /\ Len(vec) \in Nat \ {0} /\ DOMAIN vec = 1 .. Len(vec)
      /\ PlacedIn(vec, cell) /\ vec_i \in 0 .. Len(vec)
      /\ \A i \in 1 .. Len(vec) : vec[i] \in Seq(Entry)
  BY Facts DEF IInv, Table, TypeOK
<1>3. vec_i \in 0 .. Len(vec) - 1 /\ vec_i + 1 \in 1 .. Len(vec)
  BY <1>1, <1>2
<1>4. /\ Behind(vec, vec_i) = Range(vec[vec_i + 1]) \cup Behind(vec, vec_i + 1)
      /\ Range(vec[vec_i + 1]) \cap Behind(vec, vec_i + 1) = {}
  BY <1>2, <1>3, BehindNext
<1>5. entry_list' \in Seq(Entry) /\ NoTwice(entry_list')
  BY <1>1, <1>2, <1>3 DEF PlacedIn
<1>6. Range(entry_list) = {}
  BY <1>1 DEF Range
<1>7. Behind(vec, vec_i)' = Behind(vec, vec_i + 1) /\ Range(entry_list') = Range(vec[vec_i + 1])
  BY <1>1
<1>8. Left' = Left
  BY <1>4, <1>6, <1>7 DEF Left
<1>9. Walking'
  BY <1>4, <1>5, <1>7, <1>8 DEF IInv, Walking
<1>10. QED
  BY <1>1, <1>3, <1>5, <1>8, <1>9

(* It ends with nothing left.                                               *)
LEMMA WalkEnds ==
  ASSUME IInv, WalkedAll
  PROVE  Left = {} /\ entry_list = << >>
<1>1. entry_list = << >> /\ vec_i = Len(vec) /\ vec \in Seq(Seq(Entry))
  BY Facts DEF WalkedAll
<1>2. Range(entry_list) = {} /\ Behind(vec, vec_i) = {}
  BY <1>1, BehindEnds DEF Range
<1>3. QED
  BY <1>1, <1>2 DEF Left

(* dict_rehash has all entries still to move when it begins.                *)
LEMMA RehashStarts ==
  ASSUME vec' \in Seq(Seq(Entry)), EntriesOf(vec') = DOMAIN cell', NEW n \in Nat, StartRehash(n)
  PROVE  /\ Walking' /\ Moving' /\ Len(new_vec') = n /\ pc' = "rehash"
         /\ new_vec' \in Seq(Seq(Entry)) /\ entry_list' \in Seq(Entry) /\ vec_i' \in 0 .. Len(vec')
<1>1. new_vec' = EmptyVector(n) /\ vec_i' = 0 /\ entry_list' = << >> /\ pc' = "rehash"
  BY DEF StartRehash
<1>2. /\ new_vec' \in Seq(Seq(Entry)) /\ Len(new_vec') = n
      /\ EntriesOf(new_vec') = {} /\ PlacedIn(new_vec', cell')
  BY <1>1, Emptied
<1>3. entry_list' \in Seq(Entry) /\ vec_i' \in 0 .. Len(vec')
  BY <1>1, VectorProperties, EmptySeq
<1>4. Left' = DOMAIN cell' /\ NoTwice(entry_list') /\ Range(entry_list') = {}
  BY <1>1, WalkBegins DEF Left
<1>5. Walking'
  BY <1>1, <1>4 DEF Walking
<1>6. Moving'
  BY <1>1, <1>2, <1>4 DEF Moving
<1>7. QED
  BY <1>1, <1>2, <1>3, <1>5, <1>6

-----------------------------------------------------------------------------
(* One lemma per action.                                                    *)

LEMMA InitInv == Init => IInv
<1> SUFFICES ASSUME Init PROVE IInv
  OBVIOUS
<1>1. DICT_INIT_SIZE \in Nat \ {0}
  BY SizeAssumption
<1>2. vec = EmptyVector(DICT_INIT_SIZE) /\ hash_mask = DICT_INIT_SIZE - 1 /\ nb_items = 0 /\ cell = << >>
  BY DEF Init
<1>3. op = NoOp /\ pc = "idle" /\ entry = Null /\ new_vec = << >> /\ vec_i = 0 /\ entry_list = << >>
  BY DEF Init
<1>4. /\ vec \in Seq(Seq(Entry)) /\ Len(vec) = DICT_INIT_SIZE
      /\ EntriesOf(vec) = {} /\ PlacedIn(vec, cell)
  BY <1>1, <1>2, Emptied
<1>5. DOMAIN cell = {} /\ IsFiniteSet(DOMAIN cell) /\ Cardinality(DOMAIN cell) = 0
  <2>1. DOMAIN cell = {}
    BY <1>2
  <2>2. QED
    BY <2>1, FS_EmptySet
<1>6. TypeOK
  <2>1. new_vec \in Seq(Seq(Entry)) /\ entry_list \in Seq(Entry)
    BY <1>3, EmptySeq
  <2>2. hash_mask \in Nat /\ vec_i \in 0 .. Len(vec)
    BY <1>1, <1>2, <1>3, <1>4
  <2>3. QED
    BY <1>2, <1>3, <1>4, <1>5, <2>1, <2>2 DEF TypeOK
<1>7. Table
  <2>1. vec # << >>
    BY <1>1, <1>4, EmptySeq
  <2>2. QED
    BY <1>2, <1>4, <1>5, <2>1 DEF Table
<1>8. Walking /\ Moving /\ Listing /\ Load /\ Handed
  BY <1>1, <1>2, <1>3, <1>4 DEF Walking, Moving, Listing, Load, Handed
<1>9. QED
  BY <1>6, <1>7, <1>8 DEF IInv

LEMMA BeginStep == ASSUME IInv, Begin PROVE IInv'
<1>1. /\ pc = "idle" /\ pc' = "lookup" /\ UNCHANGED <<tableVars, cell, entry, walkVars>>
      /\ op' \in [name : DOMAIN Flag, key : Key, val : Val]
  BY DEF Begin
<1>2. Table' /\ Walking' /\ Moving' /\ Listing' /\ Load'
  BY <1>1, Unmoved
<1>3. TypeOK'
  BY <1>1 DEF IInv, TypeOK, tableVars, walkVars
<1>4. Handed'
  <2>1. op'.name # "none"
    BY <1>1 DEF Flag
  <2>2. QED
    BY <1>1, <2>1 DEF Handed, NoOp
<1>5. QED
  BY <1>2, <1>3, <1>4 DEF IInv

LEMMA LookupFoundStep == ASSUME IInv, LookupFound PROVE IInv'
<1> DEFINE e == vec[bucket][Min(Matches)]
<1>1. /\ pc = "lookup" /\ pc' = "return" /\ Found /\ entry' = e
      /\ UNCHANGED <<tableVars, cell, op, walkVars>>
  BY DEF LookupFound
<1>2. e \in DOMAIN cell /\ cell[e].key = op.key
  BY <1>1, Walk
<1> HIDE DEF e
<1>3. Table' /\ Walking' /\ Moving' /\ Listing' /\ Load'
  BY <1>1, Unmoved
<1>4. TypeOK'
  BY <1>1, <1>2, Facts DEF IInv, TypeOK, tableVars, walkVars
<1>5. Handed'
  BY <1>1, <1>2 DEF IInv, Handed
<1>6. QED
  BY <1>3, <1>4, <1>5 DEF IInv

LEMMA LookupMissingStep == ASSUME IInv, LookupMissing PROVE IInv'
<1>1. /\ pc = "lookup" /\ pc' = "return" /\ ~ Found /\ entry' = Null
      /\ Flag[op.name] # "CREATE_ON_ABSENT"
      /\ UNCHANGED <<tableVars, cell, op, walkVars>>
  BY DEF LookupMissing
<1>2. Table' /\ Walking' /\ Moving' /\ Listing' /\ Load'
  BY <1>1, Unmoved
<1>3. TypeOK'
  BY <1>1 DEF IInv, TypeOK, tableVars, walkVars
<1>4. op.name # "delete" => Flag[op.name] = "DEFAULT"
  <2>1. op.name \in DOMAIN Flag
    BY <1>1, Operation
  <2>2. QED
    BY <1>1, <2>1 DEF Flag
<1>5. \A e \in DOMAIN cell : cell[e].key # op.key
  BY <1>1, Walk
<1>6. Handed'
  BY <1>1, <1>4, <1>5 DEF IInv, Handed
<1>7. QED
  BY <1>2, <1>3, <1>6 DEF IInv

(* An insertion or a deletion ends, or resizes the table.                   *)
LEMMA Changed ==
  ASSUME IInv, pc = "lookup", vec' \in Seq(Seq(Entry)), Len(vec') = Len(vec),
         UNCHANGED <<hash_mask, op>>, nb_items' \in Nat,
         PlacedIn(vec', cell'), EntriesOf(vec') = DOMAIN cell',
         IsFiniteSet(DOMAIN cell'), nb_items' = Cardinality(DOMAIN cell'),
         \A d, e \in DOMAIN cell' : cell'[d].key = cell'[e].key => d = e,
         DOMAIN cell' \subseteq Entry,
         \A e \in DOMAIN cell' : cell'[e] \in [key : Key, val : Val \cup {Null}],
         entry' \in Entry \cup {Null},
         op.name = "delete" \/ (entry' \in DOMAIN cell' /\ cell'[entry'].key = op.key),
         \/ /\ pc' = "return" /\ UNCHANGED walkVars
            /\ 2 * nb_items' <= 3 * Len(vec)
         \/ /\ StartRehash(2 * Len(vec))
            /\ TooFull(nb_items', Len(vec)) /\ 2 * (nb_items' - 1) <= 3 * Len(vec)
         \/ /\ StartRehash(Len(vec) \div 2)
            /\ TooSparse(nb_items', Len(vec))
  PROVE  IInv'
<1>1. Len(vec) \in Nat \ {0} /\ hash_mask = Len(vec) - 1
  BY Facts
<1>2. Table'
  <2>1. vec' # << >>
    BY <1>1, EmptySeq
  <2>2. QED
    BY <1>1, <2>1 DEF Table
<1>3. new_vec = << >> /\ vec_i = 0 /\ entry_list = << >>
  BY DEF IInv, Walking, Moving
<1>4. /\ pc' \in {"return", "rehash"} /\ Walking' /\ Moving' /\ Load'
      /\ new_vec' \in Seq(Seq(Entry)) /\ entry_list' \in Seq(Entry) /\ vec_i' \in 0 .. Len(vec')
  <2>1. CASE pc' = "return" /\ UNCHANGED walkVars /\ 2 * nb_items' <= 3 * Len(vec)
    <3>1. new_vec' = << >> /\ vec_i' = 0 /\ entry_list' = << >>
      BY <1>3, <2>1 DEF walkVars
    <3>2. QED
      BY <1>1, <2>1, <3>1, EmptySeq DEF Walking, Moving, Load
  <2>2. CASE /\ StartRehash(2 * Len(vec))
             /\ TooFull(nb_items', Len(vec)) /\ 2 * (nb_items' - 1) <= 3 * Len(vec)
    <3>1. 2 * Len(vec) \in Nat
      BY <1>1
    <3>2. /\ Walking' /\ Moving' /\ Len(new_vec') = 2 * Len(vec) /\ pc' = "rehash"
          /\ new_vec' \in Seq(Seq(Entry)) /\ entry_list' \in Seq(Entry) /\ vec_i' \in 0 .. Len(vec')
      BY <2>2, <3>1, RehashStarts
    <3>3. Load'
      BY <2>2, <3>2 DEF Load
    <3>4. QED
      BY <3>2, <3>3
  <2>3. CASE StartRehash(Len(vec) \div 2) /\ TooSparse(nb_items', Len(vec))
    <3>1. Len(vec) \div 2 \in Nat
      BY <1>1
    <3>2. /\ Walking' /\ Moving' /\ Len(new_vec') = Len(vec) \div 2 /\ pc' = "rehash"
          /\ new_vec' \in Seq(Seq(Entry)) /\ entry_list' \in Seq(Entry) /\ vec_i' \in 0 .. Len(vec')
      BY <2>3, <3>1, RehashStarts
    <3>3. Load'
      BY <2>3, <3>2 DEF Load
    <3>4. QED
      BY <3>2, <3>3
  <2>4. QED
    BY <2>1, <2>2, <2>3
<1>5. TypeOK'
  BY <1>4 DEF IInv, TypeOK
<1>6. Listing' /\ Handed'
  BY <1>4 DEF IInv, Listing, Handed
<1>7. QED
  BY <1>2, <1>4, <1>5, <1>6 DEF IInv

LEMMA LookupCreateStep == ASSUME IInv, LookupCreate PROVE IInv'
<1>1. pc = "lookup" /\ ~ Found /\ UNCHANGED <<hash_mask, op>> /\ nb_items' = nb_items + 1
  BY DEF LookupCreate
<1>2. PICK e \in Entry \ DOMAIN cell :
        /\ cell' = [d \in DOMAIN cell \cup {e} |->
                      IF d = e THEN [key |-> op.key, val |-> Null] ELSE cell[d]]
        /\ vec' = [vec EXCEPT ![bucket] = <<e>> \o @]
        /\ entry' = e
  BY DEF LookupCreate
<1>3. op.key \in Key
  BY <1>1, Operation
<1>4. /\ bucket \in 1 .. Len(vec) /\ bucket = Bucket(op.key, Len(vec) - 1)
      /\ \A d \in DOMAIN cell : cell[d].key # op.key
  BY <1>1, Walk
<1>5. /\ vec \in Seq(Seq(Entry)) /\ Len(vec) \in Nat \ {0} /\ hash_mask = Len(vec) - 1 /\ nb_items \in Nat
      /\ PlacedIn(vec, cell) /\ EntriesOf(vec) = DOMAIN cell
      /\ IsFiniteSet(DOMAIN cell) /\ nb_items = Cardinality(DOMAIN cell)
      /\ \A d, f \in DOMAIN cell : cell[d].key = cell[f].key => d = f
  BY Facts DEF IInv, Table
<1>6. /\ DOMAIN cell' = DOMAIN cell \cup {e} /\ cell'[e] = [key |-> op.key, val |-> Null]
      /\ \A d \in DOMAIN cell : cell'[d] = cell[d]
  BY <1>2
<1>7. PlacedIn(vec, cell')
  BY <1>5, <1>6, SameKeys
<1>8. vec' = [vec EXCEPT ![bucket] = <<e>> \o vec[bucket]]
  BY <1>2
<1>9. Grown(vec, bucket, e, vec')
  <2>1. e \in Entry
    BY <1>2
  <2>2. QED
    BY <1>4, <1>5, <1>8, <2>1, EntryAdded
<1>10. /\ vec' \in Seq(Seq(Entry)) /\ Len(vec') = Len(vec)
       /\ EntriesOf(vec') = DOMAIN cell' /\ PlacedIn(vec', cell')
  <2>1. e \notin EntriesOf(vec) /\ Bucket(cell'[e].key, Len(vec) - 1) = bucket
    BY <1>2, <1>4, <1>5, <1>6
  <2>2. EntriesOf(vec') = EntriesOf(vec) \cup {e}
    BY <1>4, <1>9, EntryCounted
  <2>3. PlacedIn(vec', cell')
    BY <1>4, <1>7, <1>9, <2>1, EntryPlaced
  <2>4. QED
    BY <1>5, <1>6, <1>9, <2>2, <2>3 DEF Grown
<1>11. IsFiniteSet(DOMAIN cell') /\ nb_items' = Cardinality(DOMAIN cell') /\ nb_items' \in Nat
  BY <1>1, <1>5, <1>6, FS_AddElement
<1>12. \A d, f \in DOMAIN cell' : cell'[d].key = cell'[f].key => d = f
  BY <1>4, <1>5, <1>6
<1>13. /\ DOMAIN cell' \subseteq Entry
       /\ \A d \in DOMAIN cell' : cell'[d] \in [key : Key, val : Val \cup {Null}]
  BY <1>3, <1>6 DEF IInv, TypeOK
<1>14. entry' \in Entry /\ entry' \in DOMAIN cell' /\ cell'[entry'].key = op.key
  BY <1>2, <1>6
<1>15. 2 * nb_items <= 3 * Len(vec)
  BY <1>1 DEF IInv, Load
<1>16. \/ /\ pc' = "return" /\ UNCHANGED walkVars /\ 2 * nb_items' <= 3 * Len(vec)
       \/ /\ StartRehash(2 * Len(vec))
          /\ TooFull(nb_items', Len(vec)) /\ 2 * (nb_items' - 1) <= 3 * Len(vec)
  <2>1. CASE TooFull(nb_items', Len(vec))
    <3>1. StartRehash((1 + hash_mask) * 2)
      BY <2>1 DEF LookupCreate
    <3>2. (1 + hash_mask) * 2 = 2 * Len(vec) /\ nb_items' - 1 = nb_items
      BY <1>1, <1>5
    <3>3. QED
      BY <1>15, <2>1, <3>1, <3>2
  <2>2. CASE ~ TooFull(nb_items', Len(vec))
    <3>1. pc' = "return" /\ UNCHANGED walkVars
      BY <2>2 DEF LookupCreate
    <3>2. 2 * nb_items' <= 3 * Len(vec)
      BY <1>5, <1>11, <2>2 DEF TooFull
    <3>3. QED
      BY <3>1, <3>2
  <2>3. QED
    BY <2>1, <2>2
<1>17. QED
  BY <1>1, <1>10, <1>11, <1>12, <1>13, <1>14, <1>16, Changed

LEMMA LookupPopStep == ASSUME IInv, LookupPop PROVE IInv'
<1> DEFINE i == Min(Matches)
           e == vec[bucket][i]
<1>1. /\ pc = "lookup" /\ Found /\ Flag[op.name] = "POP_IF_FOUND"
      /\ UNCHANGED <<hash_mask, op>> /\ nb_items' = nb_items - 1
      /\ entry' = e /\ vec' = [vec EXCEPT ![bucket] = Unlinked(vec[bucket], i)]
      /\ cell' = Restrict(cell, DOMAIN cell \ {e})
  BY DEF LookupPop
<1>2. /\ bucket \in 1 .. Len(vec) /\ i \in DOMAIN vec[bucket] /\ e \in DOMAIN cell
  BY <1>1, Walk
<1>3. /\ vec \in Seq(Seq(Entry)) /\ Len(vec) \in Nat \ {0} /\ hash_mask = Len(vec) - 1 /\ nb_items \in Nat
      /\ PlacedIn(vec, cell) /\ EntriesOf(vec) = DOMAIN cell
      /\ IsFiniteSet(DOMAIN cell) /\ nb_items = Cardinality(DOMAIN cell)
      /\ \A d, f \in DOMAIN cell : cell[d].key = cell[f].key => d = f
  BY Facts DEF IInv, Table
<1>4. DOMAIN cell' = DOMAIN cell \ {e} /\ \A d \in DOMAIN cell' : cell'[d] = cell[d]
  BY <1>1 DEF Restrict
<1>5. op.name = "delete"
  <2>1. op.name \in DOMAIN Flag
    BY <1>1, Operation
  <2>2. QED
    BY <1>1, <2>1 DEF Flag
<1> HIDE DEF i
<1>6. vec' \in Seq(Seq(Entry)) /\ Len(vec') = Len(vec)
  <2>1. vec[bucket] \in Seq(Entry) /\ NoTwice(vec[bucket])
    BY <1>2, <1>3, VectorProperties DEF PlacedIn
  <2>2. Unlinked(vec[bucket], i) \in Seq(Entry)
    BY <1>2, <2>1, TakenOut
  <2>3. QED
    BY <1>1, <1>2, <1>3, <2>2, ExceptSeq
<1>7. Len(vec') = Len(vec)
  BY <1>6
<1>8. EntriesOf(vec') = EntriesOf(vec) \ {e}
  BY <1>1, <1>2, <1>3, EntryTakenOut, ZenonT(30)
<1>9. PlacedIn(vec', cell)
  BY <1>1, <1>2, <1>3, EntryTakenOut, ZenonT(30)
<1> HIDE DEF e
<1>10. EntriesOf(vec') = DOMAIN cell'
  BY <1>3, <1>4, <1>8
<1>11. PlacedIn(vec', cell')
  BY <1>4, <1>9, <1>10, SameKeys
<1>12. IsFiniteSet(DOMAIN cell') /\ nb_items' = Cardinality(DOMAIN cell')
  BY <1>1, <1>2, <1>3, <1>4, FS_RemoveElement
<1>13. nb_items' \in Nat
  BY <1>12, FS_CardinalityType
<1>14. \A d, f \in DOMAIN cell' : cell'[d].key = cell'[f].key => d = f
  BY <1>3, <1>4
<1>15. /\ DOMAIN cell' \subseteq Entry
       /\ \A d \in DOMAIN cell' : cell'[d] \in [key : Key, val : Val \cup {Null}]
  BY <1>4 DEF IInv, TypeOK
<1>16. entry' \in Entry \cup {Null}
  BY <1>1, <1>2, Facts
<1>17. 2 * nb_items <= 3 * Len(vec)
  BY <1>1 DEF IInv, Load
<1>18. \/ /\ pc' = "return" /\ UNCHANGED walkVars /\ 2 * nb_items' <= 3 * Len(vec)
       \/ StartRehash(Len(vec) \div 2) /\ TooSparse(nb_items', Len(vec))
  <2>1. CASE TooSparse(nb_items', Len(vec))
    <3>1. StartRehash((1 + hash_mask) \div 2)
      BY <2>1 DEF LookupPop
    <3>2. 1 + hash_mask = Len(vec)
      BY <1>3
    <3>3. QED
      BY <2>1, <3>1, <3>2
  <2>2. CASE ~ TooSparse(nb_items', Len(vec))
    <3>1. pc' = "return" /\ UNCHANGED walkVars
      BY <2>2 DEF LookupPop
    <3>2. 2 * nb_items' <= 3 * Len(vec)
      BY <1>1, <1>3, <1>17
    <3>3. QED
      BY <3>1, <3>2
  <2>3. QED
    BY <2>1, <2>2
<1>19. QED
  BY <1>1, <1>5, <1>6, <1>7, <1>10, <1>11, <1>12, <1>13, <1>14, <1>15, <1>16, <1>18, Changed

(* dict_rehash moves an entry, which stays in the table.                    *)
LEMMA RehashMoveStep == ASSUME IInv, RehashMove PROVE IInv'
<1> DEFINE e == Head(entry_list)
           b == Bucket(cell[e].key, Len(new_vec) - 1)
<1>1. /\ pc = "rehash" /\ entry_list # << >>
      /\ new_vec' = [new_vec EXCEPT ![b] = <<e>> \o new_vec[b]]
      /\ entry_list' = Tail(entry_list)
      /\ UNCHANGED <<tableVars, cell, op, pc, entry, vec_i>>
  BY DEF RehashMove, NewHead
<1>2. /\ new_vec \in Seq(Seq(Entry)) /\ PlacedIn(new_vec, cell)
      /\ EntriesOf(new_vec) = DOMAIN cell \ Left
  BY <1>1 DEF IInv, TypeOK, Moving
<1>3. /\ e \in Left /\ e \in DOMAIN cell /\ e \in Entry /\ Left' = Left \ {e}
      /\ entry_list' \in Seq(Entry) /\ Walking'
  BY <1>1, WalkOn, Facts DEF tableVars
<1>4. Len(new_vec) \in Nat \ {0}
  <2>1. Len(vec) \in Nat \ {0} /\ nb_items \in Nat /\ Len(new_vec) \in Nat
    BY <1>2, Facts, VectorProperties
  <2>2. CASE Len(new_vec) = 2 * Len(vec)
    BY <2>1, <2>2
  <2>3. CASE TooSparse(nb_items, Len(vec)) /\ Len(new_vec) = Len(vec) \div 2
    BY <2>1, <2>3, SizeAssumption DEF TooSparse
  <2>4. QED
    BY <1>1, <2>2, <2>3 DEF IInv, Load
<1>5. e \notin EntriesOf(new_vec)
  BY <1>2, <1>3
<1>6. b \in 1 .. Len(new_vec)
  <2>1. cell[e].key \in Key
    BY <1>3, Facts
  <2>2. QED
    BY <1>4, <2>1, BucketRange
<1>7. b = Bucket(cell[e].key, Len(new_vec) - 1)
  OBVIOUS
<1> HIDE DEF e, b
<1>8. Grown(new_vec, b, e, new_vec')
  BY <1>1, <1>2, <1>3, <1>6, EntryAdded
<1>9. new_vec' \in Seq(Seq(Entry)) /\ Len(new_vec') = Len(new_vec)
  BY <1>8 DEF Grown
<1>10. EntriesOf(new_vec') = EntriesOf(new_vec) \cup {e}
  BY <1>6, <1>8, EntryCounted
<1>11. PlacedIn(new_vec', cell)
  BY <1>2, <1>5, <1>6, <1>7, <1>8, EntryPlaced
<1>12. UNCHANGED <<vec, hash_mask, nb_items, cell, op, pc, entry, vec_i>>
  BY <1>1 DEF tableVars
<1>13. Moving'
  <2>1. EntriesOf(new_vec') = DOMAIN cell \ Left'
    BY <1>2, <1>3, <1>10
  <2>2. QED
    BY <1>1, <1>11, <1>12, <2>1 DEF Moving
<1>14. TypeOK'
  BY <1>1, <1>3, <1>9, <1>12 DEF IInv, TypeOK
<1>15. Table' /\ Listing' /\ Handed'
  BY <1>1, <1>12 DEF IInv, Table, Listing, Handed, EntriesOf, PlacedIn
<1>16. Load'
  <2>1. pc = "rehash" /\ pc' = "rehash" /\ Len(vec') = Len(vec) /\ nb_items' = nb_items
        /\ Len(new_vec') = Len(new_vec)
    BY <1>1, <1>9, <1>12
  <2>2. \/ /\ TooFull(nb_items, Len(vec)) /\ 2 * (nb_items - 1) <= 3 * Len(vec)
           /\ Len(new_vec) = 2 * Len(vec)
        \/ /\ TooSparse(nb_items, Len(vec))
           /\ Len(new_vec) = Len(vec) \div 2
    BY <2>1 DEF IInv, Load
  <2>3. \/ /\ TooFull(nb_items', Len(vec')) /\ 2 * (nb_items' - 1) <= 3 * Len(vec')
           /\ Len(new_vec') = 2 * Len(vec')
        \/ /\ TooSparse(nb_items', Len(vec'))
           /\ Len(new_vec') = Len(vec') \div 2
    BY <2>1, <2>2
  <2>4. QED
    BY <2>1, <2>3 DEF Load
<1>17. QED
  BY <1>3, <1>13, <1>14, <1>15, <1>16 DEF IInv

LEMMA NextBucketStep == ASSUME IInv, RehashNextBucket \/ KeysNextBucket PROVE IInv'
<1>1. /\ pc \in {"rehash", "keys"} /\ NextBucket
      /\ UNCHANGED <<vec, hash_mask, nb_items, cell, op, pc, entry, new_vec, ret>>
  BY DEF RehashNextBucket, KeysNextBucket, tableVars
<1>2. Left' = Left /\ vec_i' \in 0 .. Len(vec) /\ entry_list' \in Seq(Entry) /\ Walking'
  BY <1>1, WalkNext
<1>3. TypeOK'
  BY <1>1, <1>2 DEF IInv, TypeOK
<1>4. Table' /\ Load' /\ Handed'
  BY <1>1 DEF IInv, Table, Load, Handed, EntriesOf, PlacedIn
<1>5. Moving' /\ Listing'
  BY <1>1, <1>2 DEF IInv, Moving, Listing, PlacedIn, EntriesOf
<1>6. QED
  BY <1>2, <1>3, <1>4, <1>5 DEF IInv

(* The length of the new vector when the table takes it.                    *)
LEMMA NewLength ==
  ASSUME IInv, pc = "rehash"
  PROVE  /\ new_vec \in Seq(Seq(Entry)) /\ Len(new_vec) \in Nat \ {0} /\ 2 * nb_items <= 3 * Len(new_vec)
         /\ Len(new_vec) > Len(vec) => ~ TooSparse(nb_items - 1, Len(new_vec))
         /\ ~ Len(new_vec) > Len(vec) => ~ TooFull(nb_items + 1, Len(new_vec))
<1>1. /\ Len(vec) \in Nat \ {0} /\ nb_items \in Nat /\ new_vec \in Seq(Seq(Entry))
      /\ DICT_INIT_SIZE \in Nat \ {0}
  BY Facts, SizeAssumption DEF IInv, TypeOK
<1>2. CASE /\ TooFull(nb_items, Len(vec)) /\ 2 * (nb_items - 1) <= 3 * Len(vec)
           /\ Len(new_vec) = 2 * Len(vec)
  BY <1>1, <1>2 DEF TooFull, TooSparse
<1>3. CASE TooSparse(nb_items, Len(vec)) /\ Len(new_vec) = Len(vec) \div 2
  BY <1>1, <1>3 DEF TooFull, TooSparse
<1>4. QED
  BY <1>2, <1>3 DEF IInv, Load

LEMMA RehashEndStep == ASSUME IInv, RehashEnd PROVE IInv'
<1>1. /\ pc = "rehash" /\ WalkedAll
      /\ vec' = new_vec /\ hash_mask' = Len(new_vec) - 1
      /\ new_vec' = << >> /\ vec_i' = 0 /\ pc' = "return"
      /\ UNCHANGED <<nb_items, cell, op, entry, entry_list>>
  BY DEF RehashEnd, NewMask
<1>2. new_vec \in Seq(Seq(Entry)) /\ Len(new_vec) \in Nat \ {0} /\ 2 * nb_items <= 3 * Len(new_vec)
  BY <1>1, NewLength
<1>3. Left = {} /\ entry_list = << >>
  BY <1>1, WalkEnds
<1>4. PlacedIn(new_vec, cell) /\ EntriesOf(new_vec) = DOMAIN cell
  BY <1>1, <1>3 DEF IInv, Moving
<1>5. Table'
  <2>1. new_vec # << >>
    BY <1>2, EmptySeq
  <2>2. PlacedIn(vec', cell') /\ EntriesOf(vec') = DOMAIN cell'
    BY <1>1, <1>4
  <2>3. QED
    BY <1>1, <2>1, <2>2 DEF IInv, Table
<1>6. TypeOK'
  <2>1. new_vec' \in Seq(Seq(Entry)) /\ vec_i' \in 0 .. Len(vec') /\ hash_mask' \in Nat
    BY <1>1, <1>2, EmptySeq
  <2>2. QED
    BY <1>1, <1>2, <2>1 DEF IInv, TypeOK
<1>7. Walking' /\ Moving' /\ Listing' /\ Load'
  BY <1>1, <1>2, <1>3 DEF Walking, Moving, Listing, Load
<1>8. Handed'
  BY <1>1 DEF IInv, Handed
<1>9. QED
  BY <1>5, <1>6, <1>7, <1>8 DEF IInv

(* dict_get_keys has listed each key that it has come by once.              *)
LEMMA KeysBeginStep == ASSUME IInv, KeysBegin PROVE IInv'
<1>1. /\ pc = "idle" /\ pc' = "keys" /\ ret' = << >>
      /\ UNCHANGED <<vec, hash_mask, nb_items, cell, op, entry, new_vec, vec_i, entry_list>>
  BY DEF KeysBegin, tableVars, walkVars
<1>2. vec_i = 0 /\ entry_list = << >>
  BY <1>1 DEF IInv, Walking
<1>3. EntriesOf(vec) = DOMAIN cell /\ vec \in Seq(Seq(Entry))
  BY Facts DEF IInv, Table
<1>4. Left' = DOMAIN cell' /\ NoTwice(entry_list') /\ Range(entry_list') = {}
  BY <1>1, <1>2, <1>3, WalkBegins DEF Left
<1>5. Walking'
  BY <1>1, <1>4 DEF Walking
<1>6. Listing'
  <2>1. ret' \in Seq(Key) /\ NoTwice(ret') /\ Range(ret') = {}
    BY <1>1, EmptySeq DEF NoTwice, Range
  <2>2. QED
    BY <1>4, <2>1 DEF Listing
<1>7. TypeOK' /\ Table' /\ Moving' /\ Load' /\ Handed'
  BY <1>1 DEF IInv, TypeOK, Table, Moving, Load, Handed, EntriesOf, PlacedIn
<1>8. QED
  BY <1>5, <1>6, <1>7 DEF IInv

LEMMA KeysPutStep == ASSUME IInv, KeysPut PROVE IInv'
<1> DEFINE e == Head(entry_list)
           k == cell[e].key
<1>1. /\ pc = "keys" /\ entry_list # << >> /\ ret' = <<k>> \o ret /\ entry_list' = Tail(entry_list)
      /\ UNCHANGED <<vec, hash_mask, nb_items, cell, op, pc, entry, new_vec, vec_i>>
  BY DEF KeysPut, tableVars
<1>2. /\ e \in Left /\ e \in DOMAIN cell /\ Left' = Left \ {e}
      /\ entry_list' \in Seq(Entry) /\ Walking'
  BY <1>1, WalkOn
<1>3. ret \in Seq(Key) /\ NoTwice(ret) /\ Range(ret) = { cell[d].key : d \in DOMAIN cell \ Left }
  BY <1>1 DEF IInv, Listing
<1>4. k \in Key
  BY <1>2, Facts
<1> HIDE DEF e
<1>5. k \notin Range(ret)
  BY <1>2, <1>3 DEF IInv, Table
<1> HIDE DEF k
<1>6. ret' \in Seq(Key) /\ Range(ret') = Range(ret) \cup {k} /\ NoTwice(ret')
  <2>1. ret' \in Seq(Key)
    BY <1>1, <1>3, <1>4, Prepended
  <2>2. Longer(ret, k, ret')
    BY <1>1, <1>3, <1>4, Prepended
  <2>3. QED
    BY <1>3, <1>5, <2>1, <2>2 DEF Longer
<1>7. Range(ret') = { cell[d].key : d \in DOMAIN cell \ Left' }
  BY <1>2, <1>3, <1>6 DEF k
<1>8. Listing'
  BY <1>1, <1>6, <1>7 DEF Listing
<1>9. TypeOK' /\ Table' /\ Moving' /\ Load' /\ Handed'
  BY <1>1, <1>2 DEF IInv, TypeOK, Table, Moving, Load, Handed, EntriesOf, PlacedIn
<1>10. QED
  BY <1>2, <1>8, <1>9 DEF IInv

LEMMA KeysEndStep == ASSUME IInv, KeysEnd PROVE IInv'
<1>1. /\ pc = "keys" /\ pc' = "idle" /\ WalkedAll /\ vec_i' = 0
      /\ UNCHANGED <<vec, hash_mask, nb_items, cell, op, entry, new_vec, entry_list, ret>>
  BY DEF KeysEnd, tableVars
<1>2. entry_list = << >>
  BY <1>1, WalkEnds
<1>3. Walking' /\ Listing'
  BY <1>1, <1>2 DEF Walking, Listing
<1>4. vec_i' \in 0 .. Len(vec')
  BY <1>1, Facts
<1>5. TypeOK' /\ Table' /\ Moving' /\ Load' /\ Handed'
  BY <1>1, <1>4 DEF IInv, TypeOK, Table, Moving, Load, Handed, EntriesOf, PlacedIn
<1>6. QED
  BY <1>3, <1>5 DEF IInv

(* The caller goes on: it changes at most the value of an entry.            *)
LEMMA Finished ==
  ASSUME IInv, pc = "return", Finish, DOMAIN cell' = DOMAIN cell,
         \A e \in DOMAIN cell :
           cell'[e] \in [key : Key, val : Val \cup {Null}] /\ cell'[e].key = cell[e].key
  PROVE  IInv'
<1>1. op' = NoOp /\ entry' = Null /\ pc' = "idle" /\ UNCHANGED <<tableVars, walkVars>>
  BY DEF Finish
<1>2. Table' /\ Walking' /\ Moving' /\ Listing' /\ Load'
  BY <1>1, Unmoved
<1>3. TypeOK'
  BY <1>1 DEF IInv, TypeOK, tableVars, walkVars
<1>4. Handed'
  BY <1>1 DEF Handed
<1>5. QED
  BY <1>2, <1>3, <1>4 DEF IInv

LEMMA ReturnSetStep == ASSUME IInv, ReturnSet PROVE IInv'
<1>1. /\ pc = "return" /\ op.name \in {"set", "update"} /\ entry # Null
      /\ cell' = [cell EXCEPT ![entry].val = op.val] /\ Finish
  BY DEF ReturnSet
<1>2. entry \in DOMAIN cell
  BY <1>1 DEF IInv, Handed
<1>3. op.val \in Val
  BY <1>1, Operation
<1>4. \A e \in DOMAIN cell : cell[e] \in [key : Key, val : Val \cup {Null}]
  BY DEF IInv, TypeOK
<1>5. /\ DOMAIN cell' = DOMAIN cell
      /\ \A e \in DOMAIN cell :
           cell'[e] \in [key : Key, val : Val \cup {Null}] /\ cell'[e].key = cell[e].key
  BY <1>1, <1>2, <1>3, <1>4
<1>6. QED
  BY <1>1, <1>5, Finished

LEMMA ReturnStep ==
  ASSUME IInv, ReturnIntern \/ ReturnGet \/ ReturnExists \/ ReturnDelete
  PROVE  IInv'
<1>1. pc = "return" /\ cell' = cell /\ Finish
  BY DEF ReturnIntern, ReturnGet, ReturnExists, ReturnDelete
<1>2. \A e \in DOMAIN cell : cell[e] \in [key : Key, val : Val \cup {Null}]
  BY DEF IInv, TypeOK
<1>3. QED
  BY <1>1, <1>2, Finished

LEMMA ReturnFatalStep == ASSUME IInv, ReturnFatal PROVE IInv'
<1>1. pc = "return" /\ pc' = "fatal" /\ UNCHANGED <<tableVars, cell, op, entry, walkVars>>
  BY DEF ReturnFatal
<1>2. Table' /\ Walking' /\ Moving' /\ Listing' /\ Load'
  BY <1>1, Unmoved
<1>3. TypeOK' /\ Handed'
  BY <1>1 DEF IInv, TypeOK, Handed, tableVars, walkVars
<1>4. QED
  BY <1>2, <1>3 DEF IInv

LEMMA StutterStep == ASSUME IInv, UNCHANGED vars PROVE IInv'
<1>1. UNCHANGED <<vec, hash_mask, nb_items, cell, op, pc, entry, new_vec, vec_i, entry_list, ret>>
  BY DEF vars, tableVars, walkVars
<1>2. TypeOK' /\ Load' /\ Handed'
  BY <1>1 DEF IInv, TypeOK, Load, Handed
<1>3. Table' /\ Walking' /\ Moving' /\ Listing'
  BY <1>1 DEF IInv, Table, Walking, Moving, Listing, Left, PlacedIn, EntriesOf
<1>4. QED
  BY <1>2, <1>3 DEF IInv

LEMMA StepInv == ASSUME IInv, [Next]_vars PROVE IInv'
<1>1. CASE Begin
  BY <1>1, BeginStep
<1>2. CASE KeysBegin \/ KeysPut \/ KeysEnd
  BY <1>2, KeysBeginStep, KeysPutStep, KeysEndStep
<1>3. CASE LookupFound
  BY <1>3, LookupFoundStep
<1>4. CASE LookupMissing
  BY <1>4, LookupMissingStep
<1>5. CASE LookupCreate
  BY <1>5, LookupCreateStep
<1>6. CASE LookupPop
  BY <1>6, LookupPopStep
<1>7. CASE RehashMove
  BY <1>7, RehashMoveStep
<1>8. CASE RehashNextBucket \/ KeysNextBucket
  BY <1>8, NextBucketStep
<1>9. CASE RehashEnd
  BY <1>9, RehashEndStep
<1>10. CASE ReturnSet
  BY <1>10, ReturnSetStep
<1>11. CASE ReturnIntern \/ ReturnGet \/ ReturnExists \/ ReturnDelete
  BY <1>11, ReturnStep
<1>12. CASE ReturnFatal
  BY <1>12, ReturnFatalStep
<1>13. CASE Exited \/ UNCHANGED vars
  BY <1>13, StutterStep DEF Exited
<1>14. QED
  BY <1>1, <1>2, <1>3, <1>4, <1>5, <1>6, <1>7, <1>8, <1>9, <1>10, <1>11, <1>12, <1>13 DEF Next

(* A step adds entries or takes entries out, and leaves the others their keys. *)
LEMMA StepKeeps ==
  ASSUME IInv, [Next]_vars
  PROVE  /\ DOMAIN cell \subseteq DOMAIN cell' \/ DOMAIN cell' \subseteq DOMAIN cell
         /\ \A e \in DOMAIN cell \cap DOMAIN cell' : cell'[e].key = cell[e].key
<1>1. CASE LookupCreate
  <2>1. PICK e \in Entry \ DOMAIN cell :
          cell' = [d \in DOMAIN cell \cup {e} |->
                     IF d = e THEN [key |-> op.key, val |-> Null] ELSE cell[d]]
    BY <1>1 DEF LookupCreate
  <2>2. QED
    BY <2>1
<1>2. CASE LookupPop
  BY <1>2 DEF LookupPop, Restrict
<1>3. CASE ReturnSet
  <2>1. cell' = [cell EXCEPT ![entry].val = op.val] /\ entry \in DOMAIN cell
    BY <1>3 DEF ReturnSet, IInv, Handed
  <2>2. \A e \in DOMAIN cell : cell[e] \in [key : Key, val : Val \cup {Null}]
    BY DEF IInv, TypeOK
  <2>3. QED
    BY <2>1, <2>2
<1>4. CASE cell' = cell
  BY <1>4
<1>5. QED
  <2>1. LookupCreate \/ LookupPop \/ ReturnSet \/ cell' = cell
    BY DEF Next, Begin, KeysBegin, KeysPut, KeysNextBucket, KeysEnd, LookupFound, LookupMissing, RehashMove, RehashNextBucket, RehashEnd,
       ReturnIntern, ReturnGet, ReturnExists, ReturnDelete, ReturnFatal, Exited, vars
  <2>2. QED
    BY <1>1, <1>2, <1>3, <1>4, <2>1

-----------------------------------------------------------------------------
(* The theorems.                                                            *)

(* The inductive invariant holds of every table, through every resizing.    *)
THEOREM Invariance == Spec => []IInv
<1>1. Init => IInv
  BY InitInv
<1>2. IInv /\ [Next]_vars => IInv'
  BY StepInv
<1>3. QED
  BY <1>1, <1>2, PTL DEF Spec

(* Type correctness: buckets hold entries only, the walks stay inside of the *)
(* vector, and each entry has a key and a value.                            *)
THEOREM TypeCorrect == Spec => []TypeOK
<1>1. IInv => TypeOK
  BY DEF IInv
<1>2. QED
  BY <1>1, Invariance, PTL

(* dict_lookup finds every entry: the mask fits the vector, and the entries *)
(* are in the buckets that their keys hash to.                              *)
THEOREM Placement == Spec => []WellPlaced
<1>1. ASSUME IInv PROVE WellPlaced
  <2>1. /\ hash_mask = Len(vec) - 1 /\ PlacedIn(vec, cell) /\ EntriesOf(vec) = DOMAIN cell
    BY <1>1 DEF IInv, Table
  <2>2. ASSUME NEW i \in DOMAIN vec, NEW j \in DOMAIN vec[i]
        PROVE  vec[i][j] \in DOMAIN cell /\ Bucket(cell[vec[i][j]].key, hash_mask) = i
    <3>1. vec[i][j] \in Range(vec[i])
      BY DEF Range
    <3>2. vec[i][j] \in EntriesOf(vec)
      BY <3>1, InEntries
    <3>3. QED
      BY <2>1, <3>1, <3>2 DEF PlacedIn
  <2>3. QED
    BY <2>1, <2>2 DEF WellPlaced
<1>2. QED
  BY <1>1, Invariance, PTL

(* nb_items, which decides when the table is resized, is the number of      *)
(* entries, and no key has two of them.                                     *)
THEOREM Counting == Spec => []CountExact
<1>1. ASSUME IInv PROVE CountExact
  <2>1. /\ PlacedIn(vec, cell) /\ EntriesOf(vec) = DOMAIN cell
        /\ nb_items = Cardinality(DOMAIN cell)
        /\ \A d, e \in DOMAIN cell : cell[d].key = cell[e].key => d = e
    BY <1>1 DEF IInv, Table
  <2>2. \A i \in DOMAIN vec : NoTwice(vec[i])
    BY <2>1 DEF PlacedIn
  <2>3. QED
    BY <2>1, <2>2 DEF CountExact
<1>2. QED
  BY <1>1, Invariance, PTL

(* dict_rehash keeps the buckets short: one and a half entries on average.  *)
THEOREM ShortBuckets == Spec => []LoadBounded
<1>1. ASSUME IInv PROVE LoadBounded
  BY <1>1 DEF IInv, Load, LoadBounded
<1>2. QED
  BY <1>1, Invariance, PTL

(* A table that has just grown does not shrink at the next deletion, and    *)
(* one that has shrunk does not grow at the next insertion.                 *)
THEOREM Settling == Spec => ResizingSettles
<1>1. ASSUME IInv, [Next]_vars
      PROVE  [pc = "rehash" /\ pc' = "return" =>
                IF Len(vec') > Len(vec)
                THEN ~ TooSparse(nb_items - 1, Len(vec'))
                ELSE ~ TooFull(nb_items + 1, Len(vec'))]_vars
  <2>1. SUFFICES ASSUME pc = "rehash", pc' = "return"
                 PROVE  IF Len(vec') > Len(vec)
                        THEN ~ TooSparse(nb_items - 1, Len(vec'))
                        ELSE ~ TooFull(nb_items + 1, Len(vec'))
    OBVIOUS
  <2>2. RehashEnd
    BY <1>1, <2>1 DEF Next, Begin, KeysBegin, KeysPut, KeysNextBucket, KeysEnd, LookupFound, LookupMissing, LookupCreate, LookupPop,
       RehashMove, RehashNextBucket, ReturnSet, ReturnIntern, ReturnGet, ReturnExists,
       ReturnDelete, ReturnFatal, Exited, vars
  <2>3. vec' = new_vec
    BY <2>2 DEF RehashEnd
  <2>4. QED
    BY <1>1, <2>1, <2>3, NewLength
<1>2. QED
  BY <1>1, Invariance, PTL DEF Spec, ResizingSettles

(* A key keeps its entry while it is in the table: what symbol_intern and   *)
(* the environment functions hold is what the next dict_lookup finds,       *)
(* resized or not.                                                          *)
THEOREM Keeping == Spec => EntriesStay
<1>1. ASSUME IInv, IInv', [Next]_vars
      PROVE  [\A k \in KeysPresent \cap KeysPresent' : EntryFor(k)' = EntryFor(k)]_vars
  <2>1. SUFFICES ASSUME NEW k \in KeysPresent \cap KeysPresent' PROVE EntryFor(k)' = EntryFor(k)
    OBVIOUS
  <2>2. /\ EntriesOf(vec) = DOMAIN cell
        /\ \A d, e \in DOMAIN cell : cell[d].key = cell[e].key => d = e
    BY <1>1 DEF IInv, Table
  <2>3. /\ EntriesOf(vec)' = DOMAIN cell'
        /\ \A d, e \in DOMAIN cell' : cell'[d].key = cell'[e].key => d = e
    BY <1>1 DEF IInv, Table
  <2>4. /\ DOMAIN cell \subseteq DOMAIN cell' \/ DOMAIN cell' \subseteq DOMAIN cell
        /\ \A e \in DOMAIN cell \cap DOMAIN cell' : cell'[e].key = cell[e].key
    BY <1>1, StepKeeps
  <2>5. PICK d \in DOMAIN cell : cell[d].key = k
    BY <2>1, <2>2 DEF KeysPresent
  <2>6. PICK e \in DOMAIN cell' : cell'[e].key = k
    BY <2>1, <2>3 DEF KeysPresent
  <2>7. d = e
    BY <2>2, <2>3, <2>4, <2>5, <2>6
  <2>8. EntryFor(k) = d
    <3>1. \A x \in EntriesOf(vec) : cell[x].key = k <=> x = d
      BY <2>2, <2>5
    <3>2. d \in EntriesOf(vec)
      BY <2>2
    <3>3. QED
      BY <3>1, <3>2 DEF EntryFor
  <2>9. EntryFor(k)' = e
    <3>1. \A x \in EntriesOf(vec)' : cell'[x].key = k <=> x = e
      BY <2>3, <2>6
    <3>2. e \in EntriesOf(vec)'
      BY <2>3
    <3>3. QED
      BY <3>1, <3>2 DEF EntryFor
  <2>10. QED
    BY <2>7, <2>8, <2>9
<1>2. QED
  BY <1>1, StepInv, Invariance, PTL DEF Spec, EntriesStay
-----------------------------------------------------------------------------
(* The refinement.                                                          *)

\* What the map has under the key of an entry.
Stored(e) == IF Writing(e) THEN op.val ELSE cell[e].val

\* The map, entry by entry.
Shown ==
  /\ contents = [k \in DOMAIN contents |-> contents[k]]
  /\ DOMAIN contents = { cell[e].key : e \in DOMAIN cell }
  /\ \A e \in DOMAIN cell : contents[cell[e].key] = Stored(e)
  /\ \A d, e \in DOMAIN cell : cell[d].key = cell[e].key => d = e

LEMMA Contents == IInv => Shown
<1> SUFFICES ASSUME IInv PROVE Shown
  OBVIOUS
<1>1. EntriesOf(vec) = DOMAIN cell /\ \A d, e \in DOMAIN cell : cell[d].key = cell[e].key => d = e
  BY DEF IInv, Table
<1>2. KeysPresent = { cell[e].key : e \in DOMAIN cell }
  BY <1>1 DEF KeysPresent
<1>3. ASSUME NEW e \in DOMAIN cell PROVE EntryFor(cell[e].key) = e
  <2>1. \A d \in EntriesOf(vec) : cell[d].key = cell[e].key <=> d = e
    BY <1>1
  <2>2. e \in EntriesOf(vec)
    BY <1>1
  <2>3. QED
    BY <2>1, <2>2 DEF EntryFor
<1>4. /\ DOMAIN contents = KeysPresent
      /\ contents = [k \in DOMAIN contents |-> contents[k]]
      /\ \A k \in KeysPresent : contents[k] = Stored(EntryFor(k))
  BY DEF contents, Stored
<1>5. QED
  BY <1>1, <1>2, <1>3, <1>4 DEF Shown

LEMMA ContentsNext == IInv' => Shown'
BY Contents, PTL

LEMMA SameContents ==
  ASSUME IInv, IInv', DOMAIN cell' = DOMAIN cell,
         \A e \in DOMAIN cell : cell'[e].key = cell[e].key /\ Stored(e)' = Stored(e)
  PROVE  contents' = contents
<1>1. Shown /\ Shown'
  BY Contents, ContentsNext
<1>2. DOMAIN contents' = DOMAIN contents
  BY <1>1 DEF Shown
<1>3. \A k \in DOMAIN contents : contents'[k] = contents[k]
  BY <1>1 DEF Shown
<1>4. QED
  BY <1>1, <1>2, <1>3 DEF Shown

Puts(k, w) == contents' = [x \in DOMAIN contents \cup {k} |-> IF x = k THEN w ELSE contents[x]]

LEMMA PutContents ==
  ASSUME IInv, IInv', NEW f \in DOMAIN cell', NEW k, NEW w, cell'[f].key = k, Stored(f)' = w,
         f \in DOMAIN cell => cell[f].key = k, DOMAIN cell' = DOMAIN cell \cup {f},
         \A e \in DOMAIN cell \ {f} : cell'[e].key = cell[e].key /\ Stored(e)' = Stored(e)
  PROVE  Puts(k, w)
<1>1. Shown /\ Shown'
  BY Contents, ContentsNext
<1>2. DOMAIN contents' = DOMAIN contents \cup {k}
  <2>1. ASSUME NEW x \in DOMAIN contents' PROVE x \in DOMAIN contents \cup {k}
    BY <1>1 DEF Shown
  <2>2. ASSUME NEW x \in DOMAIN contents PROVE x \in DOMAIN contents'
    <3>1. PICK e \in DOMAIN cell : x = cell[e].key
      BY <1>1, <2>2 DEF Shown
    <3>2. cell'[e].key = x
      BY <3>1
    <3>3. QED
      BY <1>1, <3>2 DEF Shown
  <2>3. k \in DOMAIN contents'
    BY <1>1 DEF Shown
  <2>4. QED
    BY <2>1, <2>2, <2>3
<1>3. contents'[k] = w
  BY <1>1 DEF Shown
<1>4. ASSUME NEW x \in DOMAIN contents, x # k PROVE contents'[x] = contents[x]
  <2>1. PICK e \in DOMAIN cell : x = cell[e].key
    BY <1>1, <1>4 DEF Shown
  <2>2. e # f /\ cell'[e].key = x /\ Stored(e)' = Stored(e)
    BY <1>4, <2>1
  <2>3. QED
    BY <1>1, <2>1, <2>2 DEF Shown
<1>5. contents' = [x \in DOMAIN contents' |-> contents'[x]]
  BY <1>1 DEF Shown
<1>6. QED
  BY <1>2, <1>3, <1>4, <1>5 DEF Puts

LEMMA DropContents ==
  ASSUME IInv, IInv', NEW f \in DOMAIN cell, DOMAIN cell' = DOMAIN cell \ {f},
         \A e \in DOMAIN cell' : cell'[e].key = cell[e].key /\ Stored(e)' = Stored(e)
  PROVE  contents' = Restrict(contents, DOMAIN contents \ {cell[f].key})
<1>1. Shown /\ Shown'
  BY Contents, ContentsNext
<1>2. DOMAIN contents' = DOMAIN contents \ {cell[f].key}
  <2>1. ASSUME NEW x \in DOMAIN contents' PROVE x \in DOMAIN contents /\ x # cell[f].key
    <3>1. PICK e \in DOMAIN cell' : x = cell'[e].key
      BY <1>1, <2>1 DEF Shown
    <3>2. e \in DOMAIN cell /\ e # f /\ x = cell[e].key
      BY <3>1
    <3>3. QED
      BY <1>1, <3>2 DEF Shown
  <2>2. ASSUME NEW x \in DOMAIN contents, x # cell[f].key PROVE x \in DOMAIN contents'
    <3>1. PICK e \in DOMAIN cell : x = cell[e].key
      BY <1>1, <2>2 DEF Shown
    <3>2. e \in DOMAIN cell' /\ x = cell'[e].key
      BY <2>2, <3>1
    <3>3. QED
      BY <1>1, <3>2 DEF Shown
  <2>3. QED
    BY <2>1, <2>2
<1>3. ASSUME NEW x \in DOMAIN contents' PROVE contents'[x] = contents[x]
  <2>1. PICK e \in DOMAIN cell' : x = cell'[e].key
    BY <1>1, <1>3 DEF Shown
  <2>2. e \in DOMAIN cell /\ x = cell[e].key /\ Stored(e)' = Stored(e)
    BY <2>1
  <2>3. QED
    BY <1>1, <2>1, <2>2 DEF Shown
<1>4. contents' = [x \in DOMAIN contents' |-> contents'[x]]
  BY <1>1 DEF Shown
<1>5. QED
  BY <1>2, <1>3, <1>4 DEF Restrict

(* A step inside an operation, which the map does not see.                  *)
LEMMA Unseen ==
  ASSUME IInv, IInv', UNCHANGED <<cell, op, entry>>,
         pc \in {"rehash", "return"} <=> pc' \in {"rehash", "return"},
         returned' = returned
  PROVE  UNCHANGED Map!vars
<1>1. \A e \in DOMAIN cell : Stored(e)' = Stored(e)
  BY DEF Stored, Writing
<1>2. contents' = contents
  BY <1>1, SameContents
<1>3. QED
  BY <1>2 DEF Map!vars

(* A caller of dict_lookup that only reads goes on.                         *)
LEMMA FinishReads ==
  ASSUME IInv, IInv', pc = "return", Finish, cell' = cell, op.name \notin {"set", "update"}
  PROVE  contents' = contents /\ returned = ret /\ returned' = ret'
<1>1. op' = NoOp /\ entry' = Null /\ pc' = "idle"
  BY DEF Finish
<1>2. \A e \in DOMAIN cell : Stored(e)' = Stored(e)
  BY <1>1 DEF Stored, Writing
<1>3. contents' = contents
  BY <1>2, SameContents
<1>4. QED
  BY <1>1, <1>3 DEF returned

(* What a caller was given, on the map.                                     *)
LEMMA Given ==
  ASSUME IInv, pc = "return", op.name \notin {"set", "update", "delete"}
  PROVE  /\ op.key \in Key /\ op.val \in Val
         /\ entry # Null => /\ entry \in DOMAIN cell /\ cell[entry].key = op.key
                            /\ op.key \in DOMAIN contents
                            /\ contents[op.key] = cell[entry].val
         /\ entry = Null => op.key \notin DOMAIN contents /\ Flag[op.name] = "DEFAULT"
<1>1. op.key \in Key /\ op.val \in Val
  BY Operation
<1>2. Shown
  BY Contents
<1>3. ASSUME entry # Null
      PROVE  /\ entry \in DOMAIN cell /\ cell[entry].key = op.key
             /\ op.key \in DOMAIN contents /\ contents[op.key] = cell[entry].val
  <2>1. entry \in DOMAIN cell /\ cell[entry].key = op.key
    BY <1>3 DEF IInv, Handed
  <2>2. Stored(entry) = cell[entry].val
    BY DEF Stored, Writing
  <2>3. QED
    BY <1>2, <2>1, <2>2 DEF Shown
<1>4. ASSUME entry = Null PROVE op.key \notin DOMAIN contents /\ Flag[op.name] = "DEFAULT"
  <2>1. Null \notin DOMAIN cell
    BY NullAssumption DEF IInv, TypeOK
  <2>2. (\A e \in DOMAIN cell : cell[e].key # op.key) /\ Flag[op.name] = "DEFAULT"
    BY <1>4, <2>1 DEF IInv, Handed
  <2>3. QED
    BY <1>2, <2>2 DEF Shown
<1>5. QED
  BY <1>1, <1>3, <1>4

LEMMA InitRefines == Init => Map!Init
<1> SUFFICES ASSUME Init PROVE Map!Init
  OBVIOUS
<1>1. IInv
  BY InitInv
<1>2. Shown
  BY <1>1, Contents
<1>3. DOMAIN cell = {} /\ pc = "idle" /\ ret = << >>
  BY DEF Init
<1>4. DOMAIN contents = {}
  BY <1>2, <1>3 DEF Shown
<1>5. contents = << >>
  BY <1>2, <1>4 DEF Shown
<1>6. returned = << >>
  BY <1>3 DEF returned
<1>7. QED
  BY <1>5, <1>6 DEF Map!Init

LEMMA LookupFoundRefines ==
  ASSUME IInv, IInv', LookupFound
  PROVE  [Map!Next]_Map!vars
<1>1. /\ pc = "lookup" /\ pc' = "return" /\ Found /\ entry' = vec[bucket][Min(Matches)]
      /\ UNCHANGED <<cell, op, ret>>
  BY DEF LookupFound
<1>2. PICK f \in DOMAIN cell : entry' = f /\ cell[f].key = op.key
  BY <1>1, Walk
<1>3. returned' = returned
  BY <1>1 DEF returned
<1>4. op.key \in Key /\ op.val \in Val /\ \A e \in DOMAIN cell \ {f} : Stored(e)' = Stored(e)
  BY <1>1, <1>2, Operation DEF Stored, Writing
<1>5. CASE op.name \in {"set", "update"}
  <2>1. Stored(f)' = op.val
    BY <1>1, <1>2, <1>5 DEF Stored, Writing
  <2>2. Puts(op.key, op.val)
    BY <1>1, <1>2, <1>4, <2>1, PutContents
  <2>3. Map!Put(op.key, op.val)
    BY <1>3, <2>2 DEF Puts, Map!Put
  <2>4. QED
    BY <1>4, <2>3 DEF Map!Next
<1>6. CASE op.name \notin {"set", "update"}
  <2>1. Stored(f)' = Stored(f)
    BY <1>1, <1>2, <1>6 DEF Stored, Writing
  <2>2. contents' = contents
    BY <1>1, <1>4, <2>1, SameContents
  <2>3. QED
    BY <1>3, <2>2 DEF Map!vars
<1>7. QED
  BY <1>5, <1>6

LEMMA LookupMissingRefines ==
  ASSUME IInv, IInv', LookupMissing
  PROVE  UNCHANGED Map!vars
<1>1. pc = "lookup" /\ pc' = "return" /\ entry' = Null /\ UNCHANGED <<cell, op, ret>>
  BY DEF LookupMissing
<1>2. returned' = returned
  BY <1>1 DEF returned
<1>3. Null \notin DOMAIN cell
  BY NullAssumption DEF IInv, TypeOK
<1>4. \A e \in DOMAIN cell : Stored(e)' = Stored(e)
  BY <1>1, <1>3 DEF Stored, Writing
<1>5. contents' = contents
  BY <1>1, <1>4, SameContents
<1>6. QED
  BY <1>2, <1>5 DEF Map!vars

LEMMA LookupCreateRefines ==
  ASSUME IInv, IInv', LookupCreate
  PROVE  Map!Next
<1>1. /\ pc = "lookup" /\ pc' \in {"rehash", "return"} /\ ~ Found /\ UNCHANGED <<op, ret>>
      /\ Flag[op.name] = "CREATE_ON_ABSENT"
  BY DEF LookupCreate, StartRehash
<1>2. PICK f \in Entry \ DOMAIN cell :
        /\ cell' = [d \in DOMAIN cell \cup {f} |->
                      IF d = f THEN [key |-> op.key, val |-> Null] ELSE cell[d]]
        /\ entry' = f
  BY DEF LookupCreate
<1>3. /\ op.key \in Key /\ op.val \in Val /\ op.name \in {"set", "intern"}
      /\ \A e \in DOMAIN cell : cell[e].key # op.key
  <2>1. op.name \in DOMAIN Flag
    BY <1>1, Operation
  <2>2. op.name \in {"set", "intern"}
    BY <1>1, <2>1 DEF Flag
  <2>3. QED
    BY <1>1, <2>2, Operation, Walk
<1>4. /\ DOMAIN cell' = DOMAIN cell \cup {f}
      /\ cell'[f] = [key |-> op.key, val |-> Null]
      /\ \A e \in DOMAIN cell \ {f} : cell'[e] = cell[e]
  BY <1>2
<1>5. \A e \in DOMAIN cell \ {f} : cell'[e].key = cell[e].key /\ Stored(e)' = Stored(e)
  BY <1>1, <1>2, <1>4 DEF Stored, Writing
<1>6. returned' = returned
  BY <1>1 DEF returned
<1>7. CASE op.name = "set"
  <2>1. Stored(f)' = op.val
    BY <1>1, <1>2, <1>7 DEF Stored, Writing
  <2>2. Puts(op.key, op.val)
    BY <1>2, <1>4, <1>5, <2>1, PutContents
  <2>3. Map!Put(op.key, op.val)
    BY <1>6, <2>2 DEF Puts, Map!Put
  <2>4. QED
    BY <1>3, <2>3 DEF Map!Next
<1>8. CASE op.name = "intern"
  <2>1. Stored(f)' = Null
    BY <1>1, <1>4, <1>8 DEF Stored, Writing
  <2>2. Puts(op.key, Null)
    BY <1>2, <1>4, <1>5, <2>1, PutContents
  <2>3. op.key \notin DOMAIN contents
    BY <1>3, Contents DEF Shown
  <2>4. Map!Enter(op.key)
    BY <1>6, <2>2, <2>3 DEF Puts, Map!Enter
  <2>5. QED
    BY <1>3, <2>4 DEF Map!Next
<1>9. QED
  BY <1>3, <1>7, <1>8

LEMMA LookupPopRefines ==
  ASSUME IInv, IInv', LookupPop
  PROVE  Map!Next
<1>1. /\ pc = "lookup" /\ pc' \in {"rehash", "return"} /\ Found /\ UNCHANGED <<op, ret>>
      /\ Flag[op.name] = "POP_IF_FOUND"
      /\ cell' = Restrict(cell, DOMAIN cell \ {vec[bucket][Min(Matches)]})
  BY DEF LookupPop, StartRehash
<1>2. PICK f \in DOMAIN cell : f = vec[bucket][Min(Matches)] /\ cell[f].key = op.key
  BY <1>1, Walk
<1>3. op.key \in Key /\ op.name = "delete"
  <2>1. op.name \in DOMAIN Flag
    BY <1>1, Operation
  <2>2. QED
    BY <1>1, <2>1, Operation DEF Flag
<1>4. DOMAIN cell' = DOMAIN cell \ {f} /\ \A e \in DOMAIN cell' : cell'[e] = cell[e]
  BY <1>1, <1>2 DEF Restrict
<1>5. \A e \in DOMAIN cell' : cell'[e].key = cell[e].key /\ Stored(e)' = Stored(e)
  BY <1>1, <1>3, <1>4 DEF Stored, Writing
<1>6. contents' = Restrict(contents, DOMAIN contents \ {op.key})
  BY <1>2, <1>4, <1>5, DropContents
<1>7. returned' = returned
  BY <1>1 DEF returned
<1>8. Map!Delete(op.key)
  BY <1>6, <1>7 DEF Map!Delete, Map!Restrict, Restrict
<1>9. QED
  BY <1>3, <1>8 DEF Map!Next

LEMMA KeysEndRefines ==
  ASSUME IInv, IInv', KeysEnd
  PROVE  Map!Next
<1>1. pc = "keys" /\ pc' = "idle" /\ WalkedAll /\ UNCHANGED <<cell, op, entry, ret>>
  BY DEF KeysEnd
<1>2. Left = {}
  BY <1>1, WalkEnds
<1>3. ret \in Seq(Key) /\ NoTwice(ret) /\ Range(ret) = { cell[e].key : e \in DOMAIN cell }
  BY <1>1, <1>2 DEF IInv, Listing
<1>4. Range(ret) = DOMAIN contents
  BY <1>3, Contents DEF Shown
<1>5. \A i, j \in DOMAIN ret : ret[i] = ret[j] => i = j
  BY <1>3 DEF NoTwice
<1>6. \A e \in DOMAIN cell : Stored(e)' = Stored(e)
  BY <1>1 DEF Stored, Writing
<1>7. contents' = contents
  BY <1>1, <1>6, SameContents
<1>8. returned' = ret
  BY <1>1 DEF returned
<1>9. Map!Keys
  BY <1>4, <1>5, <1>7, <1>8 DEF Map!Keys, Map!Range, Range
<1>10. QED
  BY <1>9 DEF Map!Next

LEMMA ReturnSetRefines ==
  ASSUME IInv, IInv', ReturnSet
  PROVE  UNCHANGED Map!vars
<1>1. /\ pc = "return" /\ op.name \in {"set", "update"} /\ entry # Null
      /\ cell' = [cell EXCEPT ![entry].val = op.val] /\ Finish /\ ret' = ret
  BY DEF ReturnSet
<1>2. entry \in DOMAIN cell
  BY <1>1 DEF IInv, Handed
<1>3. op' = NoOp /\ pc' = "idle"
  BY <1>1 DEF Finish
<1>4. \A e \in DOMAIN cell : cell[e] \in [key : Key, val : Val \cup {Null}]
  BY DEF IInv, TypeOK
<1>5. /\ DOMAIN cell' = DOMAIN cell /\ \A e \in DOMAIN cell : cell'[e].key = cell[e].key
      /\ cell'[entry].val = op.val /\ \A e \in DOMAIN cell \ {entry} : cell'[e] = cell[e]
  BY <1>1, <1>2, <1>4
<1>6. \A e \in DOMAIN cell : Stored(e)' = cell'[e].val
  BY <1>3 DEF Stored, Writing
<1>7. Stored(entry) = op.val /\ \A e \in DOMAIN cell \ {entry} : Stored(e) = cell[e].val
  BY <1>1 DEF Stored, Writing
<1>8. \A e \in DOMAIN cell : Stored(e)' = Stored(e)
  BY <1>5, <1>6, <1>7
<1>9. contents' = contents
  BY <1>5, <1>8, SameContents
<1>10. returned' = returned
  BY <1>1, <1>3 DEF returned
<1>11. QED
  BY <1>9, <1>10 DEF Map!vars

LEMMA ReturnRefines ==
  ASSUME IInv, IInv', ReturnIntern \/ ReturnGet \/ ReturnExists
  PROVE  Map!Next
<1>1. /\ pc = "return" /\ Finish /\ cell' = cell
      /\ op.name \in {"intern", "get", "getdef", "exists"}
  BY DEF ReturnIntern, ReturnGet, ReturnExists
<1>2. contents' = contents /\ returned' = ret'
  BY <1>1, FinishReads
<1>3. /\ op.key \in Key /\ op.val \in Val
      /\ entry # Null => /\ cell[entry].key = op.key
                         /\ op.key \in DOMAIN contents /\ contents[op.key] = cell[entry].val
      /\ entry = Null => op.key \notin DOMAIN contents /\ Flag[op.name] = "DEFAULT"
  BY <1>1, Given
<1>4. CASE ReturnIntern
  <2>1. ret' = <<cell[entry].key>> /\ op.name = "intern"
    BY <1>4 DEF ReturnIntern
  <2>2. entry # Null
    BY <1>3, <2>1 DEF Flag
  <2>3. Map!Known(op.key)
    BY <1>2, <1>3, <2>1, <2>2 DEF Map!Known
  <2>4. QED
    BY <1>3, <2>3 DEF Map!Next
<1>5. CASE ReturnGet
  <2>1. /\ ret' = <<IF entry # Null THEN cell[entry].val ELSE op.val>>
        /\ op.name \in {"get", "getdef"} /\ (entry = Null => op.name = "getdef")
    BY <1>5 DEF ReturnGet
  <2>2. Map!Get(op.key) \/ Map!GetDefault(op.key, op.val)
    BY <1>2, <1>3, <2>1 DEF Map!Get, Map!GetDefault
  <2>3. QED
    BY <1>3, <2>2 DEF Map!Next
<1>6. CASE ReturnExists
  <2>1. ret' = <<entry # Null>>
    BY <1>6 DEF ReturnExists
  <2>2. (entry # Null) = (op.key \in DOMAIN contents)
    BY <1>3
  <2>3. Map!Exists(op.key)
    BY <1>2, <2>1, <2>2 DEF Map!Exists
  <2>4. QED
    BY <1>3, <2>3 DEF Map!Next
<1>7. QED
  BY <1>1, <1>4, <1>5, <1>6

LEMMA StepRefines ==
  ASSUME IInv, IInv', [Next]_vars
  PROVE  [Map!Next]_Map!vars
<1>1. CASE Begin \/ KeysBegin
  <2>1. /\ pc = "idle" /\ pc' \in {"lookup", "keys"} /\ ret' = << >> /\ cell' = cell
    BY <1>1 DEF Begin, KeysBegin
  <2>2. \A e \in DOMAIN cell : Stored(e)' = Stored(e)
    BY <2>1 DEF Stored, Writing
  <2>3. contents' = contents
    BY <2>1, <2>2, SameContents
  <2>4. returned' = << >>
    BY <2>1 DEF returned
  <2>5. QED
    BY <2>3, <2>4 DEF Map!Next, Map!Begin
<1>2. CASE LookupFound
  BY <1>2, LookupFoundRefines
<1>3. CASE LookupMissing
  BY <1>3, LookupMissingRefines
<1>4. CASE LookupCreate
  BY <1>4, LookupCreateRefines
<1>5. CASE LookupPop
  BY <1>5, LookupPopRefines
<1>6. CASE RehashMove \/ RehashNextBucket \/ RehashEnd
  <2>1. /\ pc = "rehash" /\ pc' \in {"rehash", "return"} /\ UNCHANGED <<cell, op, entry, ret>>
    BY <1>6 DEF RehashMove, RehashNextBucket, RehashEnd
  <2>2. returned' = returned
    BY <2>1 DEF returned
  <2>3. QED
    BY <2>1, <2>2, Unseen
<1>7. CASE KeysPut \/ KeysNextBucket
  <2>1. /\ pc = "keys" /\ pc' = "keys" /\ UNCHANGED <<cell, op, entry>>
    BY <1>7 DEF KeysPut, KeysNextBucket
  <2>2. returned' = returned
    BY <2>1 DEF returned
  <2>3. QED
    BY <2>1, <2>2, Unseen
<1>8. CASE KeysEnd
  BY <1>8, KeysEndRefines
<1>9. CASE ReturnSet
  BY <1>9, ReturnSetRefines
<1>10. CASE ReturnIntern \/ ReturnGet \/ ReturnExists
  BY <1>10, ReturnRefines
<1>11. CASE ReturnDelete
  <2>1. pc = "return" /\ Finish /\ cell' = cell /\ ret' = ret /\ op.name = "delete"
    BY <1>11 DEF ReturnDelete
  <2>2. contents' = contents /\ returned' = returned
    BY <2>1, FinishReads
  <2>3. QED
    BY <2>2 DEF Map!vars
<1>12. CASE ReturnFatal
  <2>1. /\ pc = "return" /\ pc' = "fatal" /\ entry = Null /\ UNCHANGED <<cell, op, entry, ret>>
    BY <1>12 DEF ReturnFatal
  <2>2. Null \notin DOMAIN cell
    BY NullAssumption DEF IInv, TypeOK
  <2>3. \A e \in DOMAIN cell : Stored(e)' = Stored(e)
    BY <2>1, <2>2 DEF Stored, Writing
  <2>4. contents' = contents
    BY <2>1, <2>3, SameContents
  <2>5. returned' = returned
    BY <2>1 DEF returned
  <2>6. QED
    BY <2>4, <2>5 DEF Map!vars
<1>13. CASE Exited \/ UNCHANGED vars
  <2>1. UNCHANGED <<cell, op, entry, pc, ret>>
    BY <1>13 DEF Exited, vars
  <2>2. returned' = returned
    BY <2>1 DEF returned
  <2>3. QED
    BY <2>1, <2>2, Unseen
<1>14. QED
  BY <1>1, <1>2, <1>3, <1>4, <1>5, <1>6, <1>7, <1>8, <1>9, <1>10, <1>11, <1>12, <1>13 DEF Next

(* The hash table is a finite map, whatever the hash function does: each of *)
(* dict_lookup's three uses and dict_get_keys gives what the map would.     *)
THEOREM Refinement == Spec => ImplementsMap
<1>1. Init => Map!Init
  BY InitRefines
<1>2. IInv /\ IInv' /\ [Next]_vars => [Map!Next]_Map!vars
  BY StepRefines
<1>3. QED
  BY <1>1, <1>2, Invariance, PTL DEF Spec, ImplementsMap, Map!Spec
=============================================================================
