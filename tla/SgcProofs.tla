----------------------------- MODULE SgcProofs -----------------------------
(* Proofs about Sgc, for every set of addresses, every size of objects and  *)
(* every bound.                                                             *)
EXTENDS Sgc, ObjectGraphProofs, SequenceTheorems, FiniteSetTheorems

-----------------------------------------------------------------------------
(* Sequences.                                                               *)

(* The members of a nonempty sequence: its head, and those of its tail.     *)
LEMMA RangeHeadTail ==
  ASSUME NEW S, NEW s \in Seq(S), s # <<>>
  PROVE  Range(s) = {Head(s)} \cup Range(Tail(s))
<1>1. /\ Tail(s) \in Seq(S)
      /\ Len(Tail(s)) = Len(s) - 1
      /\ \A i \in 1 .. Len(Tail(s)) : Tail(s)[i] = s[i + 1]
  BY HeadTailProperties
<1>2. Len(s) \in Nat \ {0} /\ Head(s) = s[1]
  BY EmptySeq
<1>3. Range(s) = {s[i] : i \in 1 .. Len(s)}
  BY RangeEquality
<1>4. Range(Tail(s)) = {Tail(s)[i] : i \in 1 .. Len(Tail(s))}
  BY <1>1, RangeEquality
<1>5. ASSUME NEW i \in 1 .. Len(s) PROVE s[i] \in {Head(s)} \cup Range(Tail(s))
  <2>1. CASE i = 1
    BY <2>1, <1>2
  <2>2. CASE i # 1
    <3>1. i - 1 \in 1 .. Len(Tail(s)) /\ s[i] = Tail(s)[i - 1]
      BY <2>2, <1>1, <1>2
    <3>2. QED
      BY <3>1, <1>4
  <2>3. QED
    BY <2>1, <2>2
<1>6. ASSUME NEW i \in 1 .. Len(Tail(s)) PROVE Tail(s)[i] \in Range(s)
  <2>1. i + 1 \in 1 .. Len(s)
    BY <1>1, <1>2
  <2>2. QED
    BY <2>1, <1>1, <1>3
<1>7. Head(s) \in Range(s)
  BY <1>2, <1>3
<1>8. QED
  BY <1>3, <1>4, <1>5, <1>6, <1>7

(* Reversing a sequence keeps its members.                                  *)
LEMMA RangeReverse ==
  ASSUME NEW S, NEW s \in Seq(S)
  PROVE  Reverse(s) \in Seq(S) /\ Range(Reverse(s)) = Range(s)
<1>1. Len(s) \in Nat /\ s \in [1 .. Len(s) -> S]
  BY LenProperties
<1>2. \A i \in 1 .. Len(s) : (Len(s) - i) + 1 \in 1 .. Len(s)
  BY <1>1
<1>3. Reverse(s) \in [1 .. Len(s) -> S]
  BY <1>1, <1>2 DEF Reverse
<1>4. Reverse(s) \in Seq(S)
  BY <1>1, <1>3, SeqDef
<1>5. \A i \in 1 .. Len(s) : Reverse(s)[i] = s[(Len(s) - i) + 1]
  BY DEF Reverse
<1>6. \A i \in 1 .. Len(s) : s[i] = Reverse(s)[(Len(s) - i) + 1]
  BY <1>1, <1>2, <1>5
<1>7. DOMAIN Reverse(s) = 1 .. Len(s) /\ DOMAIN s = 1 .. Len(s)
  BY <1>1 DEF Reverse
<1>8. QED
  BY <1>2, <1>4, <1>5, <1>6, <1>7 DEF Range

(* Unlinking the element at a position moves those behind it up by one.     *)
LEMMA RemoveAtProperties ==
  ASSUME NEW S, NEW s \in Seq(S), NEW n \in 1 .. Len(s)
  PROVE  /\ RemoveAt(s, n) \in Seq(S)
         /\ Len(RemoveAt(s, n)) = Len(s) - 1
         /\ \A i \in 1 .. Len(s) - 1 :
              RemoveAt(s, n)[i] = IF i < n THEN s[i] ELSE s[i + 1]
<1> DEFINE front == SubSeq(s, 1, n - 1)
           back == SubSeq(s, n + 1, Len(s))
<1>1. Len(s) \in Nat /\ n \in Nat /\ \A i \in 1 .. Len(s) : s[i] \in S
  BY LenProperties, ElementOfSeq
<1>2. /\ front \in Seq(S)
      /\ Len(front) = n - 1
      /\ \A i \in 1 .. n - 1 : front[i] = s[i]
  <2>1. \A i \in 1 .. n - 1 : s[i] \in S
    BY <1>1
  <2>2. /\ front \in Seq(S)
        /\ Len(front) = IF 1 <= n - 1 THEN (n - 1) - 1 + 1 ELSE 0
        /\ \A i \in 1 .. (n - 1) - 1 + 1 : front[i] = s[1 + i - 1]
    <3> HIDE DEF front
    <3> QED
      BY <1>1, <2>1, SubSeqProperties DEF front
  <2> HIDE DEF front
  <2>3. QED
    BY <1>1, <2>2
<1>3. /\ back \in Seq(S)
      /\ Len(back) = Len(s) - n
      /\ \A i \in 1 .. Len(s) - n : back[i] = s[n + i]
  <2>1. \A i \in n + 1 .. Len(s) : s[i] \in S
    BY <1>1
  <2>2. /\ back \in Seq(S)
        /\ Len(back) = IF n + 1 <= Len(s) THEN Len(s) - (n + 1) + 1 ELSE 0
        /\ \A i \in 1 .. Len(s) - (n + 1) + 1 : back[i] = s[n + 1 + i - 1]
    <3> HIDE DEF back
    <3> QED
      BY <1>1, <2>1, SubSeqProperties DEF back
  <2> HIDE DEF back
  <2>3. QED
    BY <1>1, <2>2
<1>4. RemoveAt(s, n) = front \o back
  BY DEF RemoveAt
<1> HIDE DEF front, back
<1>5. /\ front \o back \in Seq(S)
      /\ Len(front \o back) = Len(front) + Len(back)
      /\ \A i \in 1 .. Len(front) + Len(back) :
           (front \o back)[i] = IF i <= Len(front) THEN front[i] ELSE back[i - Len(front)]
  BY <1>2, <1>3, ConcatProperties
<1>6. ASSUME NEW i \in 1 .. Len(s) - 1
      PROVE  (front \o back)[i] = IF i < n THEN s[i] ELSE s[i + 1]
  <2>1. Len(front) + Len(back) = Len(s) - 1
    BY <1>1, <1>2, <1>3
  <2>2. (front \o back)[i] = IF i <= n - 1 THEN front[i] ELSE back[i - (n - 1)]
    BY <1>2, <1>5, <2>1
  <2>3. CASE i < n
    BY <1>1, <1>2, <2>2, <2>3
  <2>4. CASE ~(i < n)
    <3>1. i - (n - 1) \in 1 .. Len(s) - n /\ n + (i - (n - 1)) = i + 1
      BY <1>1, <2>4
    <3>2. back[i - (n - 1)] = s[i + 1]
      BY <1>3, <3>1
    <3>3. QED
      BY <1>1, <2>2, <2>4, <3>2
  <2>5. QED
    BY <2>3, <2>4
<1>7. Len(front \o back) = Len(s) - 1
  BY <1>1, <1>2, <1>3, <1>5
<1>8. QED
  BY <1>4, <1>5, <1>6, <1>7

(* Unlinking an element removes nothing else.                               *)
LEMMA RangeRemoveAt ==
  ASSUME NEW S, NEW s \in Seq(S), NEW n \in 1 .. Len(s)
  PROVE  /\ Range(RemoveAt(s, n)) \subseteq Range(s)
         /\ Range(s) \subseteq Range(RemoveAt(s, n)) \cup {s[n]}
<1> DEFINE t == RemoveAt(s, n)
<1>1. /\ t \in Seq(S) /\ Len(t) = Len(s) - 1
      /\ \A i \in 1 .. Len(s) - 1 : t[i] = IF i < n THEN s[i] ELSE s[i + 1]
  BY RemoveAtProperties
<1> HIDE DEF t
<1>2. Len(s) \in Nat /\ n \in Nat
  BY LenProperties
<1>3. Range(t) = {t[i] : i \in 1 .. Len(t)} /\ Range(s) = {s[i] : i \in 1 .. Len(s)}
  BY <1>1, RangeEquality
<1>4. ASSUME NEW i \in 1 .. Len(t) PROVE t[i] \in Range(s)
  <2>1. i \in 1 .. Len(s) /\ i + 1 \in 1 .. Len(s)
    BY <1>1, <1>2
  <2>2. t[i] = s[i] \/ t[i] = s[i + 1]
    BY <1>1
  <2>3. QED
    BY <1>3, <2>1, <2>2
<1>5. ASSUME NEW i \in 1 .. Len(s), i # n PROVE s[i] \in Range(t)
  <2>1. CASE i < n
    <3>1. i \in 1 .. Len(s) - 1 /\ t[i] = s[i]
      BY <1>1, <1>2, <2>1
    <3>2. QED
      BY <1>1, <1>3, <3>1
  <2>2. CASE i > n
    <3>1. i - 1 \in 1 .. Len(s) - 1 /\ ~(i - 1 < n) /\ (i - 1) + 1 = i
      BY <1>2, <2>2
    <3>2. t[i - 1] = s[i]
      BY <1>1, <3>1
    <3>3. QED
      BY <1>1, <1>3, <3>1, <3>2
  <2>3. QED
    BY <1>2, <1>5, <2>1, <2>2
<1>6. Range(t) \subseteq Range(s)
  BY <1>3, <1>4
<1>7. Range(s) \subseteq Range(t) \cup {s[n]}
  BY <1>3, <1>5
<1>8. QED
  BY <1>6, <1>7 DEF t

-----------------------------------------------------------------------------
(* Types.                                                                   *)

(* Every constructor fills its fields with its arguments and NULL.          *)
LEMMA FieldsProperties ==
  ASSUME NEW type \in ObType, NEW args \in Seq(Ref), Len(args) = NbArgs(type)
  PROVE  /\ Fields(type, args) \in Seq(Ref)
         /\ Range(Fields(type, args)) \subseteq Range(args) \cup {Null}
<1>1. type \in {"fixnum", "pair", "closure", "vector", "macro", "econt"}
  BY TypeAssumption
<1>2. CASE type = "vector"
  <2>1. Len(args) = 1
    BY <1>2 DEF NbArgs
  <2>2. args[1] \in Ref /\ args[1] \in Range(args)
    BY <2>1, ElementOfSeq, RangeEquality
  <2>3. Fields(type, args) = [i \in 1 .. VectorLength |-> args[1]]
    BY <1>2 DEF Fields
  <2>4. Fields(type, args) \in Seq(Ref)
    BY <2>2, <2>3, SizeAssumption, SeqDef
  <2>5. QED
    BY <2>2, <2>3, <2>4 DEF Range
<1>3. CASE type = "econt"
  <2>1. Fields(type, args) = <<Null>>
    BY <1>3 DEF Fields
  <2>2. <<Null>> \in Seq(Ref)
    BY DEF Ref
  <2>3. Range(<<Null>>) = {Null}
    BY DEF Range
  <2>4. QED
    BY <2>1, <2>2, <2>3
<1>4. CASE type \in {"fixnum", "pair", "closure", "macro"}
  BY <1>4 DEF Fields
<1>5. QED
  BY <1>1, <1>2, <1>3, <1>4

(* A constructor takes a fixed number of arguments.                         *)
LEMMA NbArgsType == \A type \in ObType : NbArgs(type) \in Nat
  BY TypeAssumption DEF NbArgs

(* The arguments a call can be given form a sequence of pointers.           *)
LEMMA ArgsType ==
  ASSUME NEW type \in ObType, NEW S \in SUBSET Ref, NEW args \in [1 .. NbArgs(type) -> S]
  PROVE  /\ args \in Seq(Ref)
         /\ Len(args) = NbArgs(type)
         /\ Range(args) \subseteq S
<1>1. NbArgs(type) \in Nat
  BY NbArgsType
<1>2. args \in [1 .. NbArgs(type) -> Ref]
  OBVIOUS
<1>3. args \in Seq(Ref)
  BY <1>1, <1>2, SeqDef
<1>4. Len(args) = NbArgs(type)
  BY <1>1, <1>2, <1>3, LenProperties
<1>5. QED
  BY <1>3, <1>4 DEF Range

(* What the interpreter can name are addresses.                             *)
LEMMA HeldType == ASSUME TypeOK PROVE Held \cup {Null} \in SUBSET Ref
  BY DEF TypeOK, Held, Ref

(* What SGC_ROOTn pushes are the arguments.                                 *)
LEMMA RootProperties ==
  ASSUME NEW args \in Seq(Ref)
  PROVE  /\ SGC_ROOT(args) \in Seq(Ref)
         /\ Range(SGC_ROOT(args)) \subseteq Range(args)
         /\ gc_enabled => Range(SGC_ROOT(args)) = Range(args)
<1>1. CASE gc_enabled
  BY <1>1, RangeReverse DEF SGC_ROOT
<1>2. CASE ~gc_enabled
  <2>1. SGC_ROOT(args) = <<>>
    BY <1>2 DEF SGC_ROOT
  <2>2. Range(<<>>) = {} /\ <<>> \in Seq(Ref)
    BY DEF Range
  <2>3. QED
    BY <1>2, <2>1, <2>2
<1>3. QED
  BY <1>1, <1>2

(* The threshold is one of the two numbers it is the maximum of.            *)
LEMMA ThresholdType == \A size \in Int : Threshold(size) \in Int
<1> SUFFICES ASSUME NEW size \in Int PROVE Threshold(size) \in Int
  OBVIOUS
<1> DEFINE S == {(3 * size) \div 2, MIN_HEAP_SIZE}
<1>1. (3 * size) \div 2 \in Int /\ MIN_HEAP_SIZE \in Int
  BY SizeAssumption
<1>2. \E x \in S : \A y \in S : x >= y
  BY <1>1
<1>3. Max(S) \in S
  BY <1>2 DEF Max
<1>4. QED
  BY <1>1, <1>3 DEF Threshold

(* Freeing an object of a known type keeps the types.                       *)
LEMMA FreeType ==
  ASSUME TypeOK, NEW victim \in Addr, Free(victim), ob_type[victim] \in ObType
  PROVE  /\ heap_size' \in Int
         /\ ref' \in [Addr -> Seq(Ref)]
         /\ ob_type' \in [Addr -> ObType \cup {"none"}]
<1>1. SizeFreed(victim) \in Int
  BY SizeAssumption DEF SizeFreed
<1>2. <<>> \in Seq(Ref)
  OBVIOUS
<1>3. QED
  BY <1>1, <1>2 DEF TypeOK, Free

(* The object that the sweep looks at.                                      *)
LEMMA VictimProperties ==
  ASSUME TypeOK, ListSound, NEW n \in 1 .. Len(objs)
  PROVE  objs[n] \in Addr /\ objs[n] \in Allocated /\ ob_type[objs[n]] \in ObType
<1>1. objs[n] \in Addr /\ objs[n] \in Range(objs)
  BY ElementOfSeq, RangeEquality DEF TypeOK
<1>2. QED
  BY <1>1 DEF ListSound, Allocated

(* Every step keeps the types.                                              *)
LEMMA TypeStep ==
  ASSUME TypeOK, ListSound, CallRooted, [Next]_vars
  PROVE  TypeOK'
<1> USE DEF heapVars, rootVars, gcVars
<1>1. CASE Push
  <2>1. PICK v \in Held \cup {Null} : stack' = <<v>> \o stack
    BY <1>1 DEF Push
  <2>2. <<v>> \in Seq(Ref)
    BY HeldType
  <2>3. stack' \in Seq(Ref)
    BY <2>1, <2>2, ConcatProperties DEF TypeOK
  <2>4. QED
    BY <1>1, <2>3 DEF Push, TypeOK
<1>2. CASE Pop
  <2>1. Tail(stack) \in Seq(Ref)
    BY <1>2, HeadTailProperties DEF Pop, TypeOK
  <2>2. held' \in SUBSET Addr
    BY <1>2 DEF Pop, TypeOK
  <2>3. QED
    BY <1>2, <2>1, <2>2 DEF Pop, TypeOK
<1>3. CASE Load
  BY <1>3 DEF Load, TypeOK
<1>4. CASE Store
  <2>1. PICK a \in Held : \E i \in DOMAIN ref[a] : \E v \in Held \cup {Null} :
          ref' = [ref EXCEPT ![a][i] = v]
    BY <1>4 DEF Store
  <2>2. PICK i \in DOMAIN ref[a], v \in Held \cup {Null} : ref' = [ref EXCEPT ![a][i] = v]
    BY <2>1
  <2>3. a \in Addr /\ v \in Ref /\ ref[a] \in Seq(Ref)
    BY HeldType DEF Held, TypeOK
  <2>4. [ref[a] EXCEPT ![i] = v] \in Seq(Ref)
    BY <2>3, LenProperties, ExceptSeq
  <2>5. ref' \in [Addr -> Seq(Ref)]
    BY <2>2, <2>3, <2>4 DEF TypeOK
  <2>6. QED
    BY <1>4, <2>5 DEF Store, TypeOK
<1>5. CASE Call
  <2>1. PICK type \in ObType : \E args \in [1 .. NbArgs(type) -> Held \cup {Null}] :
          req' = [type |-> type, args |-> args, retry |-> FALSE]
    BY <1>5 DEF Call
  <2>2. PICK args \in [1 .. NbArgs(type) -> Held \cup {Null}] :
          req' = [type |-> type, args |-> args, retry |-> FALSE]
    BY <2>1
  <2>3. args \in Seq(Ref)
    BY HeldType, ArgsType
  <2>4. req' \in Requests
    BY <2>2, <2>3 DEF Requests
  <2>5. QED
    BY <1>5, <2>4 DEF Call, TypeOK
<1>6. CASE Dogc
  <2>1. req' \in Requests
    BY <1>6, TypeAssumption DEF Dogc, Requests
  <2>2. QED
    BY <1>6, <2>1 DEF Dogc, TypeOK
<1>7. CASE ParseBegin
  BY <1>7 DEF ParseBegin, TypeOK
<1>8. CASE ParseEnd
  BY <1>8 DEF ParseEnd, TypeOK
<1>9. CASE Fini
  <2>1. <<>> \in Seq(Addr) /\ <<>> \in Seq(Ref)
    OBVIOUS
  <2>2. QED
    BY <1>9, <2>1 DEF Fini, TypeOK
<1>10. CASE MallocOk
  <2>1. PICK a \in Addr \ Allocated :
          /\ objs' = <<a>> \o objs
          /\ ref' = [ref EXCEPT ![a] = Fields(req.type, req.args)]
          /\ ob_type' = [ob_type EXCEPT ![a] = req.type]
          /\ held' = held \cup {a}
    BY <1>10 DEF MallocOk
  <2>2. req.type \in ObType /\ req.args \in Seq(Ref) /\ Len(req.args) = NbArgs(req.type)
    BY <1>10 DEF MallocOk, CallRooted, TypeOK, Requests
  <2>3. Fields(req.type, req.args) \in Seq(Ref)
    BY <2>2, FieldsProperties
  <2>4. <<a>> \in Seq(Addr)
    OBVIOUS
  <2>5. objs' \in Seq(Addr)
    BY <2>1, <2>4, ConcatProperties DEF TypeOK
  <2>6. heap_size' \in Int
    BY <1>10, <2>2, SizeAssumption DEF MallocOk, TypeOK
  <2>7. <<>> \in Seq(Ref) /\ NoRequest \in Requests
    BY DEF NoRequest, Requests
  <2>8. ref' \in [Addr -> Seq(Ref)] /\ ob_type' \in [Addr -> ObType \cup {"none"}]
    BY <2>1, <2>2, <2>3 DEF TypeOK
  <2>9. held' \in SUBSET Addr
    BY <2>1 DEF TypeOK
  <2>10. QED
    BY <1>10, <2>5, <2>6, <2>7, <2>8, <2>9 DEF MallocOk, TypeOK
<1>11. CASE MallocNull
  <2>1. req.args \in Seq(Ref)
    BY DEF TypeOK, Requests
  <2>2. rooted' \in Seq(Ref)
    BY <1>11, <2>1, RootProperties DEF MallocNull
  <2>3. req' \in Requests
    BY <1>11 DEF MallocNull, Retrying, TypeOK, Requests
  <2>4. QED
    BY <1>11, <2>2, <2>3 DEF MallocNull, TypeOK
<1>12. CASE OutOfMemory
  BY <1>12 DEF OutOfMemory, TypeOK
<1>13. CASE CollectBegin
  <2>1. rooted \o stack \in Seq(Ref)
    BY ConcatProperties DEF TypeOK
  <2>2. QED
    BY <1>13, <2>1 DEF CollectBegin, TypeOK
<1>14. CASE Mark
  <2>1. Head(pending) \in Ref /\ Tail(pending) \in Seq(Ref)
    BY <1>14, HeadTailProperties DEF Mark, TypeOK
  <2>2. \A a \in Addr : Visit(a) \in Seq(Ref)
    BY <2>1, ConcatProperties DEF Visit, TypeOK
  <2>3. pending' \in Seq(Ref) /\ marked' \in SUBSET Addr
    BY <1>14, <2>1, <2>2 DEF Mark, TypeOK
  <2>4. QED
    BY <1>14, <2>3 DEF Mark, TypeOK
<1>15. CASE MarkDone
  <2>1. objs # <<>> => 1 <= Len(objs)
    BY EmptySeq DEF TypeOK
  <2>2. QED
    BY <1>15, <2>1 DEF MarkDone, SweepOrNot, TypeOK
<1>16. CASE Sweep
  <2>1. cursor + 1 \in 1 .. Len(objs) /\ cursor \in Nat \ {0} /\ Len(objs) \in Nat
    BY <1>16, LenProperties DEF Sweep, TypeOK
  <2>2. CASE objs[cursor + 1] \notin marked
    <3>1. objs[cursor + 1] \in Addr /\ ob_type[objs[cursor + 1]] \in ObType
      BY <2>1, VictimProperties
    <3>2. objs' = RemoveAt(objs, cursor + 1) /\ Free(objs[cursor + 1]) /\ cursor' = cursor
      BY <1>16, <2>2 DEF Sweep
    <3>3. objs' \in Seq(Addr) /\ Len(objs') = Len(objs) - 1
      BY <2>1, <3>2, RemoveAtProperties DEF TypeOK
    <3>4. /\ heap_size' \in Int
          /\ ref' \in [Addr -> Seq(Ref)]
          /\ ob_type' \in [Addr -> ObType \cup {"none"}]
      BY <3>1, <3>2, FreeType
    <3>5. cursor' <= Len(objs')
      BY <2>1, <3>2, <3>3
    <3>6. QED
      BY <1>16, <3>2, <3>3, <3>4, <3>5 DEF Sweep, TypeOK
  <2>3. CASE objs[cursor + 1] \in marked
    BY <1>16, <2>1, <2>3 DEF Sweep, TypeOK
  <2>4. QED
    BY <2>2, <2>3
<1>17. CASE SweepHead
  <2>1. 1 \in 1 .. Len(objs) /\ objs # <<>>
    BY <1>17 DEF SweepHead, TypeOK
  <2>2. CASE HeadIsGarbage
    <3>1. objs[1] \in Addr /\ ob_type[objs[1]] \in ObType
      BY <2>1, VictimProperties
    <3>2. objs' = Tail(objs) /\ Free(objs[1])
      BY <1>17, <2>2 DEF SweepHead
    <3>3. objs' \in Seq(Addr)
      BY <2>1, <3>2, HeadTailProperties DEF TypeOK
    <3>4. /\ heap_size' \in Int
          /\ ref' \in [Addr -> Seq(Ref)]
          /\ ob_type' \in [Addr -> ObType \cup {"none"}]
      BY <3>1, <3>2, FreeType
    <3>5. QED
      BY <1>17, <3>3, <3>4 DEF SweepHead, TypeOK
  <2>3. CASE ~HeadIsGarbage
    BY <1>17, <2>3 DEF SweepHead, TypeOK
  <2>4. QED
    BY <2>2, <2>3
<1>18. CASE ClearMarks
  <2>1. Threshold(heap_size) \in Int
    BY ThresholdType DEF TypeOK
  <2>2. QED
    BY <1>18, <2>1 DEF ClearMarks, Unmarked, TypeOK
<1>19. CASE Exited \/ UNCHANGED vars
  BY <1>19 DEF Exited, vars, TypeOK
<1>20. QED
  BY <1>1, <1>2, <1>3, <1>4, <1>5, <1>6, <1>7, <1>8, <1>9, <1>10, <1>11, <1>12,
     <1>13, <1>14, <1>15, <1>16, <1>17, <1>18, <1>19 DEF Next, Mutator, StorageManager

-----------------------------------------------------------------------------
(* The list of objects.                                                     *)

(* Unlinking keeps the objects distinct, and takes the victim off the list. *)
LEMMA RemoveAtInjective ==
  ASSUME NEW S, NEW s \in Seq(S), IsInjective(s), NEW n \in 1 .. Len(s)
  PROVE  /\ IsInjective(RemoveAt(s, n))
         /\ s[n] \notin Range(RemoveAt(s, n))
<1> DEFINE t == RemoveAt(s, n)
<1>1. /\ t \in Seq(S) /\ Len(t) = Len(s) - 1
      /\ \A i \in 1 .. Len(s) - 1 : t[i] = IF i < n THEN s[i] ELSE s[i + 1]
  BY RemoveAtProperties
<1> HIDE DEF t
<1>2. Len(s) \in Nat /\ n \in Nat /\ DOMAIN s = 1 .. Len(s)
  BY LenProperties
<1>3. DOMAIN t = 1 .. Len(s) - 1
  BY <1>1, LenProperties
<1>4. \A i \in 1 .. Len(s) - 1 : i \in 1 .. Len(s) /\ i + 1 \in 1 .. Len(s)
  BY <1>2
<1>5. \A i, j \in 1 .. Len(s) : s[i] = s[j] => i = j
  BY <1>2 DEF IsInjective
<1>6. ASSUME NEW i \in 1 .. Len(s) - 1, NEW j \in 1 .. Len(s) - 1, t[i] = t[j]
      PROVE  i = j
  <2>1. t[i] = (IF i < n THEN s[i] ELSE s[i + 1]) /\ t[j] = (IF j < n THEN s[j] ELSE s[j + 1])
    BY <1>1
  <2>2. /\ i \in 1 .. Len(s) /\ i + 1 \in 1 .. Len(s)
        /\ j \in 1 .. Len(s) /\ j + 1 \in 1 .. Len(s)
    BY <1>4
  <2>3. CASE i < n /\ j < n
    BY <1>5, <1>6, <2>1, <2>2, <2>3
  <2>4. CASE i < n /\ ~(j < n)
    <3>1. i = j + 1
      BY <1>5, <1>6, <2>1, <2>2, <2>4
    <3>2. QED
      BY <1>2, <2>2, <2>4, <3>1
  <2>5. CASE ~(i < n) /\ j < n
    <3>1. i + 1 = j
      BY <1>5, <1>6, <2>1, <2>2, <2>5
    <3>2. QED
      BY <1>2, <2>2, <2>5, <3>1
  <2>6. CASE ~(i < n) /\ ~(j < n)
    <3>1. i + 1 = j + 1
      BY <1>5, <1>6, <2>1, <2>2, <2>6
    <3>2. QED
      BY <2>2, <3>1
  <2>7. QED
    BY <2>3, <2>4, <2>5, <2>6
<1>7. ASSUME NEW i \in 1 .. Len(s) - 1 PROVE t[i] # s[n]
  BY <1>1, <1>2, <1>4, <1>5
<1>8. IsInjective(t)
  BY <1>3, <1>6 DEF IsInjective
<1>9. s[n] \notin Range(t)
  BY <1>3, <1>7 DEF Range
<1>10. QED
  BY <1>8, <1>9 DEF t

(* The tail of a list is the list without its head.                         *)
LEMMA TailIsRemoveAt ==
  ASSUME NEW S, NEW s \in Seq(S), s # <<>>
  PROVE  Tail(s) = RemoveAt(s, 1)
<1>1. Tail(s) \in Seq(S) /\ Len(Tail(s)) = Len(s) - 1
      /\ \A i \in 1 .. Len(Tail(s)) : Tail(s)[i] = s[i + 1]
  BY HeadTailProperties
<1>2. Len(s) \in Nat /\ 1 \in 1 .. Len(s)
  BY EmptySeq
<1>3. RemoveAt(s, 1) \in Seq(S) /\ Len(RemoveAt(s, 1)) = Len(s) - 1
      /\ \A i \in 1 .. Len(s) - 1 :
           RemoveAt(s, 1)[i] = IF i < 1 THEN s[i] ELSE s[i + 1]
  BY <1>2, RemoveAtProperties
<1>4. \A i \in 1 .. Len(Tail(s)) : Tail(s)[i] = RemoveAt(s, 1)[i]
  BY <1>1, <1>2, <1>3
<1>5. QED
  BY <1>1, <1>3, <1>4, SeqEqual

(* What Sweep and SweepHead do to the list, in one form: either nothing, or *)
(* the unmarked object at some position is unlinked and freed.              *)
Unlinks(n) == /\ n \in 1 .. Len(objs)
              /\ objs[n] \notin marked
              /\ objs' = RemoveAt(objs, n)
              /\ Free(objs[n])

(* Sweep unlinks the object behind self, or moves on past a marked one.     *)
LEMMA SweepUnlinks ==
  ASSUME TypeOK, Sweep
  PROVE  \/ UNCHANGED heapVars /\ objs[cursor + 1] \in marked /\ cursor' = cursor + 1
         \/ Unlinks(cursor + 1) /\ cursor' = cursor
<1>1. cursor + 1 \in 1 .. Len(objs)
  BY LenProperties DEF Sweep, TypeOK
<1>2. QED
  BY <1>1 DEF Sweep, Unlinks

(* SweepHead unlinks the first object, or leaves the list as it is.         *)
LEMMA SweepHeadUnlinks ==
  ASSUME TypeOK, SweepHead
  PROVE  \/ UNCHANGED heapVars /\ objs[1] \in marked
         \/ Unlinks(1)
<1>1. 1 \in 1 .. Len(objs) /\ objs # <<>>
  BY DEF SweepHead, TypeOK
<1>2. CASE HeadIsGarbage
  <2>1. objs' = RemoveAt(objs, 1)
    BY <1>1, <1>2, TailIsRemoveAt DEF SweepHead, TypeOK
  <2>2. QED
    BY <1>1, <1>2, <2>1 DEF SweepHead, HeadIsGarbage, Unlinks
<1>3. CASE ~HeadIsGarbage
  BY <1>3 DEF SweepHead, HeadIsGarbage
<1>4. QED
  BY <1>2, <1>3

(* What an unlinking does to the heap.                                      *)
LEMMA UnlinkEffect ==
  ASSUME TypeOK, ListSound, NEW n \in Nat, Unlinks(n)
  PROVE  /\ objs[n] \in Addr /\ objs[n] \notin marked
         /\ Allocated' = Allocated \ {objs[n]}
         /\ \A a \in Addr \ {objs[n]} : ref'[a] = ref[a] /\ ob_type'[a] = ob_type[a]
         /\ IsInjective(objs')
         /\ objs' \in Seq(Addr)
<1>1. n \in 1 .. Len(objs) /\ objs \in Seq(Addr) /\ IsInjective(objs)
  BY DEF Unlinks, TypeOK, ListSound
<1>2. objs[n] \in Addr
  BY <1>1, ElementOfSeq
<1>3. /\ Range(RemoveAt(objs, n)) \subseteq Range(objs)
      /\ Range(objs) \subseteq Range(RemoveAt(objs, n)) \cup {objs[n]}
  BY <1>1, RangeRemoveAt
<1>4. IsInjective(RemoveAt(objs, n)) /\ objs[n] \notin Range(RemoveAt(objs, n))
  BY <1>1, RemoveAtInjective
<1>5. RemoveAt(objs, n) \in Seq(Addr)
  BY <1>1, RemoveAtProperties
<1>6. \A a \in Addr \ {objs[n]} : ref'[a] = ref[a] /\ ob_type'[a] = ob_type[a]
  BY DEF Unlinks, Free, TypeOK
<1>7. QED
  BY <1>2, <1>3, <1>4, <1>5, <1>6 DEF Unlinks, Allocated

(* Putting a new object at the head of the list.                            *)
LEMMA ConsEffect ==
  ASSUME NEW S, NEW s \in Seq(S), NEW a \in S
  PROVE  /\ Range(<<a>> \o s) = {a} \cup Range(s)
         /\ IsInjective(s) /\ a \notin Range(s) => IsInjective(<<a>> \o s)
<1>1. <<a>> \in Seq(S) /\ Len(<<a>>) = 1 /\ Range(<<a>>) = {a}
  BY DEF Range
<1>2. Range(<<a>> \o s) = {a} \cup Range(s)
  <2>1. Range(<<a>> \o s) = Range(<<a>>) \cup Range(s)
    BY <1>1, RangeConcatenation
  <2>2. QED
    BY <1>1, <2>1
<1>3. ASSUME IsInjective(s), a \notin Range(s) PROVE IsInjective(<<a>> \o s)
  <2>1. /\ <<a>> \o s \in Seq(S)
        /\ Len(<<a>> \o s) = 1 + Len(s)
        /\ \A i \in 1 .. 1 + Len(s) :
             (<<a>> \o s)[i] = IF i <= 1 THEN <<a>>[i] ELSE s[i - 1]
    BY <1>1, ConcatProperties
  <2>2. Len(s) \in Nat /\ DOMAIN s = 1 .. Len(s) /\ DOMAIN (<<a>> \o s) = 1 .. 1 + Len(s)
    BY <2>1, LenProperties
  <2>3. \A i \in 1 .. Len(s) : s[i] # a
    BY <1>3, <2>2 DEF Range
  <2>4. \A i, j \in 1 .. Len(s) : s[i] = s[j] => i = j
    BY <1>3, <2>2 DEF IsInjective
  <2>5. (<<a>> \o s)[1] = a
    BY <2>1, <2>2
  <2>6. \A i \in 2 .. 1 + Len(s) : i - 1 \in 1 .. Len(s) /\ (<<a>> \o s)[i] = s[i - 1]
    BY <2>1, <2>2
  <2>7. ASSUME NEW i \in 1 .. 1 + Len(s), NEW j \in 1 .. 1 + Len(s),
               (<<a>> \o s)[i] = (<<a>> \o s)[j]
        PROVE  i = j
    <3>1. CASE i = 1 /\ j = 1
      BY <3>1
    <3>2. CASE i = 1 /\ j # 1
      <4>1. j \in 2 .. 1 + Len(s)
        BY <3>2, <2>2
      <4>2. QED
        BY <3>2, <4>1, <2>3, <2>5, <2>6, <2>7
    <3>3. CASE i # 1 /\ j = 1
      <4>1. i \in 2 .. 1 + Len(s)
        BY <3>3, <2>2
      <4>2. QED
        BY <3>3, <4>1, <2>3, <2>5, <2>6, <2>7
    <3>4. CASE i # 1 /\ j # 1
      <4>1. i \in 2 .. 1 + Len(s) /\ j \in 2 .. 1 + Len(s)
        BY <3>4, <2>2
      <4>2. i - 1 = j - 1
        BY <4>1, <2>4, <2>6, <2>7
      <4>3. QED
        BY <4>1, <4>2, <2>2
    <3>5. QED
      BY <3>1, <3>2, <3>3, <3>4
  <2>8. QED
    BY <2>2, <2>7 DEF IsInjective
<1>4. QED
  BY <1>2, <1>3

(* What a successful gc_malloc does to the heap.                            *)
LEMMA MallocEffect ==
  ASSUME TypeOK, ListSound, CallRooted, MallocOk
  PROVE  \E a \in Addr \ Allocated :
           /\ Allocated' = Allocated \cup {a}
           /\ IsInjective(objs')
           /\ \A b \in Addr \ {a} : ref'[b] = ref[b] /\ ob_type'[b] = ob_type[b]
           /\ Range(ref'[a]) \subseteq Range(req.args) \cup {Null}
           /\ ob_type'[a] \in ObType
           /\ held' = held \cup {a}
<1>1. PICK a \in Addr \ Allocated :
        /\ objs' = <<a>> \o objs
        /\ ref' = [ref EXCEPT ![a] = Fields(req.type, req.args)]
        /\ ob_type' = [ob_type EXCEPT ![a] = req.type]
        /\ held' = held \cup {a}
  BY DEF MallocOk
<1>2. req.type \in ObType /\ req.args \in Seq(Ref) /\ Len(req.args) = NbArgs(req.type)
  BY DEF MallocOk, CallRooted, TypeOK, Requests
<1>3. Range(Fields(req.type, req.args)) \subseteq Range(req.args) \cup {Null}
  BY <1>2, FieldsProperties
<1>4. /\ Range(objs') = {a} \cup Range(objs)
      /\ IsInjective(objs')
  BY <1>1, ConsEffect DEF Allocated, TypeOK, ListSound
<1>5. QED
  BY <1>1, <1>2, <1>3, <1>4 DEF Allocated, TypeOK

(* No step puts an object on the list twice.                                *)
LEMMA ListStep ==
  ASSUME TypeOK, ListSound, CallRooted, [Next]_vars
  PROVE  ListSound'
<1> USE DEF heapVars, rootVars, gcVars
<1>1. CASE MallocOk
  <2>1. PICK a \in Addr \ Allocated :
          /\ Allocated' = Allocated \cup {a}
          /\ IsInjective(objs')
          /\ \A b \in Addr \ {a} : ob_type'[b] = ob_type[b]
          /\ ob_type'[a] \in ObType
    BY <1>1, MallocEffect
  <2>2. Allocated \subseteq Addr
    BY RangeOfSeq DEF TypeOK, Allocated
  <2>3. QED
    BY <2>1, <2>2 DEF ListSound
<1>2. ASSUME NEW n \in Nat, Unlinks(n) PROVE ListSound'
  <2>1. Allocated \subseteq Addr
    BY RangeOfSeq DEF TypeOK, Allocated
  <2>2. QED
    BY <1>2, <2>1, UnlinkEffect DEF ListSound
<1>3. ASSUME UNCHANGED <<objs, ob_type>> PROVE ListSound'
  BY <1>3 DEF ListSound, Allocated
<1>4. CASE Sweep
  <2>1. cursor + 1 \in Nat
    BY DEF TypeOK
  <2>2. QED
    BY <1>2, <1>3, <1>4, <2>1, SweepUnlinks
<1>5. CASE SweepHead
  BY <1>2, <1>3, <1>5, SweepHeadUnlinks
<1>6. CASE Fini
  <2>1. objs' = <<>>
    BY <1>6 DEF Fini
  <2>2. QED
    BY <2>1 DEF ListSound, Allocated, IsInjective, Range
<1>7. CASE \/ Push \/ Pop \/ Load \/ Store \/ Call \/ Dogc \/ ParseBegin \/ ParseEnd
           \/ MallocNull \/ OutOfMemory \/ CollectBegin \/ Mark \/ MarkDone \/ ClearMarks
           \/ Exited \/ UNCHANGED vars
  BY <1>3, <1>7 DEF Push, Pop, Load, Store, Call, Dogc, ParseBegin, ParseEnd, MallocNull,
     OutOfMemory, CollectBegin, Mark, MarkDone, ClearMarks, Exited, vars
<1>8. QED
  BY <1>1, <1>4, <1>5, <1>6, <1>7 DEF Next, Mutator, StorageManager

-----------------------------------------------------------------------------
(* The heap.                                                                *)

(* The pointers between the objects form a graph over the addresses.        *)
LEMMA EdgesType == Edges \in Graph(Addr)
  BY DEF Edges, Graph

(* The roots are addresses: NULL and the static objects are not among them. *)
LEMMA RootsType == ASSUME TypeOK PROVE Roots \in SUBSET Addr
  BY DEF Roots, Held, TypeOK

(* What is live, and what is on the list, are addresses.                    *)
LEMMA LiveType == ASSUME TypeOK PROVE live \in SUBSET Addr /\ Allocated \in SUBSET Addr
  BY RangeOfSeq DEF live, Allocated, TypeOK

(* The arguments of a call are rooted, and rooting adds nothing new.        *)
LEMMA CallStep ==
  ASSUME TypeOK, CallRooted, [Next]_vars
  PROVE  CallRooted'
<1> USE DEF heapVars, rootVars, gcVars
<1>1. Range(<<>>) = {}
  BY DEF Range
<1>2. CASE \/ Push \/ Pop \/ Load \/ Store \/ ParseBegin \/ ParseEnd \/ Fini
  BY <1>2 DEF Push, Pop, Load, Store, ParseBegin, ParseEnd, Fini, CallRooted
<1>3. CASE Call
  <2>1. PICK type \in ObType : \E args \in [1 .. NbArgs(type) -> Held \cup {Null}] :
          req' = [type |-> type, args |-> args, retry |-> FALSE]
    BY <1>3 DEF Call
  <2>2. PICK args \in [1 .. NbArgs(type) -> Held \cup {Null}] :
          req' = [type |-> type, args |-> args, retry |-> FALSE]
    BY <2>1
  <2>3. req'.type \in ObType /\ Len(req'.args) = NbArgs(req'.type)
    BY <2>2, HeldType, ArgsType
  <2>4. Range(rooted) = {}
    BY <1>3, <1>1 DEF Call, CallRooted, NoRequest
  <2>5. QED
    BY <1>3, <2>3, <2>4 DEF Call, CallRooted
<1>4. CASE Dogc
  <2>1. Range(rooted) = {}
    BY <1>4, <1>1 DEF Dogc, CallRooted, NoRequest
  <2>2. /\ req'.type \in ObType /\ req'.args = <<>>
        /\ Len(req'.args) = NbArgs(req'.type)
    BY <1>4, TypeAssumption DEF Dogc, NbArgs
  <2>3. QED
    BY <1>4, <1>1, <2>1, <2>2 DEF Dogc, CallRooted
<1>5. CASE MallocOk
  BY <1>5, <1>1 DEF MallocOk, CallRooted
<1>6. CASE MallocNull
  <2>1. req.args \in Seq(Ref)
    BY DEF TypeOK, Requests
  <2>2. /\ Range(rooted') \subseteq Range(req.args)
        /\ gc_enabled => Range(rooted') = Range(req.args)
    BY <1>6, <2>1, RootProperties DEF MallocNull
  <2>3. req'.args = req.args /\ req'.type = req.type
    BY <1>6 DEF MallocNull, Retrying, TypeOK, Requests
  <2>4. QED
    BY <1>6, <2>2, <2>3 DEF MallocNull, CallRooted
<1>7. CASE \/ OutOfMemory \/ CollectBegin \/ Mark \/ MarkDone \/ Sweep \/ SweepHead
           \/ ClearMarks \/ Exited \/ UNCHANGED vars
  BY <1>7 DEF OutOfMemory, CollectBegin, CollectorRuns, Mark, MarkDone, SweepOrNot, Sweep,
     SweepHead, ClearMarks, Exited, vars, CallRooted
<1>8. QED
  BY <1>2, <1>3, <1>4, <1>5, <1>6, <1>7 DEF Next, Mutator, StorageManager

(* The program comes to hold only what it held, or what an object that it   *)
(* holds points at, unless an object is made.                               *)
LEMMA RootsStep ==
  ASSUME TypeOK, [Next]_vars, ~MallocOk
  PROVE  Roots' \subseteq Roots \cup UNION {Edges[a] : a \in Roots}
<1> USE DEF heapVars, rootVars, gcVars
<1>1. CASE Push
  <2>1. PICK v \in Held \cup {Null} : stack' = <<v>> \o stack
    BY <1>1 DEF Push
  <2>2. v \in Ref /\ stack \in Seq(Ref)
    BY HeldType DEF TypeOK
  <2>3. Range(stack') = {v} \cup Range(stack)
    BY <2>1, <2>2, ConsEffect
  <2>4. Held' = Held
    BY <1>1, <2>3, NullAssumption DEF Push, Held
  <2>5. QED
    BY <1>1, <2>4 DEF Push, Roots
<1>2. CASE Pop
  <2>1. Range(stack) = {Head(stack)} \cup Range(stack')
    BY <1>2, RangeHeadTail DEF Pop, TypeOK
  <2>2. Held' \subseteq Held
    BY <1>2, <2>1 DEF Pop, Held
  <2>3. QED
    BY <1>2, <2>2 DEF Pop, Roots
<1>3. CASE Load
  <2>1. PICK a \in Held : \E b \in Range(ref[a]) \cap Addr :
          \E keep \in SUBSET held : held' = keep \cup {b}
    BY <1>3 DEF Load
  <2>2. PICK b \in Range(ref[a]) \cap Addr : \E keep \in SUBSET held : held' = keep \cup {b}
    BY <2>1
  <2>3. a \in Addr /\ b \in Edges[a] /\ a \in Roots
    BY DEF Held, Edges, Roots
  <2>4. Held' \subseteq Held \cup {b}
    BY <1>3, <2>2 DEF Load, Held
  <2>5. Roots' \subseteq Roots \cup {b}
    BY <1>3, <2>4 DEF Load, Roots
  <2>6. QED
    BY <2>3, <2>5
<1>4. CASE Call
  <2>1. PICK type \in ObType : \E args \in [1 .. NbArgs(type) -> Held \cup {Null}] :
          req' = [type |-> type, args |-> args, retry |-> FALSE]
    BY <1>4 DEF Call
  <2>2. PICK args \in [1 .. NbArgs(type) -> Held \cup {Null}] :
          req' = [type |-> type, args |-> args, retry |-> FALSE]
    BY <2>1
  <2>3. Range(req'.args) \subseteq Held \cup {Null}
    BY <2>2, HeldType, ArgsType
  <2>4. Held' \subseteq Held
    BY <1>4 DEF Call, Held
  <2>5. QED
    BY <2>3, <2>4, NullAssumption DEF Roots
<1>5. CASE Dogc \/ ParseBegin \/ ParseEnd
  <2>1. Held' \subseteq Held
    BY <1>5 DEF Dogc, ParseBegin, ParseEnd, Held
  <2>2. Range(req'.args) \subseteq Range(req.args)
    BY <1>5 DEF Dogc, ParseBegin, ParseEnd, Range
  <2>3. QED
    BY <2>1, <2>2 DEF Roots
<1>6. CASE Fini
  <2>1. Held' = {}
    BY <1>6 DEF Fini, Held, Range
  <2>2. QED
    BY <1>6, <2>1 DEF Fini, Roots
<1>7. CASE MallocNull
  <2>1. req'.args = req.args
    BY <1>7 DEF MallocNull, Retrying, TypeOK, Requests
  <2>2. QED
    BY <1>7, <2>1 DEF MallocNull, Roots, Held
<1>8. CASE \/ Store \/ OutOfMemory \/ CollectBegin \/ Mark \/ MarkDone \/ Sweep \/ SweepHead
           \/ ClearMarks \/ Exited \/ UNCHANGED vars
  BY <1>8 DEF Store, OutOfMemory, CollectBegin, Mark, MarkDone, Sweep, SweepHead,
     ClearMarks, Exited, vars, Roots, Held
<1>9. QED
  BY <1>1, <1>2, <1>3, <1>4, <1>5, <1>6, <1>7, <1>8 DEF Next, Mutator, StorageManager

(* When marking ends, what is marked is what is live.                       *)
LEMMA MarkDoneLive ==
  ASSUME TypeOK, HeapClosed, MarkTricolour, MarkDone
  PROVE  /\ live' = marked
         /\ Roots \subseteq marked
         /\ Closed(Edges, marked)
         /\ marked \subseteq Allocated
         /\ Allocated' = Allocated /\ Edges' = Edges /\ Roots' = Roots
<1>1. pc = "mark" /\ Range(pending) = {}
  BY DEF MarkDone, Range
<1>2. Roots \subseteq marked /\ Closed(Edges, marked) /\ marked \subseteq Allocated
  BY <1>1 DEF MarkTricolour, Closed
<1>3. UNCHANGED <<objs, ref, stack, held, req, marked>>
  BY DEF MarkDone, heapVars, rootVars
<1>4. Allocated' = Allocated /\ Edges' = Edges /\ Roots' = Roots
  BY <1>3 DEF Allocated, Edges, Roots, Held
<1>5. CASE objs = <<>>
  <2>1. Allocated = {}
    BY <1>5 DEF Allocated, Range
  <2>2. pc' = "clear"
    BY <1>5 DEF MarkDone, SweepOrNot
  <2>3. QED
    BY <1>2, <1>4, <2>1, <2>2 DEF live
<1>6. CASE objs # <<>>
  <2>1. pc' = "sweep"
    BY <1>6 DEF MarkDone, SweepOrNot
  <2>2. QED
    BY <1>2, <1>3, <1>4, <2>1 DEF live
<1>7. QED
  BY <1>2, <1>4, <1>5, <1>6

(* When the sweep ends, what is left on the list is what is marked.         *)
LEMMA SweepHeadLive ==
  ASSUME TypeOK, ListSound, HeapClosed, SweepBehind, SweepHead
  PROVE  Allocated' = marked /\ live = marked /\ live' = marked /\ marked' = marked
<1>1. /\ pc = "sweep" /\ pc' = "clear" /\ cursor = Len(objs) /\ marked' = marked
      /\ \A i \in 2 .. Len(objs) : objs[i] \in marked
  BY DEF SweepHead, SweepBehind, gcVars
<1>2. live = marked /\ marked \subseteq Allocated
  BY <1>1 DEF live, HeapClosed
<1>3. Allocated = {objs[i] : i \in 1 .. Len(objs)} /\ Len(objs) \in Nat
  BY RangeEquality, LenProperties DEF Allocated, TypeOK
<1>4. Allocated \subseteq marked \cup {objs[1]}
  <2>1. ASSUME NEW i \in 1 .. Len(objs) PROVE objs[i] \in marked \cup {objs[1]}
    <3>1. CASE i = 1
      BY <3>1
    <3>2. CASE i # 1
      <4>1. i \in 2 .. Len(objs)
        BY <1>3, <3>2
      <4>2. QED
        BY <1>1, <4>1
    <3>3. QED
      BY <3>1, <3>2
  <2>2. QED
    BY <1>3, <2>1
<1>5. Allocated' = marked
  <2>1. CASE UNCHANGED heapVars /\ objs[1] \in marked
    BY <1>2, <1>4, <2>1 DEF heapVars, Allocated
  <2>2. CASE Unlinks(1)
    <3>1. objs[1] \notin marked /\ Allocated' = Allocated \ {objs[1]}
      BY <2>2, UnlinkEffect
    <3>2. QED
      BY <1>2, <1>4, <3>1
  <2>3. QED
    BY <2>1, <2>2, SweepHeadUnlinks
<1>6. live' = marked
  BY <1>1, <1>5 DEF live
<1>7. QED
  BY <1>1, <1>2, <1>5, <1>6

(* Neither sweeping step touches the pointers of a marked object, or what   *)
(* the program holds.                                                       *)
LEMMA SweepEffect ==
  ASSUME TypeOK, ListSound, HeapClosed, Sweep \/ SweepHead
  PROVE  /\ \A a \in marked : Edges'[a] = Edges[a]
         /\ Roots' = Roots
         /\ marked \subseteq Allocated'
         /\ marked' = marked
<1>1. pc = "sweep" /\ marked' = marked /\ UNCHANGED rootVars /\ req' = req
  BY DEF Sweep, SweepHead, gcVars
<1>2. marked \subseteq Allocated /\ marked \subseteq Addr
  BY <1>1 DEF HeapClosed, live, TypeOK
<1>3. Roots' = Roots
  BY <1>1 DEF Roots, Held, rootVars
<1>4. CASE UNCHANGED heapVars
  BY <1>1, <1>2, <1>3, <1>4 DEF heapVars, Edges, Allocated
<1>5. ASSUME NEW n \in Nat, Unlinks(n)
      PROVE  (\A a \in marked : Edges'[a] = Edges[a]) /\ marked \subseteq Allocated'
  <2>1. /\ objs[n] \notin marked
        /\ Allocated' = Allocated \ {objs[n]}
        /\ \A a \in Addr \ {objs[n]} : ref'[a] = ref[a]
    BY <1>5, UnlinkEffect
  <2>2. \A a \in marked : ref'[a] = ref[a]
    BY <1>2, <2>1
  <2>3. \A a \in marked : Edges'[a] = Edges[a]
    BY <1>2, <2>2 DEF Edges
  <2>4. QED
    BY <1>2, <2>1, <2>3
<1>6. cursor + 1 \in Nat /\ 1 \in Nat
  BY DEF TypeOK
<1>7. QED
  BY <1>1, <1>3, <1>4, <1>5, <1>6, SweepUnlinks, SweepHeadUnlinks

(* The live objects stay closed under pointers, and hold the roots.         *)
LEMMA HeapStep ==
  ASSUME TypeOK, ListSound, CallRooted, HeapClosed, MarkTricolour, SweepBehind, [Next]_vars
  PROVE  HeapClosed'
<1> USE DEF heapVars, rootVars, gcVars
<1>1. Roots \subseteq live /\ Closed(Edges, live) /\ live \subseteq Allocated
  BY DEF HeapClosed
<1>2. Allocated \subseteq Addr
  BY LiveType
<1>3. CASE MallocOk
  <2>1. PICK a \in Addr \ Allocated :
          /\ Allocated' = Allocated \cup {a}
          /\ \A b \in Addr \ {a} : ref'[b] = ref[b]
          /\ Range(ref'[a]) \subseteq Range(req.args) \cup {Null}
          /\ held' = held \cup {a}
    BY <1>3, MallocEffect
  <2>2. live = Allocated /\ live' = Allocated'
    BY <1>3 DEF MallocOk, live
  <2>3. Range(req'.args) = {}
    BY <1>3 DEF MallocOk, NoRequest, Range
  <2>4. Roots' \subseteq Roots \cup {a}
    BY <1>3, <2>1, <2>3 DEF MallocOk, Roots, Held
  <2>5. Edges'[a] \subseteq Roots
    BY <2>1, NullAssumption DEF Edges, Roots
  <2>6. \A b \in Allocated : Edges'[b] = Edges[b]
    BY <1>2, <2>1 DEF Edges
  <2>7. Closed(Edges', live')
    BY <1>1, <2>1, <2>2, <2>5, <2>6 DEF Closed
  <2>8. QED
    BY <1>1, <2>1, <2>2, <2>4, <2>7 DEF HeapClosed
<1>4. CASE Store
  <2>1. PICK a \in Held : \E i \in DOMAIN ref[a] : \E v \in Held \cup {Null} :
          ref' = [ref EXCEPT ![a][i] = v]
    BY <1>4 DEF Store
  <2>2. PICK i \in DOMAIN ref[a], v \in Held \cup {Null} : ref' = [ref EXCEPT ![a][i] = v]
    BY <2>1
  <2>3. a \in Addr
    BY DEF Held
  <2>4. \A b \in Addr \ {a} : ref'[b] = ref[b]
    BY <2>2 DEF TypeOK
  <2>5. ref'[a] = [ref[a] EXCEPT ![i] = v]
    BY <2>2, <2>3 DEF TypeOK
  <2>6. Range(ref'[a]) \subseteq Range(ref[a]) \cup {v}
    BY <2>5 DEF Range
  <2>7. Edges'[a] \subseteq Edges[a] \cup Roots
    BY <2>3, <2>6, NullAssumption DEF Edges, Roots
  <2>8. UNCHANGED <<live, Allocated, Roots>>
    BY <1>4 DEF Store, live, Allocated, Roots, Held
  <2>9. \A b \in Addr \ {a} : Edges'[b] = Edges[b]
    BY <2>4 DEF Edges
  <2>10. Closed(Edges', live)
    BY <1>1, <1>2, <2>7, <2>9 DEF Closed
  <2>11. QED
    BY <1>1, <2>8, <2>10 DEF HeapClosed
<1>5. CASE MarkDone
  BY <1>5, MarkDoneLive DEF HeapClosed
<1>6. CASE Sweep
  <2>1. live = marked /\ live' = marked'
    BY <1>6 DEF Sweep, live
  <2>2. /\ \A a \in marked : Edges'[a] = Edges[a]
        /\ Roots' = Roots /\ marked \subseteq Allocated' /\ marked' = marked
    BY <1>6, SweepEffect
  <2>3. QED
    BY <1>1, <2>1, <2>2 DEF HeapClosed, Closed
<1>7. CASE SweepHead
  <2>1. live = marked /\ live' = marked
    BY <1>7, SweepHeadLive
  <2>2. /\ \A a \in marked : Edges'[a] = Edges[a]
        /\ Roots' = Roots /\ marked \subseteq Allocated'
    BY <1>7, SweepEffect
  <2>3. QED
    BY <1>1, <2>1, <2>2 DEF HeapClosed, Closed
<1>8. CASE Fini
  <2>1. Held' = {} /\ req' = NoRequest
    BY <1>8 DEF Fini, Held, Range, CallRooted
  <2>2. Roots' = {}
    BY <2>1 DEF Roots, NoRequest, Range
  <2>3. Allocated' = {} /\ live' = {}
    BY <1>8 DEF Fini, Allocated, live, Range
  <2>4. QED
    BY <2>2, <2>3 DEF HeapClosed, Closed
<1>9. CASE \/ Push \/ Pop \/ Load \/ Call \/ Dogc \/ ParseBegin \/ ParseEnd
           \/ MallocNull \/ OutOfMemory \/ CollectBegin \/ Mark \/ ClearMarks
           \/ Exited \/ UNCHANGED vars
  <2>1. /\ UNCHANGED <<objs, ref>>
        /\ pc = "sweep" => marked' = marked
        /\ pc' = "sweep" <=> pc = "sweep"
    BY <1>9 DEF Push, Pop, Load, Call, Dogc, ParseBegin, ParseEnd, MallocNull, OutOfMemory,
       CollectBegin, Mark, ClearMarks, Exited, vars
  <2>2. UNCHANGED <<live, Allocated, Edges>>
    BY <2>1 DEF live, Allocated, Edges
  <2>3. CASE ~MallocOk
    <3>1. Roots' \subseteq Roots \cup UNION {Edges[a] : a \in Roots}
      BY <2>3, RootsStep
    <3>2. Roots' \subseteq live
      BY <1>1, <3>1 DEF Closed
    <3>3. QED
      BY <1>1, <2>2, <3>2 DEF HeapClosed
  <2>4. QED
    BY <1>3, <2>3
<1>10. QED
  BY <1>3, <1>4, <1>5, <1>6, <1>7, <1>8, <1>9 DEF Next, Mutator, StorageManager

(* Whatever the program can reach is live.                                  *)
LEMMA ReachIsLive ==
  ASSUME TypeOK, HeapClosed
  PROVE  Reach(Edges, Roots) \subseteq live
<1>1. Roots \in SUBSET Addr /\ live \in SUBSET Addr
  BY RootsType, LiveType
<1>2. QED
  BY <1>1, EdgesType, ReachLeast DEF HeapClosed

(* One turn of gc_mark keeps the tricolour invariant.                       *)
LEMMA TricolourMark ==
  ASSUME TypeOK, HeapClosed, MarkTricolour, Mark
  PROVE  MarkTricolour'
<1> DEFINE self == Head(pending)
           rest == Range(Tail(pending))
<1>1. /\ pc = "mark" /\ pending # <<>>
      /\ UNCHANGED <<objs, ref, stack, held, req>>
  BY DEF Mark, heapVars, rootVars
<1>2. UNCHANGED <<Allocated, Edges, Roots>>
  BY <1>1 DEF Allocated, Edges, Roots, Held
<1>3. Range(pending) = {self} \cup rest
  BY <1>1, RangeHeadTail DEF TypeOK
<1>4. /\ marked \subseteq Allocated
      /\ Roots \subseteq marked \cup Range(pending)
      /\ \A a \in marked : Edges[a] \subseteq marked \cup Range(pending)
      /\ Range(pending) \cap Addr \subseteq Reach(Edges, Roots)
  BY <1>1 DEF MarkTricolour
<1>5. /\ Closed(Edges, Reach(Edges, Roots))
      /\ Reach(Edges, Roots) \subseteq Addr
  BY EdgesType, RootsType, ReachLeast
<1>6. /\ Roots \subseteq Addr
      /\ \A a \in Addr : Edges[a] = Range(ref[a]) \cap Addr
  BY RootsType DEF Edges
<1>7. marked \subseteq Addr /\ Allocated \subseteq Addr
  BY LiveType DEF TypeOK
<1>8. CASE self \in Addr \ marked
  <2>1. marked' = marked \cup {self} /\ pending' = ref[self] \o Tail(pending)
    BY <1>8 DEF Mark, Visit
  <2>2. ref[self] \in Seq(Ref) /\ Tail(pending) \in Seq(Ref)
    BY <1>1, <1>8, HeadTailProperties DEF TypeOK
  <2>3. Range(pending') = Range(ref[self]) \cup rest
    BY <2>1, <2>2, RangeConcatenation
  <2>4. self \in Reach(Edges, Roots)
    BY <1>3, <1>4, <1>8
  <2>5. self \in Allocated
    <3>1. live = Allocated
      BY <1>1 DEF live
    <3>2. QED
      BY <2>4, <3>1, ReachIsLive
  <2>6. Edges[self] \subseteq Range(pending') /\ Edges[self] \subseteq Reach(Edges, Roots)
    BY <1>5, <1>6, <1>8, <2>3, <2>4 DEF Closed
  <2>7. marked \cup Range(pending) \subseteq marked' \cup Range(pending')
    BY <1>3, <2>1, <2>3
  <2>8. Range(pending') \cap Addr \subseteq Reach(Edges, Roots)
    BY <1>3, <1>4, <1>6, <1>8, <2>3, <2>6
  <2>9. marked' \subseteq Allocated
    BY <1>4, <2>1, <2>5
  <2>10. Roots \subseteq marked' \cup Range(pending')
    BY <1>4, <2>7
  <2>11. \A a \in marked' : Edges[a] \subseteq marked' \cup Range(pending')
    BY <1>4, <2>1, <2>6, <2>7
  <2>12. QED
    BY <1>2, <2>8, <2>9, <2>10, <2>11 DEF MarkTricolour
<1>9. CASE self \notin Addr \ marked
  <2>1. marked' = marked /\ Range(pending') = rest
    BY <1>9 DEF Mark
  <2>2. self \in marked \/ self \notin Addr
    BY <1>9
  <2>3. Roots \subseteq marked \cup rest
    BY <1>3, <1>4, <1>6, <2>2
  <2>4. \A a \in marked : Edges[a] \subseteq marked \cup rest
    BY <1>3, <1>4, <1>6, <1>7, <2>2
  <2>5. rest \cap Addr \subseteq Reach(Edges, Roots)
    BY <1>3, <1>4
  <2>6. QED
    BY <1>2, <1>4, <2>1, <2>3, <2>4, <2>5 DEF MarkTricolour
<1>10. QED
  BY <1>8, <1>9

(* The scan of the stack starts the tricolour invariant.                    *)
LEMMA TricolourBegin ==
  ASSUME TypeOK, CallRooted, MarksClean, CollectBegin, pc' = "mark"
  PROVE  MarkTricolour'
<1>1. /\ pc = "collect" /\ gc_enabled /\ pending' = rooted \o stack /\ marked' = marked
      /\ UNCHANGED <<objs, ref, stack, held, req>>
  BY DEF CollectBegin, CollectorRuns, heapVars, rootVars
<1>2. UNCHANGED <<Allocated, Edges, Roots>>
  BY <1>1 DEF Allocated, Edges, Roots, Held
<1>3. marked' = {}
  BY <1>1 DEF MarksClean
<1>4. Range(pending') = Range(rooted) \cup Range(stack)
  BY <1>1, RangeConcatenation DEF TypeOK
<1>5. held = {} /\ Range(req.args) = Range(rooted)
  BY <1>1 DEF CallRooted
<1>6. Roots = Range(pending') \cap Addr
  BY <1>4, <1>5 DEF Roots, Held
<1>7. Roots \subseteq Reach(Edges, Roots)
  BY EdgesType, RootsType, ReachLeast
<1>8. QED
  BY <1>2, <1>3, <1>6, <1>7 DEF MarkTricolour

(* Only these two steps and stuttering lead to a state of the mark phase.   *)
LEMMA TricolourStep ==
  ASSUME TypeOK, CallRooted, HeapClosed, MarkTricolour, MarksClean, [Next]_vars
  PROVE  MarkTricolour'
<1> USE DEF heapVars, rootVars, gcVars
<1>1. CASE Mark
  BY <1>1, TricolourMark
<1>2. CASE CollectBegin
  <2>1. CASE pc' = "mark"
    BY <1>2, <2>1, TricolourBegin
  <2>2. CASE pc' # "mark"
    BY <2>2 DEF MarkTricolour
  <2>3. QED
    BY <2>1, <2>2
<1>3. CASE Exited \/ UNCHANGED vars
  BY <1>3 DEF Exited, vars, MarkTricolour, Roots, Held, Edges, Allocated
<1>4. CASE \/ Push \/ Pop \/ Load \/ Store \/ Call \/ Dogc \/ ParseBegin \/ ParseEnd \/ Fini
           \/ MallocOk \/ MallocNull \/ OutOfMemory \/ MarkDone \/ Sweep \/ SweepHead
           \/ ClearMarks
  <2>1. pc' # "mark"
    BY <1>4 DEF Push, Pop, Load, Store, Call, Dogc, ParseBegin, ParseEnd, Fini, MallocOk,
       MallocNull, OutOfMemory, MarkDone, SweepOrNot, Sweep, SweepHead, ClearMarks
  <2>2. QED
    BY <2>1 DEF MarkTricolour
<1>5. QED
  BY <1>1, <1>2, <1>3, <1>4 DEF Next, Mutator, StorageManager

(* The sweep leaves marked objects behind, and the marks end clean.         *)
LEMMA SweepStep ==
  ASSUME TypeOK, ListSound, HeapClosed, MarkTricolour, SweepBehind, MarksClean, [Next]_vars
  PROVE  SweepBehind' /\ MarksClean'
<1> USE DEF heapVars, rootVars, gcVars
<1>1. CASE Sweep
  <2>1. /\ pc = "sweep" /\ pc' = "sweep" /\ marked' = marked /\ cursor < Len(objs)
        /\ \A i \in 2 .. cursor : objs[i] \in marked
    BY <1>1 DEF Sweep, SweepBehind
  <2>2. cursor \in Nat \ {0} /\ Len(objs) \in Nat
    BY LenProperties DEF TypeOK
  <2>3. CASE UNCHANGED heapVars /\ objs[cursor + 1] \in marked /\ cursor' = cursor + 1
    <3>1. \A i \in 2 .. cursor + 1 : i \in 2 .. cursor \/ i = cursor + 1
      BY <2>2
    <3>2. QED
      BY <2>1, <2>3, <3>1 DEF SweepBehind, MarksClean
  <2>4. CASE Unlinks(cursor + 1) /\ cursor' = cursor
    <3>1. /\ objs' = RemoveAt(objs, cursor + 1)
          /\ \A i \in 1 .. Len(objs) - 1 :
               RemoveAt(objs, cursor + 1)[i] = IF i < cursor + 1 THEN objs[i] ELSE objs[i + 1]
      BY <2>4, RemoveAtProperties DEF Unlinks, TypeOK
    <3>2. \A i \in 2 .. cursor : objs'[i] = objs[i]
      BY <2>1, <2>2, <3>1
    <3>3. QED
      BY <2>1, <2>4, <3>2 DEF SweepBehind, MarksClean
  <2>5. QED
    BY <1>1, <2>3, <2>4, SweepUnlinks
<1>2. CASE SweepHead
  <2>1. pc' = "clear"
    BY <1>2 DEF SweepHead
  <2>2. QED
    BY <1>2, <2>1, SweepHeadLive DEF SweepBehind, MarksClean
<1>3. CASE MarkDone
  <2>1. pc' \in {"sweep", "clear"} /\ cursor' = 1
    BY <1>3 DEF MarkDone, SweepOrNot
  <2>2. pc' = "clear" => marked' = Allocated'
    <3>1. live' = marked /\ marked' = marked
      BY <1>3, MarkDoneLive DEF MarkDone
    <3>2. QED
      BY <3>1 DEF live
  <2>3. \A i \in 2 .. 1 : FALSE
    OBVIOUS
  <2>4. QED
    BY <2>1, <2>2, <2>3 DEF SweepBehind, MarksClean
<1>4. CASE ClearMarks
  <2>1. marked = Allocated
    BY <1>4 DEF ClearMarks, SweepBehind
  <2>2. marked' = {} /\ pc' = "malloc"
    BY <1>4, <2>1 DEF ClearMarks, Unmarked, Allocated
  <2>3. QED
    BY <2>2 DEF SweepBehind, MarksClean
<1>5. CASE Exited \/ UNCHANGED vars
  BY <1>5 DEF Exited, vars, SweepBehind, MarksClean, Allocated
<1>6. CASE Mark
  BY <1>6 DEF Mark, SweepBehind, MarksClean
<1>7. CASE \/ Push \/ Pop \/ Load \/ Store \/ Call \/ Dogc \/ ParseBegin \/ ParseEnd \/ Fini
           \/ MallocOk \/ MallocNull \/ OutOfMemory \/ CollectBegin
  <2>1. marked' = marked /\ pc \notin {"mark", "sweep", "clear"} /\ pc' \notin {"sweep", "clear"}
    BY <1>7 DEF Push, Pop, Load, Store, Call, Dogc, ParseBegin, ParseEnd, Fini, MallocOk,
       MallocNull, OutOfMemory, CollectBegin
  <2>2. QED
    BY <2>1 DEF SweepBehind, MarksClean
<1>8. QED
  BY <1>1, <1>2, <1>3, <1>4, <1>5, <1>6, <1>7 DEF Next, Mutator, StorageManager

(* Nothing unreachable is live between the end of marking and the retry.    *)
LEMMA ReachableStep ==
  ASSUME IInv, [Next]_vars
  PROVE  LiveIsReachable'
<1> USE DEF heapVars, rootVars, gcVars
<1>1. TypeOK /\ ListSound /\ CallRooted /\ HeapClosed /\ MarkTricolour /\ SweepBehind
      /\ MarksClean /\ LiveIsReachable
  BY DEF IInv
<1>2. CASE CollectBegin
  <2>1. marked' = {} /\ pc' \in {"mark", "malloc"} /\ (pc' = "malloc" => ~gc_enabled')
    BY <1>1, <1>2 DEF CollectBegin, CollectorRuns, MarksClean
  <2>2. QED
    BY <2>1 DEF LiveIsReachable
<1>3. CASE Mark
  <2>1. pc = "mark" /\ pc' = "mark" /\ UNCHANGED <<Edges, Roots>>
    BY <1>3 DEF Mark, Edges, Roots, Held
  <2>2. Head(pending) \in Range(pending)
    BY <1>1, <1>3, RangeHeadTail DEF Mark, TypeOK
  <2>3. marked' \subseteq Reach(Edges, Roots)
    BY <1>1, <1>3, <2>1, <2>2 DEF Mark, MarkTricolour, LiveIsReachable
  <2>4. QED
    BY <2>1, <2>3 DEF LiveIsReachable
<1>4. CASE MarkDone
  <2>1. live' = marked /\ Edges' = Edges /\ Roots' = Roots
    BY <1>1, <1>4, MarkDoneLive
  <2>2. marked \subseteq Reach(Edges, Roots) /\ pc' \in {"sweep", "clear"}
    BY <1>1, <1>4 DEF MarkDone, SweepOrNot, LiveIsReachable
  <2>3. QED
    BY <2>1, <2>2 DEF LiveIsReachable
<1>5. CASE Sweep \/ SweepHead
  <2>1. pc = "sweep" /\ pc' \in {"sweep", "clear"}
    BY <1>5 DEF Sweep, SweepHead
  <2>2. live = marked /\ live' = marked
    BY <1>1, <1>5, SweepHeadLive DEF Sweep, live
  <2>3. (\A a \in marked : Edges'[a] = Edges[a]) /\ Roots' = Roots
    BY <1>1, <1>5, SweepEffect
  <2>4. Roots \subseteq marked /\ Closed(Edges, marked) /\ marked \in SUBSET Addr
    BY <1>1, <2>2 DEF HeapClosed, TypeOK
  <2>5. Edges' \in Graph(Addr)
    BY DEF Edges, Graph
  <2>6. Reach(Edges', Roots) = Reach(Edges, Roots)
    BY <1>1, <2>3, <2>4, <2>5, EdgesType, RootsType, ReachSame
  <2>7. QED
    BY <1>1, <2>1, <2>2, <2>3, <2>6 DEF LiveIsReachable
<1>6. CASE ClearMarks
  <2>1. pc = "clear" /\ pc' = "malloc" /\ UNCHANGED <<live, Edges, Roots>>
    BY <1>6 DEF ClearMarks, live, Allocated, Edges, Roots, Held
  <2>2. QED
    BY <1>1, <2>1 DEF LiveIsReachable
<1>7. CASE OutOfMemory
  <2>1. UNCHANGED <<live, Edges, Roots>> /\ pc = "malloc" /\ req.retry /\ pc' = "fatal"
    BY <1>7 DEF OutOfMemory, live, Allocated, Edges, Roots, Held
  <2>2. gc_enabled' = gc_enabled
    BY <1>7 DEF OutOfMemory
  <2>3. QED
    BY <1>1, <2>1, <2>2 DEF LiveIsReachable
<1>8. CASE Exited \/ UNCHANGED vars
  <2>1. UNCHANGED <<live, Edges, Roots, pc, req, gc_enabled, marked>>
    BY <1>8 DEF Exited, vars, live, Allocated, Edges, Roots, Held
  <2>2. QED
    BY <1>1, <2>1 DEF LiveIsReachable
<1>9. CASE \/ Push \/ Pop \/ Load \/ Store \/ Dogc \/ ParseBegin \/ ParseEnd \/ Fini
           \/ MallocOk \/ MallocNull \/ Call
  <2>1. \/ pc' \in {"run", "collect", "exit"}
        \/ pc' = "malloc" /\ ~req'.retry
    BY <1>9 DEF Push, Pop, Load, Store, Call, Dogc, ParseBegin, ParseEnd, Fini, MallocOk,
       MallocNull
  <2>2. QED
    BY <2>1 DEF LiveIsReachable
<1>10. QED
  BY <1>2, <1>3, <1>4, <1>5, <1>6, <1>7, <1>8, <1>9 DEF Next, Mutator, StorageManager

-----------------------------------------------------------------------------
(* The accounting of the heap.                                              *)

(* A nonempty set of numbers has a least one: what replaces an induction    *)
(* below.  (The intervals below the members are finite sets, which are well *)
(* ordered by inclusion.)                                                   *)
LEMMA LeastMember ==
  ASSUME NEW D \in SUBSET Nat, D # {}
  PROVE  \E m \in D : \A n \in D : m <= n
<1> DEFINE Intervals == {0 .. (n - 1) : n \in D}
<1>1. Intervals \subseteq FiniteSubsetsOf(Nat) /\ Intervals # {}
  <2>1. \A n \in D : IsFiniteSet(0 .. (n - 1)) /\ 0 .. (n - 1) \subseteq Nat
    BY FS_Interval
  <2>2. QED
    BY <2>1 DEF FiniteSubsetsOf
<1>2. PICK least \in Intervals :
        \A other \in Intervals : <<other, least>> \notin StrictSubsetOrdering(Nat)
  <2> HIDE DEF Intervals
  <2>1. QED
    BY <1>1, WFMin, FS_StrictSubsetOrderingWellFounded
<1>3. PICK m \in D : least = 0 .. (m - 1)
  OBVIOUS
<1>4. ASSUME NEW n \in D, n < m PROVE FALSE
  <2>1. 0 .. (n - 1) \in Intervals /\ <<0 .. (n - 1), least>> \in (SUBSET Nat) \X (SUBSET Nat)
    BY <1>3
  <2>2. n \in least /\ n \notin 0 .. (n - 1) /\ 0 .. (n - 1) \subseteq least
    BY <1>3, <1>4
  <2>3. QED
    BY <1>2, <2>1, <2>2 DEF StrictSubsetOrdering
<1>5. QED
  BY <1>4

\* p[n] is the sum of the first n numbers of w.
PartialSums(p, w) == /\ p \in [0 .. Len(w) -> Int]
                     /\ p[0] = 0
                     /\ \A n \in 1 .. Len(w) : p[n] = p[n - 1] + w[n]

SumsTo(w, total) == \E p : PartialSums(p, w) /\ p[Len(w)] = total

(* A number in front adds to the sum.                                       *)
LEMMA SumCons ==
  ASSUME NEW w \in Seq(Int), NEW total \in Int, NEW c \in Int, SumsTo(w, total)
  PROVE  SumsTo(<<c>> \o w, total + c)
<1>1. PICK p : PartialSums(p, w) /\ p[Len(w)] = total
  BY DEF SumsTo
<1> DEFINE v == <<c>> \o w
           q == [n \in 0 .. Len(v) |-> IF n = 0 THEN 0 ELSE p[n - 1] + c]
<1>2. /\ v \in Seq(Int) /\ Len(w) \in Nat /\ Len(v) = Len(w) + 1
      /\ \A n \in 1 .. Len(v) : v[n] = IF n = 1 THEN c ELSE w[n - 1]
  <2>1. <<c>> \in Seq(Int) /\ Len(<<c>>) = 1 /\ <<c>>[1] = c
    OBVIOUS
  <2>2. QED
    BY <2>1, ConcatProperties, LenProperties
<1> HIDE DEF v
<1>3. \A n \in 1 .. Len(v) : n - 1 \in 0 .. Len(w) /\ p[n - 1] \in Int
  <2>1. \A n \in 1 .. Len(v) : n - 1 \in 0 .. Len(w)
    BY <1>2
  <2>2. QED
    BY <1>1, <2>1 DEF PartialSums
<1>4. q \in [0 .. Len(v) -> Int] /\ q[0] = 0
  BY <1>2, <1>3
<1>5. ASSUME NEW n \in 1 .. Len(v) PROVE q[n] = q[n - 1] + v[n]
  <2>1. CASE n = 1
    BY <1>1, <1>2, <2>1 DEF PartialSums
  <2>2. CASE n # 1
    <3>1. n - 1 \in 1 .. Len(w) /\ v[n] = w[n - 1] /\ n - 1 \in 0 .. Len(v)
      BY <1>2, <2>2
    <3>2. p[n - 1] = p[(n - 1) - 1] + w[n - 1]
      BY <1>1, <3>1 DEF PartialSums
    <3>3. w[n - 1] \in Int /\ p[(n - 1) - 1] \in Int
      <4>1. (n - 1) - 1 \in 0 .. Len(w)
        BY <1>2, <3>1
      <4>2. QED
        BY <1>1, <3>1, <4>1, ElementOfSeq DEF PartialSums
    <3>4. QED
      BY <2>2, <3>1, <3>2, <3>3
  <2>3. QED
    BY <2>1, <2>2
<1>6. q[Len(v)] = total + c
  BY <1>1, <1>2
<1>7. QED
  BY <1>4, <1>5, <1>6 DEF PartialSums, SumsTo, v

(* Taking a number out takes it off the sum.                                *)
LEMMA SumRemoveAt ==
  ASSUME NEW w \in Seq(Int), NEW total \in Int, NEW k \in 1 .. Len(w), SumsTo(w, total)
  PROVE  SumsTo(RemoveAt(w, k), total - w[k])
<1>1. PICK p : PartialSums(p, w) /\ p[Len(w)] = total
  BY DEF SumsTo
<1> DEFINE v == RemoveAt(w, k)
           q == [n \in 0 .. Len(v) |-> IF n < k THEN p[n] ELSE p[n + 1] - w[k]]
<1>2. /\ v \in Seq(Int) /\ Len(w) \in Nat /\ k \in Nat /\ Len(v) = Len(w) - 1
      /\ \A n \in 1 .. Len(w) - 1 : v[n] = IF n < k THEN w[n] ELSE w[n + 1]
  BY RemoveAtProperties, LenProperties
<1> HIDE DEF v
<1>3. w[k] \in Int /\ \A n \in 0 .. Len(w) : p[n] \in Int
  BY <1>1, ElementOfSeq DEF PartialSums
<1>4. q \in [0 .. Len(v) -> Int] /\ q[0] = 0
  <2>1. \A n \in 0 .. Len(v) : n \in 0 .. Len(w) /\ n + 1 \in 0 .. Len(w)
    BY <1>2
  <2>2. 0 < k
    BY <1>2
  <2>3. \A n \in 0 .. Len(v) : (IF n < k THEN p[n] ELSE p[n + 1] - w[k]) \in Int
    BY <1>3, <2>1
  <2>4. p[0] = 0 /\ 0 \in 0 .. Len(v)
    BY <1>1, <1>2 DEF PartialSums
  <2>5. QED
    BY <2>2, <2>3, <2>4
<1>5. ASSUME NEW n \in 1 .. Len(v) PROVE q[n] = q[n - 1] + v[n]
  <2>1. n \in 1 .. Len(w) /\ n + 1 \in 1 .. Len(w) /\ n - 1 \in 0 .. Len(v) /\ n - 1 \in 0 .. Len(w)
    BY <1>2
  <2>2. p[n] = p[n - 1] + w[n] /\ p[n + 1] = p[n] + w[n + 1]
    <3>1. (n + 1) - 1 = n
      BY <2>1
    <3>2. QED
      BY <1>1, <2>1, <3>1 DEF PartialSums
  <2>3. w[n] \in Int /\ w[n + 1] \in Int /\ p[n] \in Int /\ p[n - 1] \in Int /\ p[n + 1] \in Int
    BY <1>3, <2>1, ElementOfSeq
  <2>4. CASE n < k
    BY <1>2, <2>1, <2>2, <2>4
  <2>5. CASE n = k
    <3>1. q[n] = p[n + 1] - w[k] /\ q[n - 1] = p[n - 1] /\ v[n] = w[n + 1] /\ w[n] = w[k]
      BY <1>2, <2>1, <2>5
    <3>2. \A a, b, c, d, e \in Int : b = c + e /\ a = b + d => a - e = c + d
      OBVIOUS
    <3>3. p[n + 1] - w[k] = p[n - 1] + w[n + 1]
      <4>1. p[n] = p[n - 1] + w[k] /\ w[k] \in Int
        BY <1>3, <2>2, <3>1
      <4>2. QED
        BY <2>2, <2>3, <3>2, <4>1
    <3>4. QED
      BY <3>1, <3>3
  <2>6. CASE n > k
    <3>1. ~(n < k) /\ ~(n - 1 < k) /\ (n - 1) + 1 = n
      BY <1>2, <2>6
    <3>2. q[n] = p[n + 1] - w[k] /\ q[n - 1] = p[n] - w[k] /\ v[n] = w[n + 1]
      BY <1>2, <2>1, <3>1
    <3>3. QED
      <4>1. p[n + 1] - w[k] = (p[n] - w[k]) + w[n + 1]
        <5>1. \A a, b, c, d \in Int : a = b + c => a - d = (b - d) + c
          OBVIOUS
        <5>2. w[k] \in Int /\ p[n + 1] \in Int /\ p[n] \in Int /\ w[n + 1] \in Int
          BY <1>3, <2>3
        <5>3. p[n + 1] = p[n] + w[n + 1]
          BY <2>2
        <5>4. QED
          BY <5>1, <5>2, <5>3
      <4>2. QED
        BY <3>2, <4>1
  <2>7. QED
    BY <1>2, <2>4, <2>5, <2>6
<1>6. q[Len(v)] = total - w[k]
  <2>1. CASE Len(v) < k
    <3>1. Len(v) = Len(w) - 1 /\ k = Len(w) /\ q[Len(v)] = p[Len(v)]
      BY <1>2, <2>1
    <3>2. p[Len(w)] = p[Len(w) - 1] + w[Len(w)]
      BY <1>1, <1>2 DEF PartialSums
    <3>3. p[Len(w) - 1] \in Int
      BY <1>2, <1>3
    <3>4. QED
      BY <1>1, <1>3, <3>1, <3>2, <3>3
  <2>2. CASE ~(Len(v) < k)
    <3>1. Len(v) + 1 = Len(w) /\ Len(v) \in 0 .. Len(v)
      BY <1>2
    <3>2. QED
      BY <1>1, <2>2, <3>1
  <2>3. QED
    BY <2>1, <2>2
<1>7. QED
  BY <1>4, <1>5, <1>6 DEF PartialSums, SumsTo, v

(* The recursive definition of the sum computes it.                         *)
LEMMA SumUnique ==
  ASSUME NEW w \in Seq(Int), NEW p, PartialSums(p, w), NEW q, PartialSums(q, w)
  PROVE  p[Len(w)] = q[Len(w)]
<1> DEFINE D == {n \in 0 .. Len(w) : p[n] # q[n]}
<1>1. Len(w) \in Nat
  BY LenProperties
<1>2. SUFFICES ASSUME D # {} PROVE FALSE
  BY <1>1
<1>3. PICK m \in D : \A n \in D : m <= n
  <2>1. D \in SUBSET Nat
    BY <1>1
  <2> HIDE DEF D
  <2>2. QED
    BY <1>2, <2>1, LeastMember
<1>4. m # 0
  BY DEF PartialSums
<1>5. m \in 1 .. Len(w) /\ m - 1 \in 0 .. Len(w) /\ m - 1 \notin D
  BY <1>1, <1>3, <1>4
<1>6. p[m] = q[m]
  BY <1>5 DEF PartialSums
<1>7. QED
  BY <1>6

\* The sizes of the objects on the list.
Sizes == [n \in DOMAIN objs |-> ObSize[ob_type[objs[n]]]]

HeapSizeSum == pc # "exit" => SumsTo(Sizes, heap_size)

(* Every object on the list has a size.                                     *)
LEMMA SizesType ==
  ASSUME TypeOK, ListSound
  PROVE  Sizes \in Seq(Int) /\ Len(Sizes) = Len(objs)
<1>1. Len(objs) \in Nat /\ DOMAIN objs = 1 .. Len(objs)
  BY LenProperties DEF TypeOK
<1>2. \A n \in 1 .. Len(objs) : ObSize[ob_type[objs[n]]] \in Int
  BY <1>1, SizeAssumption DEF ListSound, Allocated, Range
<1>3. QED
  BY <1>1, <1>2, IsASeq DEF Sizes

(* A new object is in front of the others, whose sizes stay.                *)
LEMMA SizesMalloc ==
  ASSUME TypeOK, ListSound, CallRooted, MallocOk
  PROVE  /\ ObSize[req.type] \in Int
         /\ Sizes' = <<ObSize[req.type]>> \o Sizes
         /\ heap_size' = heap_size + ObSize[req.type]
<1>1. PICK a \in Addr \ Allocated :
        /\ objs' = <<a>> \o objs
        /\ ob_type' = [ob_type EXCEPT ![a] = req.type]
  BY DEF MallocOk
<1>2. ObSize[req.type] \in Int
  BY SizeAssumption DEF MallocOk, CallRooted
<1> DEFINE c == ObSize[req.type]
<1>3. /\ objs \in Seq(Addr) /\ Len(objs) \in Nat /\ DOMAIN objs = 1 .. Len(objs)
      /\ Sizes \in Seq(Int) /\ Len(Sizes) = Len(objs)
  BY SizesType, LenProperties DEF TypeOK
<1>4. /\ objs' \in Seq(Addr) /\ Len(objs') = 1 + Len(objs) /\ DOMAIN objs' = 1 .. 1 + Len(objs)
      /\ \A n \in 1 .. 1 + Len(objs) : objs'[n] = IF n = 1 THEN a ELSE objs[n - 1]
  <2>1. <<a>> \in Seq(Addr) /\ Len(<<a>>) = 1 /\ <<a>>[1] = a
    OBVIOUS
  <2>2. QED
    BY <1>1, <1>3, <2>1, ConcatProperties, LenProperties
<1>5. /\ <<c>> \o Sizes \in Seq(Int) /\ Len(<<c>> \o Sizes) = 1 + Len(objs)
      /\ \A n \in 1 .. 1 + Len(objs) : (<<c>> \o Sizes)[n] = IF n = 1 THEN c ELSE Sizes[n - 1]
  <2>1. <<c>> \in Seq(Int) /\ Len(<<c>>) = 1 /\ <<c>>[1] = c
    BY <1>2
  <2> HIDE DEF c
  <2>2. QED
    BY <1>3, <2>1, ConcatProperties
<1>6. ASSUME NEW n \in 1 .. 1 + Len(objs)
      PROVE  ObSize[ob_type'[objs'[n]]] = (<<c>> \o Sizes)[n]
  <2>1. CASE n = 1
    BY <1>1, <1>4, <1>5, <2>1 DEF TypeOK
  <2>2. CASE n # 1
    <3>1. n - 1 \in 1 .. Len(objs)
      BY <1>3, <2>2
    <3>2. objs[n - 1] \in Allocated
      BY <1>3, <3>1 DEF Allocated, Range
    <3>3. ob_type'[objs[n - 1]] = ob_type[objs[n - 1]]
      BY <1>1, <3>2 DEF TypeOK
    <3>4. QED
      BY <1>3, <1>4, <1>5, <2>2, <3>1, <3>3 DEF Sizes
  <2>3. QED
    BY <2>1, <2>2
<1>7. Sizes' = [n \in 1 .. 1 + Len(objs) |-> ObSize[ob_type'[objs'[n]]]]
  BY <1>4 DEF Sizes
<1>8. Sizes' = <<c>> \o Sizes
  <2>1. DOMAIN (<<c>> \o Sizes) = 1 .. 1 + Len(objs)
    BY <1>5, LenProperties
  <2>2. <<c>> \o Sizes = [n \in 1 .. 1 + Len(objs) |-> (<<c>> \o Sizes)[n]]
    BY <1>5, <2>1, LenProperties
  <2>3. QED
    BY <1>6, <1>7, <2>2
<1>9. QED
  BY <1>2, <1>8 DEF MallocOk

(* Unlinking takes the size of the victim out, and leaves the others.       *)
LEMMA SizesUnlink ==
  ASSUME TypeOK, ListSound, NEW k \in Nat, Unlinks(k)
  PROVE  /\ k \in 1 .. Len(Sizes)
         /\ Sizes' = RemoveAt(Sizes, k)
         /\ heap_size' = heap_size - Sizes[k]
<1>1. /\ objs \in Seq(Addr) /\ Len(objs) \in Nat /\ DOMAIN objs = 1 .. Len(objs)
      /\ Sizes \in Seq(Int) /\ Len(Sizes) = Len(objs) /\ k \in 1 .. Len(objs)
      /\ \A n \in 1 .. Len(objs) : objs[n] \in Addr
  BY SizesType, LenProperties, ElementOfSeq DEF TypeOK, Unlinks
<1>2. /\ objs' \in Seq(Addr) /\ Len(objs') = Len(objs) - 1 /\ DOMAIN objs' = 1 .. Len(objs) - 1
      /\ \A n \in 1 .. Len(objs) - 1 : objs'[n] = IF n < k THEN objs[n] ELSE objs[n + 1]
  <2> DEFINE s == objs
             t == objs'
  <2>1. t = RemoveAt(s, k) /\ s \in Seq(Addr) /\ k \in 1 .. Len(s) /\ Len(s) = Len(objs)
    BY <1>1 DEF Unlinks
  <2> HIDE DEF s, t
  <2>2. /\ t \in Seq(Addr) /\ Len(t) = Len(s) - 1
        /\ \A n \in 1 .. Len(s) - 1 : t[n] = IF n < k THEN s[n] ELSE s[n + 1]
    BY <2>1, RemoveAtProperties
  <2>3. DOMAIN t = 1 .. Len(t)
    BY <2>2, LenProperties
  <2>4. QED
    BY <2>1, <2>2, <2>3 DEF s, t
<1>3. /\ RemoveAt(Sizes, k) \in Seq(Int) /\ Len(RemoveAt(Sizes, k)) = Len(objs) - 1
      /\ \A n \in 1 .. Len(objs) - 1 :
           RemoveAt(Sizes, k)[n] = IF n < k THEN Sizes[n] ELSE Sizes[n + 1]
  <2> DEFINE s == Sizes
  <2>1. s \in Seq(Int) /\ k \in 1 .. Len(s)
    BY <1>1
  <2> HIDE DEF s
  <2>2. /\ RemoveAt(s, k) \in Seq(Int) /\ Len(RemoveAt(s, k)) = Len(s) - 1
        /\ \A n \in 1 .. Len(s) - 1 :
             RemoveAt(s, k)[n] = IF n < k THEN s[n] ELSE s[n + 1]
    BY <2>1, RemoveAtProperties
  <2>3. QED
    BY <1>1, <2>2 DEF s
<1>4. /\ \A a \in Addr \ {objs[k]} : ob_type'[a] = ob_type[a]
      /\ objs[k] \in Addr /\ objs[k] \notin Allocated'
  BY UnlinkEffect
<1>5. ASSUME NEW n \in 1 .. Len(objs) - 1
      PROVE  ObSize[ob_type'[objs'[n]]] = RemoveAt(Sizes, k)[n]
  <2>1. objs'[n] \in Allocated' /\ objs'[n] \in Addr
    BY <1>2, ElementOfSeq DEF Allocated, Range
  <2>2. ob_type'[objs'[n]] = ob_type[objs'[n]]
    BY <1>4, <2>1
  <2>3. n \in 1 .. Len(objs) /\ n + 1 \in 1 .. Len(objs)
    BY <1>1
  <2>4. Sizes[n] = ObSize[ob_type[objs[n]]] /\ Sizes[n + 1] = ObSize[ob_type[objs[n + 1]]]
    BY <1>1, <2>3 DEF Sizes
  <2>5. QED
    BY <1>2, <1>3, <2>2, <2>4
<1>6. Sizes' = [n \in 1 .. Len(objs) - 1 |-> ObSize[ob_type'[objs'[n]]]]
  BY <1>2 DEF Sizes
<1>7. Sizes' = RemoveAt(Sizes, k)
  <2>1. RemoveAt(Sizes, k) = [n \in 1 .. Len(objs) - 1 |-> RemoveAt(Sizes, k)[n]]
    BY <1>3, LenProperties
  <2>2. QED
    BY <1>5, <1>6, <2>1
<1>8. QED
  BY <1>1, <1>7 DEF Unlinks, Free, SizeFreed, Sizes

(* Every step keeps the account.                                            *)
LEMMA SumStep ==
  ASSUME IInv, HeapSizeSum, [Next]_vars
  PROVE  HeapSizeSum'
<1> USE DEF heapVars, rootVars, gcVars
<1>1. TypeOK /\ ListSound /\ CallRooted /\ heap_size \in Int /\ Sizes \in Seq(Int)
  BY SizesType DEF IInv, TypeOK
<1>2. CASE MallocOk
  <2>1. SumsTo(Sizes, heap_size)
    BY <1>2 DEF HeapSizeSum, MallocOk
  <2>2. QED
    BY <1>1, <1>2, <2>1, SizesMalloc, SumCons DEF HeapSizeSum
<1>3. ASSUME NEW k \in Nat, Unlinks(k), pc # "exit" PROVE HeapSizeSum'
  <2>1. SumsTo(Sizes, heap_size)
    BY <1>3 DEF HeapSizeSum
  <2>2. /\ k \in 1 .. Len(Sizes)
        /\ Sizes' = RemoveAt(Sizes, k)
        /\ heap_size' = heap_size - Sizes[k]
    BY <1>1, <1>3, SizesUnlink
  <2>3. QED
    BY <1>1, <2>1, <2>2, SumRemoveAt DEF HeapSizeSum
<1>4. ASSUME UNCHANGED <<objs, ob_type, heap_size>>, pc = "exit" => pc' = "exit"
      PROVE  HeapSizeSum'
  BY <1>4 DEF HeapSizeSum, Sizes
<1>5. CASE Sweep
  <2>1. cursor + 1 \in Nat /\ pc # "exit" /\ pc' # "exit"
    BY <1>1, <1>5 DEF TypeOK, Sweep
  <2>2. QED
    BY <1>1, <1>3, <1>4, <1>5, <2>1, SweepUnlinks
<1>6. CASE SweepHead
  <2>1. pc # "exit" /\ pc' # "exit"
    BY <1>6 DEF SweepHead
  <2>2. QED
    BY <1>1, <1>3, <1>4, <1>6, <2>1, SweepHeadUnlinks
<1>7. CASE Fini
  BY <1>7 DEF Fini, HeapSizeSum
<1>8. CASE \/ Push \/ Pop \/ Load \/ Store \/ Call \/ Dogc \/ ParseBegin \/ ParseEnd
           \/ MallocNull \/ OutOfMemory \/ CollectBegin \/ Mark \/ MarkDone \/ ClearMarks
           \/ Exited \/ UNCHANGED vars
  BY <1>4, <1>8 DEF Push, Pop, Load, Store, Call, Dogc, ParseBegin, ParseEnd, MallocNull,
     OutOfMemory, CollectBegin, CollectorRuns, Mark, MarkDone, SweepOrNot, ClearMarks, Exited, vars
<1>9. QED
  BY <1>2, <1>5, <1>6, <1>7, <1>8 DEF Next, Mutator, StorageManager

(* The sum that the invariant speaks of is the one of the definition.       *)
LEMMA SumIsExact ==
  ASSUME TypeOK, ListSound, HeapSizeSum
  PROVE  HeapSizeExact
<1> SUFFICES ASSUME pc # "exit" PROVE heap_size = SizeOfFirst[Len(objs)]
  BY DEF HeapSizeExact, ListSound
<1>1. PICK p : PartialSums(p, Sizes) /\ p[Len(Sizes)] = heap_size
  BY DEF HeapSizeSum, SumsTo
<1>2. /\ Sizes \in Seq(Int) /\ Len(Sizes) = Len(objs) /\ Len(objs) \in Nat
      /\ DOMAIN objs = 1 .. Len(objs)
  BY SizesType, LenProperties DEF TypeOK
<1>3. \A n \in 1 .. Len(objs) : Sizes[n] = ObSize[ob_type[objs[n]]] /\ Sizes[n] \in Int
  BY <1>2, ElementOfSeq DEF Sizes
<1> DEFINE Recursion(s) ==
      s = [n \in 0 .. Len(objs) |-> IF n = 0 THEN 0 ELSE s[n - 1] + ObSize[ob_type[objs[n]]]]
<1>4. Recursion(p)
  <2>1. \A n \in 0 .. Len(objs) :
          p[n] = IF n = 0 THEN 0 ELSE p[n - 1] + ObSize[ob_type[objs[n]]]
    <3>1. \A n \in 0 .. Len(objs) : n = 0 \/ n \in 1 .. Len(objs)
      BY <1>2
    <3>2. QED
      BY <1>1, <1>2, <1>3, <3>1 DEF PartialSums
  <2>2. p = [n \in 0 .. Len(objs) |-> p[n]]
    BY <1>1, <1>2 DEF PartialSums
  <2>3. QED
    BY <2>1, <2>2
<1>5. Recursion(SizeOfFirst)
  BY <1>4 DEF SizeOfFirst
<1>6. PartialSums(SizeOfFirst, Sizes)
  <2>1. ASSUME NEW n \in 0 .. Len(objs), SizeOfFirst[n] # p[n] PROVE FALSE
    <3> DEFINE D == {m \in 0 .. Len(objs) : SizeOfFirst[m] # p[m]}
    <3>1. D \in SUBSET Nat /\ D # {}
      BY <1>2, <2>1
    <3>2. PICK m \in D : \A k \in D : m <= k
      <4> HIDE DEF D
      <4>1. QED
        BY <3>1, LeastMember
    <3>3. SizeOfFirst[m] = (IF m = 0 THEN 0 ELSE SizeOfFirst[m - 1] + ObSize[ob_type[objs[m]]])
          /\ p[m] = (IF m = 0 THEN 0 ELSE p[m - 1] + ObSize[ob_type[objs[m]]])
      BY <1>4, <1>5
    <3>4. m # 0
      BY <3>3
    <3>5. m - 1 \in 0 .. Len(objs) /\ m - 1 \notin D
      BY <1>2, <3>2, <3>4
    <3>6. QED
      BY <3>3, <3>4, <3>5
  <2>2. SizeOfFirst = p
    <3>1. SizeOfFirst = [n \in 0 .. Len(objs) |-> SizeOfFirst[n]]
      BY <1>5
    <3>2. p = [n \in 0 .. Len(objs) |-> p[n]]
      BY <1>4
    <3>3. QED
      BY <2>1, <3>1, <3>2
  <2>3. QED
    BY <1>1, <2>2
<1>7. QED
  BY <1>1, <1>2, <1>6, SumUnique

-----------------------------------------------------------------------------
(* The theorems.                                                            *)

(* The invariant holds when sgc_init has run.                               *)
LEMMA InitInv == Init => IInv
<1> SUFFICES ASSUME Init PROVE IInv
  OBVIOUS
<1>1. <<>> \in Seq(Addr) /\ <<>> \in Seq(Ref) /\ Range(<<>>) = {}
  BY DEF Range
<1>2. TypeOK
  BY <1>1, SizeAssumption DEF Init, TypeOK, NoRequest, Requests
<1>3. Roots = {} /\ Allocated = {} /\ live = {}
  BY <1>1 DEF Init, Roots, Held, NoRequest, Allocated, live
<1>4. HeapClosed
  BY <1>3 DEF HeapClosed, Closed
<1>5. ListSound
  BY <1>3 DEF Init, ListSound, IsInjective
<1>6. CallRooted
  BY <1>1 DEF Init, CallRooted, NoRequest
<1>7. MarkTricolour /\ SweepBehind /\ MarksClean /\ LiveIsReachable
  BY DEF Init, MarkTricolour, SweepBehind, MarksClean, LiveIsReachable
<1>8. QED
  BY <1>2, <1>4, <1>5, <1>6, <1>7 DEF IInv

(* The inductive invariant holds of every reachable state.                  *)
THEOREM Invariance == Spec => []IInv
<1>1. Init => IInv
  BY InitInv
<1>2. IInv /\ [Next]_vars => IInv'
  <2> SUFFICES ASSUME IInv, [Next]_vars PROVE IInv'
    OBVIOUS
  <2>1. TypeOK /\ ListSound /\ CallRooted /\ HeapClosed /\ MarkTricolour /\ SweepBehind
        /\ MarksClean
    BY DEF IInv
  <2>2. TypeOK'
    BY <2>1, TypeStep
  <2>3. ListSound'
    BY <2>1, ListStep
  <2>4. CallRooted'
    BY <2>1, CallStep
  <2>5. HeapClosed'
    BY <2>1, HeapStep
  <2>6. MarkTricolour'
    BY <2>1, TricolourStep
  <2>7. SweepBehind' /\ MarksClean'
    BY <2>1, SweepStep
  <2>8. LiveIsReachable'
    BY ReachableStep
  <2>9. QED
    BY <2>2, <2>3, <2>4, <2>5, <2>6, <2>7, <2>8 DEF IInv
<1>3. QED
  BY <1>1, <1>2, PTL DEF Spec

(* The variables keep their types.                                          *)
THEOREM TypeCorrect == Spec => []TypeOK
<1>1. IInv => TypeOK
  BY DEF IInv
<1>2. QED
  BY <1>1, Invariance, PTL

(* gc_collect never frees an object that the program can still reach,       *)
(* whatever the graph, the list and the stack look like.                    *)
THEOREM Safety == Spec => []NoDangling
<1>1. IInv => NoDangling
  BY ReachIsLive DEF IInv, HeapClosed, NoDangling
<1>2. QED
  BY <1>1, Invariance, PTL

(* gc_collect leaves no mark behind.                                        *)
THEOREM CleanMarks == Spec => []MarksClean
<1>1. IInv => MarksClean
  BY DEF IInv
<1>2. QED
  BY <1>1, Invariance, PTL

(* When the process dies of "out of memory", no garbage is left that could  *)
(* have been freed instead.                                                 *)
THEOREM NoGarbageWhenFatal == Spec => []FatalOnlyWhenNoGarbage
<1>1. IInv => FatalOnlyWhenNoGarbage
  <2> SUFFICES ASSUME IInv, pc = "fatal", gc_enabled
               PROVE  Allocated = Reach(Edges, Roots)
    BY DEF FatalOnlyWhenNoGarbage
  <2>1. live = Allocated
    BY DEF live
  <2>2. live \subseteq Reach(Edges, Roots)
    BY DEF IInv, LiveIsReachable
  <2>3. Reach(Edges, Roots) \subseteq live
    BY ReachIsLive DEF IInv
  <2>4. QED
    BY <2>1, <2>2, <2>3
<1>2. QED
  BY <1>1, Invariance, PTL

(* heap_size, which decides when gc_malloc refuses, is always the sum of    *)
(* the sizes of the objects on the list.                                    *)
THEOREM Accounting == Spec => []HeapSizeExact
<1>1. Init => IInv /\ HeapSizeSum
  <2> SUFFICES ASSUME Init PROVE HeapSizeSum
    BY InitInv
  <2>1. Len(Sizes) = 0 /\ heap_size = 0
    BY DEF Init, Sizes
  <2>2. PartialSums([n \in {0} |-> 0], Sizes)
    BY <2>1 DEF PartialSums
  <2>3. QED
    BY <2>1, <2>2 DEF HeapSizeSum, SumsTo
<1>2. IInv /\ HeapSizeSum /\ [Next]_vars => HeapSizeSum'
  BY SumStep
<1>3. IInv /\ HeapSizeSum => HeapSizeExact
  BY SumIsExact DEF IInv
<1>4. QED
  BY <1>1, <1>2, <1>3, Invariance, PTL DEF Spec

-----------------------------------------------------------------------------
(* Sgc implements AbstractHeap.                                             *)

(* The pointers of freed objects reach nothing that the live ones do not.   *)
LEMMA LiveReach ==
  ASSUME TypeOK, HeapClosed
  PROVE  Reach(liveEdges, Roots) = Reach(Edges, Roots)
<1>1. liveEdges \in Graph(Addr)
  BY DEF liveEdges, Edges, Graph
<1>2. live \in SUBSET Addr /\ Roots \in SUBSET Addr
  BY LiveType, RootsType
<1>3. \A a \in live : liveEdges[a] = Edges[a]
  BY <1>2 DEF liveEdges
<1>4. QED
  BY <1>1, <1>2, <1>3, EdgesType, ReachSame DEF HeapClosed

(* The abstract heap speaks of the same reachability.                       *)
LEMMA HeapReach == Heap!Reach(liveEdges, Roots) = Reach(liveEdges, Roots)
  BY DEF Heap!Reach, Heap!Closed, Reach, Closed

(* After sgc_init the abstract heap is empty.                               *)
LEMMA InitRefines == Init => Heap!Init
<1> SUFFICES ASSUME Init PROVE Heap!Init
  OBVIOUS
<1>1. Range(<<>>) = {}
  BY DEF Range
<1>2. Roots = {} /\ live = {}
  BY <1>1 DEF Init, Roots, Held, NoRequest, Allocated, live
<1>3. liveEdges = [a \in Addr |-> {}]
  BY <1>2 DEF liveEdges
<1>4. QED
  BY <1>2, <1>3 DEF Heap!Init

(* A successful gc_malloc is an allocation.                                 *)
LEMMA MallocRefines ==
  ASSUME IInv, MallocOk
  PROVE  Heap!Alloc
<1>1. TypeOK /\ ListSound /\ CallRooted
  BY DEF IInv
<1>2. PICK a \in Addr \ Allocated :
        /\ Allocated' = Allocated \cup {a}
        /\ \A b \in Addr \ {a} : ref'[b] = ref[b]
        /\ Range(ref'[a]) \subseteq Range(req.args) \cup {Null}
        /\ held' = held \cup {a}
  BY <1>1, MallocEffect
<1>3. live = Allocated /\ live' = Allocated'
  BY DEF MallocOk, live
<1>4. Range(req'.args) = {} /\ stack' = stack
  BY DEF MallocOk, NoRequest, Range
<1>5. a \in Roots' /\ Roots' \ {a} \in SUBSET Roots
  BY <1>2, <1>4 DEF Roots, Held
<1>6. Edges'[a] \in SUBSET Roots
  BY <1>2, NullAssumption DEF Edges, Roots
<1>7. liveEdges' = [liveEdges EXCEPT ![a] = Edges'[a]]
  <2>1. \A b \in Addr \ {a} : Edges'[b] = Edges[b] /\ (b \in live' <=> b \in live)
    BY <1>2, <1>3 DEF Edges
  <2>2. a \in live' /\ a \in Addr
    BY <1>2, <1>3
  <2>3. \A b \in Addr : liveEdges'[b] = [liveEdges EXCEPT ![a] = Edges'[a]][b]
    BY <2>1, <2>2 DEF liveEdges
  <2>4. QED
    BY <2>3 DEF liveEdges
<1>8. Roots' = (Roots' \ {a}) \cup {a}
  BY <1>5
<1>9. QED
  BY <1>2, <1>3, <1>5, <1>6, <1>7, <1>8 DEF Heap!Alloc

(* An assignment to a field is a store.                                     *)
LEMMA StoreRefines ==
  ASSUME IInv, Store
  PROVE  Heap!Store
<1> USE DEF rootVars
<1>1. PICK a \in Held : \E i \in DOMAIN ref[a] : \E v \in Held \cup {Null} :
        ref' = [ref EXCEPT ![a][i] = v]
  BY DEF Store
<1>2. PICK i \in DOMAIN ref[a], v \in Held \cup {Null} : ref' = [ref EXCEPT ![a][i] = v]
  BY <1>1
<1>3. ref \in [Addr -> Seq(Ref)] /\ a \in Addr /\ a \in Roots /\ Roots \subseteq live
  BY DEF Held, Roots, IInv, TypeOK, HeapClosed
<1>4. \A b \in Addr \ {a} : ref'[b] = ref[b]
  BY <1>2, <1>3
<1>5. ref'[a] = [ref[a] EXCEPT ![i] = v]
  BY <1>2, <1>3
<1>6. Range(ref'[a]) \subseteq Range(ref[a]) \cup {v}
  BY <1>5 DEF Range
<1>7. Edges'[a] \subseteq Edges[a] \cup Roots
  BY <1>3, <1>6, NullAssumption DEF Edges, Roots
<1>8. UNCHANGED <<live, Roots>>
  BY DEF Store, live, Allocated, Roots, Held
<1>9. liveEdges' = [liveEdges EXCEPT ![a] = Edges'[a]]
  <2>1. \A b \in Addr \ {a} : Edges'[b] = Edges[b]
    BY <1>4 DEF Edges
  <2>2. \A b \in Addr : liveEdges'[b] = [liveEdges EXCEPT ![a] = Edges'[a]][b]
    BY <1>3, <1>8, <2>1 DEF liveEdges
  <2>3. QED
    BY <2>2 DEF liveEdges
<1>10. Edges'[a] \in SUBSET (liveEdges[a] \cup Roots)
  BY <1>3, <1>7 DEF liveEdges
<1>11. QED
  BY <1>3, <1>8, <1>9, <1>10 DEF Heap!Store

(* The end of marking is the collection.                                    *)
LEMMA MarkDoneRefines ==
  ASSUME IInv, MarkDone
  PROVE  Heap!Collect
<1>1. TypeOK /\ HeapClosed /\ MarkTricolour /\ LiveIsReachable
  BY DEF IInv
<1>2. /\ live' = marked /\ Roots \subseteq marked /\ Closed(Edges, marked)
      /\ marked \subseteq Allocated /\ Allocated' = Allocated
      /\ Edges' = Edges /\ Roots' = Roots
  BY <1>1, MarkDoneLive
<1>3. pc = "mark" /\ live = Allocated
  BY DEF MarkDone, live
<1>4. Reach(Edges, Roots) \subseteq marked
  BY <1>1, <1>2, EdgesType, RootsType, ReachLeast DEF TypeOK
<1>5. live' = Reach(liveEdges, Roots)
  BY <1>1, <1>2, <1>3, <1>4, LiveReach DEF LiveIsReachable
<1>6. liveEdges' = [a \in Addr |-> IF a \in live' THEN liveEdges[a] ELSE {}]
  BY <1>2, <1>3 DEF liveEdges
<1>7. QED
  BY <1>2, <1>5, <1>6, HeapReach DEF Heap!Collect

(* Freeing the victims afterwards is not visible.                           *)
LEMMA SweepRefines ==
  ASSUME IInv, Sweep \/ SweepHead
  PROVE  UNCHANGED <<live, liveEdges, Roots>>
<1>1. TypeOK /\ ListSound /\ HeapClosed /\ SweepBehind
  BY DEF IInv
<1>2. live = marked /\ live' = marked
  BY <1>1, SweepHeadLive DEF Sweep, live
<1>3. (\A a \in marked : Edges'[a] = Edges[a]) /\ Roots' = Roots
  BY <1>1, SweepEffect
<1>4. liveEdges' = liveEdges
  BY <1>2, <1>3 DEF liveEdges
<1>5. QED
  BY <1>2, <1>3, <1>4

(* Every other step at most moves the roots.                                *)
LEMMA MoveRefines ==
  ASSUME IInv, [Next]_vars, ~MallocOk, UNCHANGED <<live, liveEdges>>
  PROVE  Heap!Move
<1>1. TypeOK /\ HeapClosed
  BY DEF IInv
<1>2. Roots' \subseteq Roots \cup UNION {Edges[a] : a \in Roots}
  BY <1>1, RootsStep
<1>3. Roots \subseteq Reach(Edges, Roots) /\ Closed(Edges, Reach(Edges, Roots))
  BY <1>1, EdgesType, RootsType, ReachLeast
<1>4. Roots' \in SUBSET Reach(liveEdges, Roots)
  BY <1>1, <1>2, <1>3, LiveReach DEF Closed
<1>5. QED
  BY <1>4, HeapReach DEF Heap!Move

(* Every step of Sgc is a step of AbstractHeap, or changes nothing there.   *)
LEMMA StepRefines ==
  ASSUME IInv, [Next]_vars
  PROVE  [Heap!Next]_Heap!vars
<1> USE DEF heapVars, rootVars, gcVars
<1>1. CASE MallocOk
  BY <1>1, MallocRefines DEF Heap!Next
<1>2. CASE Store
  BY <1>2, StoreRefines DEF Heap!Next
<1>3. CASE MarkDone
  BY <1>3, MarkDoneRefines DEF Heap!Next
<1>4. CASE Sweep \/ SweepHead
  BY <1>4, SweepRefines DEF Heap!vars
<1>5. CASE Fini
  <2>1. Held' = {} /\ req' = NoRequest
    BY <1>5 DEF Fini, Held, Range, IInv, CallRooted
  <2>2. Roots' = {}
    BY <2>1 DEF Roots, NoRequest, Range
  <2>3. live' = {}
    BY <1>5 DEF Fini, Allocated, live, Range
  <2>4. liveEdges' = [a \in Addr |-> {}]
    BY <2>3 DEF liveEdges
  <2>5. QED
    BY <2>2, <2>3, <2>4 DEF Heap!Next, Heap!Shutdown
<1>6. CASE \/ Push \/ Pop \/ Load \/ Call \/ Dogc \/ ParseBegin \/ ParseEnd
           \/ MallocNull \/ OutOfMemory \/ CollectBegin \/ Mark \/ ClearMarks
           \/ Exited \/ UNCHANGED vars
  <2>1. /\ UNCHANGED <<objs, ref>>
        /\ pc = "sweep" => marked' = marked
        /\ pc' = "sweep" <=> pc = "sweep"
    BY <1>6 DEF Push, Pop, Load, Call, Dogc, ParseBegin, ParseEnd, MallocNull, OutOfMemory,
       CollectBegin, Mark, ClearMarks, Exited, vars
  <2>2. UNCHANGED <<live, liveEdges>>
    BY <2>1 DEF live, Allocated, Edges, liveEdges
  <2>3. QED
    BY <1>1, <2>2, MoveRefines DEF Heap!Next
<1>7. QED
  BY <1>1, <1>2, <1>3, <1>4, <1>5, <1>6 DEF Next, Mutator, StorageManager

(* The storage manager keeps the promise of AbstractHeap: nothing but a     *)
(* collection takes objects away, and it takes exactly the unreachable.     *)
THEOREM Refinement == Spec => ImplementsHeap
<1>1. Init => Heap!Init
  BY InitRefines
<1>2. IInv /\ [Next]_vars => [Heap!Next]_Heap!vars
  BY StepRefines
<1>3. QED
  BY <1>1, <1>2, Invariance, PTL DEF Spec, ImplementsHeap, Heap!Spec
=============================================================================
