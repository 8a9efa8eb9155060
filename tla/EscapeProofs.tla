--------------------------- MODULE EscapeProofs ---------------------------
(* Proofs about Escape, for every set of continuations and values.          *)
EXTENDS Escape, SequenceTheorems, TLAPS

-----------------------------------------------------------------------------
(* The calls, which the steps extend by one and cut back to a prefix.       *)

(* The prefix of length n of a sequence.                                    *)
LEMMA PrefixProperties ==
  ASSUME NEW S, NEW s \in Seq(S), NEW n \in 0 .. Len(s)
  PROVE  /\ SubSeq(s, 1, n) \in Seq(S)
         /\ Len(SubSeq(s, 1, n)) = n
         /\ DOMAIN SubSeq(s, 1, n) = 1 .. n
         /\ \A i \in 1 .. n : SubSeq(s, 1, n)[i] = s[i]
<1>1. Len(s) \in Nat /\ \A i \in 1 .. Len(s) : s[i] \in S
  BY LenProperties, ElementOfSeq
<1>2. n \in Int /\ \A i \in 1 .. n : s[i] \in S
  BY <1>1
<1>3. /\ SubSeq(s, 1, n) \in Seq(S)
      /\ Len(SubSeq(s, 1, n)) = IF 1 <= n THEN n - 1 + 1 ELSE 0
      /\ \A i \in 1 .. n - 1 + 1 : SubSeq(s, 1, n)[i] = s[1 + i - 1]
  BY <1>2, SubSeqProperties
<1>4. n - 1 + 1 = n /\ \A i \in 1 .. n : 1 + i - 1 = i
  BY <1>1
<1>5. Len(SubSeq(s, 1, n)) = n
  BY <1>1, <1>3
<1>6. QED
  BY <1>3, <1>4, <1>5, LenProperties

(* The members of what follows the prefix of length n.                      *)
LEMMA SuffixMembers ==
  ASSUME NEW S, NEW s \in Seq(S), NEW n \in 0 .. Len(s)
  PROVE  Range(SubSeq(s, n + 1, Len(s))) = { s[i] : i \in n + 1 .. Len(s) }
<1> DEFINE t == SubSeq(s, n + 1, Len(s))
<1>1. Len(s) \in Nat /\ \A i \in 1 .. Len(s) : s[i] \in S
  BY LenProperties, ElementOfSeq
<1>2. n + 1 \in Int /\ Len(s) \in Int /\ \A i \in n + 1 .. Len(s) : s[i] \in S
  BY <1>1
<1>3. /\ t \in Seq(S)
      /\ Len(t) = IF n + 1 <= Len(s) THEN Len(s) - (n + 1) + 1 ELSE 0
      /\ \A i \in 1 .. Len(s) - (n + 1) + 1 : t[i] = s[n + 1 + i - 1]
  BY <1>2, SubSeqProperties
<1>4. Len(t) = Len(s) - n
  BY <1>1, <1>3
<1>5. \A i \in 1 .. Len(s) - n : t[i] = s[n + i]
  <2>1. Len(s) - (n + 1) + 1 = Len(s) - n /\ \A i \in Nat : n + 1 + i - 1 = n + i
    BY <1>1
  <2>2. QED
    BY <2>1, <1>1, <1>3
<1>6. DOMAIN t = 1 .. Len(s) - n
  BY <1>3, <1>4, LenProperties
<1>7. Range(t) = { t[i] : i \in 1 .. Len(s) - n }
  BY <1>6 DEF Range
<1>8. ASSUME NEW i \in n + 1 .. Len(s) PROVE s[i] \in Range(t)
  <2>1. i - n \in 1 .. Len(s) - n /\ n + (i - n) = i
    BY <1>1
  <2>2. QED
    BY <2>1, <1>5, <1>7
<1>9. ASSUME NEW i \in 1 .. Len(s) - n PROVE t[i] \in { s[j] : j \in n + 1 .. Len(s) }
  <2>1. n + i \in n + 1 .. Len(s)
    BY <1>1
  <2>2. QED
    BY <2>1, <1>5
<1>10. QED
  BY <1>7, <1>8, <1>9
-----------------------------------------------------------------------------
(* The inductive invariant.                                                 *)

(* The program starts with no call and no continuation.                     *)
THEOREM InitInv == Init => IInv
<1> SUFFICES ASSUME Init PROVE IInv
  OBVIOUS
<1> USE DEF Init
<1>1. calls \in Seq(Cont) /\ Len(calls) = 0 /\ DOMAIN calls = {} /\ Active = {}
  BY EmptySeq DEF Active, Range
<1>2. TypeOK
  BY <1>1 DEF TypeOK, NoThrow
<1>3. QED
  BY <1>1, <1>2 DEF IInv, CallsMade, ActiveInPlace, StaleOnlyIfSkipped, Delivering

(* What IInv says of the sequence of calls: who is active, that an active   *)
(* call's continuation has been made and is not active twice.               *)
LEMMA CallsFacts ==
  ASSUME IInv
  PROVE  /\ Len(calls) \in Nat
         /\ DOMAIN calls = 1 .. Len(calls)
         /\ Active = { calls[i] : i \in 1 .. Len(calls) }
         /\ \A i \in 1 .. Len(calls) :
              calls[i] \in Cont /\ calls[i] \in made /\ env[calls[i]] = i
<1>1. calls \in Seq(Cont)
  BY DEF IInv, TypeOK
<1>2. Len(calls) \in Nat /\ DOMAIN calls = 1 .. Len(calls)
  BY <1>1, LenProperties
<1>3. Active = { calls[i] : i \in 1 .. Len(calls) }
  BY <1>2 DEF Active, Range
<1>4. ASSUME NEW i \in 1 .. Len(calls)
      PROVE  calls[i] \in Cont /\ calls[i] \in made /\ env[calls[i]] = i
  <2>1. calls[i] \in Cont
    BY <1>1, ElementOfSeq
  <2>2. calls[i] \in made
    BY <1>3 DEF IInv, CallsMade
  <2>3. env[calls[i]] = i
    BY <1>2 DEF IInv, ActiveInPlace
  <2>4. QED
    BY <2>1, <2>2, <2>3
<1>5. QED
  BY <1>2, <1>3, <1>4

(* A call begins.                                                           *)
LEMMA CallEcInv == ASSUME IInv, CallEc PROVE IInv'
<1> DEFINE n == Len(calls)
<1>1. PICK k \in Cont \ made :
        /\ made' = made \cup {k} /\ named' = named \cup {k}
        /\ calls' = Append(calls, k) /\ env' = [env EXCEPT ![k] = n + 1]
  BY DEF CallEc, Place
<1>2. /\ pc = "run" /\ thrown' = NoThrow
      /\ UNCHANGED <<freed, aux, pc, retval, skipped>>
  BY DEF CallEc
<1>3. /\ n \in Nat /\ DOMAIN calls = 1 .. n
      /\ \A i \in 1 .. n : calls[i] \in Cont /\ calls[i] \in made /\ env[calls[i]] = i
      /\ Active = { calls[i] : i \in 1 .. n }
  BY CallsFacts
<1>4. TypeOK
  BY DEF IInv
<1>5. /\ calls' \in Seq(Cont) /\ Len(calls') = n + 1 /\ DOMAIN calls' = 1 .. n + 1
      /\ \A i \in 1 .. n : calls'[i] = calls[i]
      /\ calls'[n + 1] = k
  <2>1. calls \in Seq(Cont) /\ k \in Cont
    BY <1>1, <1>4 DEF TypeOK
  <2>2. calls' \in Seq(Cont) /\ Len(calls') = n + 1
    BY <1>1, <2>1, AppendProperties
  <2>3. QED
    BY <1>1, <2>1, <2>2, AppendProperties, LenProperties
<1>6. env' \in [Cont -> Nat] /\ env'[k] = n + 1 /\ \A j \in Cont \ {k} : env'[j] = env[j]
  BY <1>1, <1>3, <1>4 DEF TypeOK
<1>7. Active' = Active \cup {k}
  <2>1. Active' = { calls'[i] : i \in 1 .. n + 1 }
    BY <1>5 DEF Active, Range
  <2>2. 1 .. n + 1 = (1 .. n) \cup {n + 1}
    BY <1>3
  <2>3. QED
    BY <2>1, <2>2, <1>3, <1>5
<1>8. TypeOK'
  BY <1>1, <1>2, <1>4, <1>5, <1>6 DEF TypeOK, NoThrow
<1>9. CallsMade'
  BY <1>1, <1>7 DEF IInv, CallsMade
<1>10. ActiveInPlace'
  <2>1. ASSUME NEW i \in 1 .. n + 1 PROVE env'[calls'[i]] = i
    <3>1. CASE i = n + 1
      BY <3>1, <1>5, <1>6
    <3>2. CASE i # n + 1
      <4>1. i \in 1 .. n
        BY <3>2, <1>3
      <4>2. calls'[i] = calls[i] /\ calls[i] \in Cont \ {k} /\ env[calls[i]] = i
        BY <4>1, <1>1, <1>3, <1>5
      <4>3. QED
        BY <4>2, <1>6
    <3>3. QED
      BY <3>1, <3>2
  <2>2. QED
    BY <2>1, <1>5 DEF ActiveInPlace
<1>11. StaleOnlyIfSkipped'
  <2>1. ASSUME NEW j \in made' \ Active', env'[j] # 0 PROVE j \in skipped'
    <3>1. j \in made \ Active /\ j # k /\ j \in Cont
      BY <1>1, <1>4, <1>7 DEF TypeOK
    <3>2. env[j] # 0
      BY <2>1, <3>1, <1>6
    <3>3. QED
      BY <3>1, <3>2, <1>2 DEF IInv, StaleOnlyIfSkipped
  <2>2. QED
    BY <2>1 DEF StaleOnlyIfSkipped
<1>12. Delivering'
  BY <1>2 DEF Delivering
<1>13. QED
  BY <1>8, <1>9, <1>10, <1>11, <1>12 DEF IInv

(* A call ends, by a return or by a throw, and clears its continuation.     *)
LEMMA EndCallInv ==
  ASSUME IInv, pc \in {"run", "landed"}, calls # <<>>, EndCall(Last(calls)),
         retval' \in Val \cup {Null},
         thrown' \in {thrown, NoThrow}
  PROVE  IInv'
<1> DEFINE n == Len(calls)
           k == Last(calls)
<1>1. TypeOK
  BY DEF IInv
<1>2. /\ n \in Nat /\ DOMAIN calls = 1 .. n
      /\ \A i \in 1 .. n : calls[i] \in Cont /\ calls[i] \in made /\ env[calls[i]] = i
      /\ Active = { calls[i] : i \in 1 .. n }
  BY CallsFacts
<1>3. n # 0 /\ k = calls[n] /\ k \in Cont /\ env[k] = n
  <2>1. n # 0
    BY <1>1, EmptySeq DEF TypeOK
  <2>2. n \in 1 .. n /\ k = calls[n]
    BY <2>1, <1>2 DEF Last
  <2>3. QED
    BY <2>1, <2>2, <1>2
<1>4. /\ calls' \in Seq(Cont) /\ DOMAIN calls' = 1 .. n - 1
      /\ \A i \in 1 .. n - 1 : calls'[i] = calls[i]
  <2>1. calls' = SubSeq(calls, 1, n - 1)
    BY DEF EndCall, Front
  <2>2. calls \in Seq(Cont) /\ n - 1 \in 0 .. Len(calls)
    BY <1>1, <1>2, <1>3 DEF TypeOK
  <2>3. QED
    BY <2>1, <2>2, PrefixProperties
<1>5. Active' = { calls[i] : i \in 1 .. n - 1 }
  BY <1>4 DEF Active, Range
<1>6. UNCHANGED <<made, freed, named, aux, skipped>>
  BY DEF EndCall, objVars
<1>7. \/ pc' = "overwritten" /\ env' = env
      \/ pc' = "run" /\ env' = [env EXCEPT ![k] = 0]
  BY DEF EndCall, Cleared
<1>8. env' \in [Cont -> Nat] /\ \A j \in Cont \ {k} : env'[j] = env[j]
  BY <1>1, <1>3, <1>7 DEF TypeOK
<1>9. TypeOK'
  BY <1>1, <1>4, <1>6, <1>7, <1>8 DEF TypeOK, NoThrow
<1>10. CallsMade'
  BY <1>2, <1>5, <1>6 DEF CallsMade
<1>11. ActiveInPlace'
  <2>1. ASSUME NEW i \in 1 .. n - 1 PROVE env'[calls'[i]] = i
    <3>1. i \in 1 .. n /\ i # n
      <4>1. n \in Nat
        BY <1>2
      <4>2. QED
        BY <4>1, <2>1
    <3>2. calls'[i] = calls[i] /\ env[calls[i]] = i /\ calls[i] \in Cont
      BY <3>1, <1>2, <1>4
    <3>3. calls[i] # k
      BY <3>1, <3>2, <1>3
    <3>4. QED
      BY <3>2, <3>3, <1>8
  <2>2. QED
    BY <2>1, <1>4 DEF ActiveInPlace
<1>12. StaleOnlyIfSkipped'
  <2>1. ASSUME pc' = "run", NEW j \in made' \ Active', env'[j] # 0 PROVE j \in skipped'
    <3>1. env' = [env EXCEPT ![k] = 0] /\ j \in Cont
      BY <2>1, <1>1, <1>6, <1>7 DEF TypeOK
    <3>2. j # k /\ env[j] # 0
      BY <2>1, <3>1, <1>1, <1>3 DEF TypeOK
    <3>3. j \notin Active
      <4>1. ASSUME NEW i \in 1 .. n, j = calls[i] PROVE i \in 1 .. n - 1
        BY <4>1, <3>2, <1>2, <1>3
      <4>2. QED
        BY <4>1, <2>1, <1>2, <1>5
    <3>4. QED
      BY <2>1, <3>2, <3>3, <1>6 DEF IInv, StaleOnlyIfSkipped
  <2>2. pc' \in {"run", "overwritten"}
    BY <1>7
  <2>3. QED
    BY <2>1, <2>2 DEF StaleOnlyIfSkipped
<1>13. Delivering'
  BY <1>7 DEF Delivering
<1>14. QED
  BY <1>9, <1>10, <1>11, <1>12, <1>13 DEF IInv
(* A throw unwinds the calls to the depth of the jmp_buf, if there is one.  *)
LEMMA ThrowInv == ASSUME IInv, Throw PROVE IInv'
<1> DEFINE n == Len(calls)
<1>1. TypeOK /\ StaleOnlyIfSkipped
  BY DEF IInv
<1>2. /\ n \in Nat /\ DOMAIN calls = 1 .. n
      /\ \A i \in 1 .. n : calls[i] \in Cont /\ calls[i] \in made /\ env[calls[i]] = i
      /\ Active = { calls[i] : i \in 1 .. n }
  BY CallsFacts
<1>3. pc = "run" /\ UNCHANGED <<made, freed, named, env, retval>>
  BY DEF Throw, objVars
<1>4. PICK k \in named, v \in Val :
        /\ env[k] # 0
        /\ aux' = [aux EXCEPT ![k] = v]
        /\ thrown' = [to |-> k, val |-> v]
        /\ \/ /\ env[k] <= n
              /\ calls' = SubSeq(calls, 1, env[k])
              /\ skipped' = skipped \cup Range(SubSeq(calls, env[k] + 1, n))
              /\ pc' = "landed"
           \/ pc' = "lost" /\ UNCHANGED <<calls, skipped>>
  BY DEF Throw, PutAux, Unwound
<1>5. k \in Cont /\ env[k] \in Nat \ {0} /\ k \in made
  BY <1>1, <1>4 DEF TypeOK
<1>6. /\ aux' \in [Cont -> Val \cup {Null}] /\ aux'[k] = v
      /\ thrown' \in [to : Cont \cup {Null}, val : Val \cup {Null}]
      /\ thrown'.to = k /\ thrown'.val = v
  BY <1>1, <1>4, <1>5 DEF TypeOK
<1>7. CASE pc' = "lost" /\ UNCHANGED <<calls, skipped>>
  <2>1. TypeOK'
    BY <1>1, <1>3, <1>6, <1>7 DEF TypeOK
  <2>2. CallsMade' /\ ActiveInPlace'
    BY <1>3, <1>7 DEF IInv, CallsMade, ActiveInPlace, Active
  <2>3. StaleOnlyIfSkipped' /\ Delivering'
    BY <1>7 DEF StaleOnlyIfSkipped, Delivering
  <2>4. QED
    BY <2>1, <2>2, <2>3 DEF IInv
<1>8. CASE /\ env[k] <= n
           /\ calls' = SubSeq(calls, 1, env[k])
           /\ skipped' = skipped \cup Range(SubSeq(calls, env[k] + 1, n))
           /\ pc' = "landed"
  <2> DEFINE m == env[k]
  <2>1. m \in 1 .. n /\ m \in 0 .. n
    BY <1>2, <1>5, <1>8
  <2>2. /\ calls' \in Seq(Cont) /\ Len(calls') = m /\ DOMAIN calls' = 1 .. m
        /\ \A i \in 1 .. m : calls'[i] = calls[i]
    <3>1. calls \in Seq(Cont)
      BY <1>1 DEF TypeOK
    <3>2. QED
      BY <3>1, <2>1, <1>8, PrefixProperties
  <2>3. Active' = { calls[i] : i \in 1 .. m }
    BY <2>2 DEF Active, Range
  <2>4. skipped' = skipped \cup { calls[i] : i \in m + 1 .. n }
    <3>1. calls \in Seq(Cont)
      BY <1>1 DEF TypeOK
    <3>2. QED
      BY <3>1, <2>1, <1>8, SuffixMembers
  <2>5. 1 .. n = (1 .. m) \cup (m + 1 .. n)
    BY <2>1, <1>2
  <2>6. TypeOK'
    <3>1. skipped' \in SUBSET made'
      BY <1>1, <1>2, <1>3, <2>4, <2>5 DEF TypeOK
    <3>2. calls' # <<>>
      BY <2>1, <2>2, EmptySeq
    <3>3. QED
      BY <3>1, <3>2, <1>1, <1>3, <1>6, <1>8, <2>2 DEF TypeOK
  <2>7. CallsMade'
    BY <1>2, <1>3, <2>3, <2>5 DEF CallsMade
  <2>8. ActiveInPlace'
    BY <1>2, <1>3, <2>2, <2>5 DEF ActiveInPlace
  <2>9. StaleOnlyIfSkipped'
    <3>1. ASSUME NEW j \in made \ Active', env[j] # 0 PROVE j \in skipped'
      <4>1. CASE j \in Active
        BY <4>1, <3>1, <1>2, <2>3, <2>4, <2>5
      <4>2. CASE j \notin Active
        BY <4>2, <3>1, <1>1, <1>3, <2>4 DEF StaleOnlyIfSkipped
      <4>3. QED
        BY <4>1, <4>2
    <3>2. QED
      BY <3>1, <1>3 DEF StaleOnlyIfSkipped
  <2>10. Delivering'
    <3>1. ASSUME k \notin skipped' PROVE Last(calls') = k
      <4>1. k \in Active
        BY <3>1, <1>1, <1>3, <1>4, <1>5, <2>4 DEF StaleOnlyIfSkipped
      <4>2. PICK i \in 1 .. n : k = calls[i]
        BY <4>1, <1>2
      <4>3. i = m
        BY <4>2, <1>2
      <4>4. QED
        BY <4>2, <4>3, <2>1, <2>2 DEF Last
    <3>2. QED
      BY <3>1, <1>5, <1>6 DEF Delivering
  <2>11. QED
    BY <2>6, <2>7, <2>8, <2>9, <2>10 DEF IInv
<1>9. QED
  BY <1>4, <1>7, <1>8

(* The steps that leave the calls and the continuations' env as they are.   *)
LEMMA OtherStepsInv ==
  ASSUME IInv,
         UNCHANGED <<calls, made, env, retval, skipped>>,
         \/ Lose \/ Collect \/ ThrowOutside \/ Refuse
  PROVE  IInv'
<1>1. TypeOK
  BY DEF IInv
<1>2. pc = "run" /\ pc' \in {"run", "lost", "fatal"}
  BY DEF Lose, Collect, ThrowOutside, Refuse
<1>3. TypeOK'
  <2>1. CASE Lose
    BY <2>1, <1>1, <1>2 DEF Lose, TypeOK
  <2>2. CASE Collect
    BY <2>2, <1>1, <1>2 DEF Collect, TypeOK
  <2>3. CASE ThrowOutside
    BY <2>3, <1>1, <1>2 DEF ThrowOutside, objVars, TypeOK
  <2>4. CASE Refuse
    BY <2>4, <1>1, <1>2 DEF Refuse, objVars, TypeOK
  <2>5. QED
    BY <2>1, <2>2, <2>3, <2>4
<1>4. CallsMade' /\ ActiveInPlace'
  BY DEF IInv, CallsMade, ActiveInPlace, Active
<1>5. StaleOnlyIfSkipped'
  BY <1>2 DEF IInv, StaleOnlyIfSkipped, Active
<1>6. Delivering'
  BY <1>2 DEF Delivering
<1>7. QED
  BY <1>3, <1>4, <1>5, <1>6 DEF IInv

(* Every step keeps the invariant.                                          *)
THEOREM NextInv == IInv /\ [Next]_vars => IInv'
<1> SUFFICES ASSUME IInv, [Next]_vars PROVE IInv'
  OBVIOUS
<1>1. CASE CallEc
  BY <1>1, CallEcInv
<1>2. CASE Lose \/ Collect \/ ThrowOutside \/ Refuse
  <2>1. UNCHANGED <<calls, made, env, retval, skipped>>
    BY <1>2 DEF Lose, Collect, ThrowOutside, Refuse, objVars
  <2>2. QED
    BY <2>1, <1>2, OtherStepsInv
<1>3. CASE Return
  <2>1. /\ pc \in {"run", "landed"} /\ calls # <<>> /\ EndCall(Last(calls))
        /\ retval' \in Val \cup {Null} /\ thrown' \in {thrown, NoThrow}
    BY <1>3 DEF Return
  <2>2. QED
    BY <2>1, EndCallInv
<1>4. CASE Land
  <2>1. pc = "landed" /\ calls # <<>> /\ calls \in Seq(Cont)
    BY <1>4 DEF Land, IInv, TypeOK
  <2>2. Last(calls) \in Cont
    <3>1. Len(calls) \in 1 .. Len(calls)
      BY <2>1, LenProperties, EmptySeq
    <3>2. QED
      BY <3>1, <2>1, ElementOfSeq DEF Last
  <2>3. /\ EndCall(Last(calls))
        /\ retval' \in Val \cup {Null} /\ thrown' \in {thrown, NoThrow}
    BY <1>4, <2>2 DEF Land, IInv, TypeOK
  <2>4. QED
    BY <2>1, <2>3, EndCallInv
<1>5. CASE Throw
  BY <1>5, ThrowInv
<1>6. CASE Stopped \/ UNCHANGED vars
  <2>1. UNCHANGED vars
    BY <1>6 DEF Stopped
  <2>2. QED
    BY <2>1 DEF vars, objVars, IInv, TypeOK, CallsMade, ActiveInPlace,
                StaleOnlyIfSkipped, Delivering, Active
<1>7. QED
  BY <1>1, <1>2, <1>3, <1>4, <1>5, <1>6 DEF Next

(* The invariant holds throughout.                                          *)
THEOREM Invariance == Spec => []IInv
<1>1. QED
  BY InitInv, NextInv, PTL DEF Spec

(* The jmp_buf of an active call is where its continuation says.            *)
THEOREM Placement == Spec => []ActiveInPlace
<1>1. IInv => ActiveInPlace
  BY DEF IInv
<1>2. QED
  BY <1>1, Invariance, PTL

(* Only a throw to an outer call leaves a continuation with a stale env.    *)
THEOREM Staleness == Spec => []StaleOnlyIfSkipped
<1>1. IInv => StaleOnlyIfSkipped
  BY DEF IInv
<1>2. QED
  BY <1>1, Invariance, PTL

(* A throw to a call no other throw has skipped makes it return the value.  *)
THEOREM Delivery == Spec => ThrowDelivers
<1> DEFINE Step == pc = "landed" /\ pc' = "run" /\ thrown.to \notin skipped =>
                     /\ retval' = thrown.val
                     /\ calls' = Front(calls) /\ Last(calls) = thrown.to
<1>1. IInv /\ [Next]_vars => [Step]_vars
  <2> SUFFICES ASSUME IInv, Next, pc = "landed", pc' = "run", thrown.to \notin skipped
               PROVE  /\ retval' = thrown.val
                      /\ calls' = Front(calls) /\ Last(calls) = thrown.to
    OBVIOUS
  <2>1. Land
    BY DEF Next, CallEc, Lose, Collect, Return, Throw, ThrowOutside, Refuse, Stopped
  <2>2. aux[thrown.to] = thrown.val /\ Last(calls) = thrown.to
    BY DEF IInv, Delivering
  <2>3. QED
    BY <2>1, <2>2 DEF Land, EndCall
<1>2. Spec => [][Step]_vars
  BY <1>1, Invariance, PTL DEF Spec
<1>3. QED
  BY <1>2 DEF ThrowDelivers
=============================================================================
