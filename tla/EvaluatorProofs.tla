--------------------------- MODULE EvaluatorProofs ---------------------------
(* Proofs about Evaluator, for every program and all files: where the       *)
(* waiting C functions have their frames is an invariant, and from it       *)
(* follow the layout of applications, the room of tail calls, and that a    *)
(* step leaves the frames of the waiting functions alone.  For all files    *)
(* that bison can make of a text, whatever the program computes is an       *)
(* object whose parts are objects, and what a C local refers to while       *)
(* eval_frame runs is in a slot of the shadow stack.  This needs the        *)
(* former, since a local is a piece of an expression and an expression may  *)
(* be computed.                                                             *)
EXTENDS Evaluator, SequenceTheorems, FiniteSetTheorems, TLAPS

-----------------------------------------------------------------------------
(* Sequences of whatever there is.                                          *)

(* A sequence over any set is one.                                          *)
LEMMA SeqIsSeq ==
  ASSUME NEW S, NEW s \in Seq(S)
  PROVE  IsSeq(s)
<1>1. Len(s) \in Nat /\ s \in [1 .. Len(s) -> S] /\ DOMAIN s = 1 .. Len(s)
  BY LenProperties
<1>2. \A i \in 1 .. Len(s) : s[i] \in Range(s)
  BY <1>1 DEF Range
<1>3. s \in [1 .. Len(s) -> Range(s)]
  BY <1>1, <1>2
<1>4. s \in Seq(Range(s))
  BY <1>1, <1>3, SeqDef
<1>5. QED
  BY <1>4 DEF IsSeq

(* What is known of one.                                                    *)
LEMMA IsSeqProperties ==
  ASSUME NEW s, IsSeq(s)
  PROVE  /\ Len(s) \in Nat
         /\ DOMAIN s = 1 .. Len(s)
         /\ \A i \in 1 .. Len(s) : s[i] \in Range(s)
         /\ s = <<>> <=> Len(s) = 0
<1>1. s \in Seq(Range(s))
  BY DEF IsSeq
<1>2. Len(s) \in Nat /\ DOMAIN s = 1 .. Len(s) /\ \A i \in 1 .. Len(s) : s[i] \in Range(s)
  BY <1>1, LenProperties, ElementOfSeq
<1>3. s = <<>> <=> Len(s) = 0
  BY <1>1, EmptySeq
<1>4. QED
  BY <1>2, <1>3

(* The first n slots of s.                                                  *)
LEMMA Prefix ==
  ASSUME NEW s, IsSeq(s), NEW n \in 0 .. Len(s)
  PROVE  /\ IsSeq(SubSeq(s, 1, n))
         /\ Len(SubSeq(s, 1, n)) = n
         /\ \A i \in 1 .. n : SubSeq(s, 1, n)[i] = s[i]
<1>1. Len(s) \in Nat /\ \A i \in 1 .. Len(s) : s[i] \in Range(s)
  BY IsSeqProperties
<1>2. n \in Int /\ \A i \in 1 .. n : s[i] \in Range(s)
  BY <1>1
<1>3. /\ SubSeq(s, 1, n) \in Seq(Range(s))
      /\ Len(SubSeq(s, 1, n)) = IF 1 <= n THEN n - 1 + 1 ELSE 0
      /\ \A i \in 1 .. n - 1 + 1 : SubSeq(s, 1, n)[i] = s[1 + i - 1]
  BY <1>2, SubSeqProperties
<1>4. n - 1 + 1 = n /\ \A i \in 1 .. n : 1 + i - 1 = i
  BY <1>1
<1>5. Len(SubSeq(s, 1, n)) = n
  BY <1>1, <1>3
<1>6. QED
  BY <1>3, <1>4, <1>5, SeqIsSeq

(* Slots added at the end.                                                  *)
LEMMA Pushed ==
  ASSUME NEW s, IsSeq(s), NEW t, IsSeq(t)
  PROVE  /\ IsSeq(s \o t)
         /\ Len(s \o t) = Len(s) + Len(t)
         /\ \A i \in 1 .. Len(s) : (s \o t)[i] = s[i]
         /\ \A i \in 1 .. Len(t) : (s \o t)[Len(s) + i] = t[i]
<1> DEFINE S == Range(s) \cup Range(t)
<1>1. s \in Seq(S) /\ t \in Seq(S)
  BY SeqMonotonic DEF IsSeq
<1>2. Len(s) \in Nat /\ Len(t) \in Nat
  BY IsSeqProperties
<1>3. /\ s \o t \in Seq(S)
      /\ Len(s \o t) = Len(s) + Len(t)
      /\ \A i \in 1 .. Len(s) + Len(t) :
           (s \o t)[i] = IF i <= Len(s) THEN s[i] ELSE t[i - Len(s)]
  BY <1>1, ConcatProperties
<1>4. \A i \in 1 .. Len(s) : (s \o t)[i] = s[i]
  BY <1>2, <1>3
<1>5. ASSUME NEW i \in 1 .. Len(t) PROVE (s \o t)[Len(s) + i] = t[i]
  <2>1. Len(s) + i \in 1 .. Len(s) + Len(t) /\ ~ Len(s) + i <= Len(s) /\ Len(s) + i - Len(s) = i
    BY <1>2
  <2>2. QED
    BY <2>1, <1>3
<1>6. QED
  BY <1>3, <1>4, <1>5, SeqIsSeq

LEMMA PushedOne ==
  ASSUME NEW s, IsSeq(s), NEW x
  PROVE  /\ IsSeq(Append(s, x))
         /\ Len(Append(s, x)) = Len(s) + 1
         /\ \A i \in 1 .. Len(s) : Append(s, x)[i] = s[i]
         /\ Append(s, x)[Len(s) + 1] = x
<1> DEFINE S == Range(s) \cup {x}
<1>1. s \in Seq(S) /\ x \in S
  BY SeqMonotonic DEF IsSeq
<1>2. Append(s, x) \in Seq(S)
  BY <1>1
<1>3. Len(s) \in Nat
  BY IsSeqProperties
<1>4. /\ Len(Append(s, x)) = Len(s) + 1
      /\ \A i \in 1 .. Len(s) : Append(s, x)[i] = s[i]
      /\ Append(s, x)[Len(s) + 1] = x
  BY <1>1, <1>3
<1>5. QED
  BY <1>2, <1>4, SeqIsSeq

LEMMA Tuples ==
  ASSUME NEW x, NEW y, NEW z
  PROVE  /\ IsSeq(<<x, y>>) /\ Len(<<x, y>>) = 2
         /\ IsSeq(<<x, y, z>>) /\ Len(<<x, y, z>>) = 3
<1>1. <<x, y>> \in Seq({x, y, z}) /\ <<x, y, z>> \in Seq({x, y, z})
  OBVIOUS
<1>2. QED
  BY <1>1, SeqIsSeq

(* A slot written to.                                                       *)
LEMMA Written ==
  ASSUME NEW s, IsSeq(s), NEW k \in 1 .. Len(s), NEW x
  PROVE  /\ IsSeq([s EXCEPT ![k] = x])
         /\ Len([s EXCEPT ![k] = x]) = Len(s)
         /\ \A i \in 1 .. Len(s) : i # k => [s EXCEPT ![k] = x][i] = s[i]
<1> DEFINE S == Range(s) \cup {x}
<1>1. s \in Seq(S) /\ x \in S
  BY SeqMonotonic DEF IsSeq
<1>2. /\ [s EXCEPT ![k] = x] \in Seq(S)
      /\ Len([s EXCEPT ![k] = x]) = Len(s)
      /\ \A j \in 1 .. Len(s) : [s EXCEPT ![k] = x][j] = IF j = k THEN x ELSE s[j]
  BY <1>1, ExceptSeq
<1>3. IsSeq([s EXCEPT ![k] = x])
  BY <1>2, SeqIsSeq
<1>4. QED
  BY <1>2, <1>3

(* The same, of a sequence that has been given another name.                *)
LEMMA IsWritten ==
  ASSUME NEW s, IsSeq(s), NEW k \in 1 .. Len(s), NEW x, NEW u, u = [s EXCEPT ![k] = x]
  PROVE  /\ IsSeq(u) /\ Len(u) = Len(s)
         /\ \A i \in 1 .. Len(s) : i # k => u[i] = s[i]
<1>1. IsSeq(u)
  BY Written
<1>2. Len(u) = Len(s)
  BY Written
<1>3. \A i \in 1 .. Len(s) : i # k => u[i] = s[i]
  BY Written
<1>4. QED
  BY <1>1, <1>2, <1>3

LEMMA IsPushed ==
  ASSUME NEW s, IsSeq(s), NEW t, IsSeq(t), NEW u, u = s \o t
  PROVE  /\ IsSeq(u) /\ Len(u) = Len(s) + Len(t)
         /\ \A i \in 1 .. Len(s) : u[i] = s[i]
         /\ \A i \in 1 .. Len(t) : u[Len(s) + i] = t[i]
BY Pushed

-----------------------------------------------------------------------------
(* The frames of the waiting functions.                                     *)

(* t has the first n slots of s.                                            *)
Has(t, s, n) == IsSeq(t) /\ n <= Len(t) /\ \A i \in 1 .. n : t[i] = s[i]

(* No frame of a waiting function lies above the innermost one.             *)
LEMMA FramesUnderTop ==
  ASSUME NEW ws, NEW s, Frames(ws, s)
  PROVE  /\ Len(ws) \in Nat /\ Len(s) \in Nat /\ Top(ws) \in Nat
         /\ \A j \in 0 .. Len(ws) : Below(ws, j) \in Nat /\ Below(ws, j) <= Top(ws)
         /\ \A j \in 1 .. Len(ws) : ws[j].height \in Nat /\ ws[j].height <= Top(ws)
<1>1. Len(ws) \in Nat /\ Len(s) \in Nat /\ (ws = <<>> <=> Len(ws) = 0)
  BY IsSeqProperties DEF Frames
<1>2. \A j \in 1 .. Len(ws) : ws[j].height \in Nat
  BY DEF Frames, IsAct
<1>3. \A j \in 1 .. Len(ws) : j < Len(ws) => ws[j].height < ws[Len(ws)].height
  <2>1. Len(ws) # 0 => Len(ws) \in 1 .. Len(ws)
    BY <1>1
  <2>2. QED
    BY <1>1, <2>1 DEF Frames
<1>4. Below(ws, 0) = 5 /\ \A j \in 1 .. Len(ws) : Below(ws, j) = ws[j].height
  BY <1>1 DEF Below
<1>5. CASE Len(ws) = 0
  BY <1>1, <1>4, <1>5 DEF Top
<1>6. CASE Len(ws) # 0
  <2>1. 1 \in 1 .. Len(ws) /\ Len(ws) \in 1 .. Len(ws)
    BY <1>1, <1>6
  <2>2. Top(ws) = ws[Len(ws)].height
    BY <1>4, <2>1 DEF Top
  <2>3. ws[1].at = "load" /\ Placed(ws[1].at, Below(ws, 0), ws[1].height, s, ws[1].locals)
    <3>1. 1 - 1 = 0
      OBVIOUS
    <3>2. QED
      BY <1>1, <1>6, <2>1, <3>1 DEF Frames
  <2>4. ws[1].height >= 8
    BY <2>3, <1>4 DEF Placed
  <2>5. \A j \in 1 .. Len(ws) : ws[j].height <= Top(ws)
    BY <1>1, <1>2, <1>3, <2>1, <2>2
  <2>6. \A j \in 0 .. Len(ws) : Below(ws, j) \in Nat /\ Below(ws, j) <= Top(ws)
    <3>1. 5 <= Top(ws) /\ Top(ws) \in Nat
      BY <1>2, <2>1, <2>2, <2>4, <2>5
    <3>2. \A j \in 0 .. Len(ws) : j = 0 \/ j \in 1 .. Len(ws)
      BY <1>1
    <3>3. QED
      BY <1>2, <1>4, <2>5, <3>1, <3>2
  <2>7. QED
    BY <1>1, <1>2, <2>1, <2>2, <2>5, <2>6
<1>7. QED
  BY <1>5, <1>6

(* What a function that waits can rely on depends on its own slots only.    *)
LEMMA PlacedKept ==
  ASSUME NEW at \in Waiting, NEW below, NEW h \in Nat, NEW s, NEW t, NEW l, IsLocals(l),
         Placed(at, below, h, s, l), \A i \in 1 .. h : t[i] = s[i]
  PROVE  Placed(at, below, h, t, l)
<1>1. at # "apply" /\ at # "push" /\ at # "arguments"
  BY DEF Waiting, CallEcName
<1>2. CASE at = "argument"
  <2>1. LaidOut(s, h, l)
    BY <1>2 DEF Placed
  <2>2. l.orig + 1 \in 1 .. h
    BY <2>1 DEF LaidOut, IsLocals
  <2>3. LaidOut(t, h, l)
    BY <2>1, <2>2 DEF LaidOut
  <2>4. QED
    BY <1>2, <2>3 DEF Placed, CallEcName
<1>3. CASE at # "argument"
  BY <1>1, <1>3 DEF Placed
<1>4. QED
  BY <1>2, <1>3

(* A stack that has the slots of all frames will do as well.                *)
LEMMA FramesSame ==
  ASSUME NEW ws, NEW s, Frames(ws, s), NEW t, Has(t, s, Top(ws))
  PROVE  Frames(ws, t)
<1>1. ASSUME NEW j \in 1 .. Len(ws)
      PROVE  Placed(ws[j].at, Below(ws, j - 1), ws[j].height, t, ws[j].locals)
  <2>1. /\ ws[j].at \in Waiting /\ IsLocals(ws[j].locals)
        /\ Placed(ws[j].at, Below(ws, j - 1), ws[j].height, s, ws[j].locals)
    BY DEF Frames, IsAct
  <2>2. ws[j].height \in Nat /\ ws[j].height <= Top(ws) /\ Top(ws) \in Nat
    BY FramesUnderTop
  <2>3. \A i \in 1 .. ws[j].height : t[i] = s[i]
    BY <2>2 DEF Has
  <2>4. QED
    BY <2>1, <2>2, <2>3, PlacedKept
<1>2. QED
  BY <1>1 DEF Frames, Has

(* One function more waits.                                                 *)
LEMMA FramesPush ==
  ASSUME NEW ws, NEW s, Frames(ws, s), NEW t, Has(t, s, Top(ws)),
         NEW a, IsAct(a), ws = <<>> => a.at = "load",
         Placed(a.at, Top(ws), a.height, t, a.locals),
         Top(ws) < a.height, a.height <= Len(t)
  PROVE  /\ Frames(Append(ws, a), t)
         /\ Top(Append(ws, a)) = a.height
         /\ Append(ws, a) # <<>>
<1> DEFINE bs == Append(ws, a)
           n == Len(ws)
<1>1. Frames(ws, t)
  BY FramesSame
<1>2. IsSeq(bs) /\ Len(bs) = n + 1 /\ (\A j \in 1 .. n : bs[j] = ws[j]) /\ bs[n + 1] = a
  BY PushedOne DEF Frames
<1>3. n \in Nat /\ Top(ws) \in Nat /\ a.height \in Nat /\ (ws = <<>> <=> n = 0)
  BY FramesUnderTop, IsSeqProperties DEF IsAct, Frames
<1>4. bs # <<>>
  BY <1>2, <1>3, IsSeqProperties
<1>5. Top(bs) = a.height
  BY <1>2, <1>3 DEF Top, Below
<1>6. bs[1].at = "load"
  <2>1. CASE n = 0
    BY <1>2, <1>3, <2>1
  <2>2. CASE n # 0
    BY <1>1, <1>2, <1>3, <2>2 DEF Frames
  <2>3. QED
    BY <2>1, <2>2
<1>7. \A j \in 0 .. n : Below(bs, j) = Below(ws, j)
  BY <1>2, <1>3 DEF Below
<1>8. ASSUME NEW j \in 1 .. n + 1
      PROVE  IsAct(bs[j]) /\ Placed(bs[j].at, Below(bs, j - 1), bs[j].height, t, bs[j].locals)
  <2>1. CASE j = n + 1
    <3>1. j - 1 = n /\ n \in 0 .. n
      BY <1>3, <2>1
    <3>2. Below(bs, j - 1) = Top(ws)
      BY <3>1, <1>7 DEF Top
    <3>3. QED
      BY <1>2, <2>1, <3>2
  <2>2. CASE j # n + 1
    <3>1. j \in 1 .. n /\ j - 1 \in 0 .. n
      BY <1>3, <2>2
    <3>2. QED
      BY <1>1, <1>2, <1>7, <3>1 DEF Frames
  <2>3. QED
    BY <2>1, <2>2
<1>9. ASSUME NEW i \in 1 .. n + 1, NEW j \in 1 .. n + 1, i < j
      PROVE  bs[i].height < bs[j].height
  <2>1. i \in 1 .. n
    BY <1>3, <1>9
  <2>2. CASE j = n + 1
    <3>1. ws[i].height \in Nat /\ ws[i].height <= Top(ws)
      BY <2>1, FramesUnderTop
    <3>2. QED
      BY <1>2, <1>3, <2>1, <2>2, <3>1
  <2>3. CASE j # n + 1
    <3>1. j \in 1 .. n
      BY <1>3, <2>3
    <3>2. QED
      BY <1>1, <1>2, <1>9, <2>1, <3>1 DEF Frames
  <2>4. QED
    BY <2>2, <2>3
<1>10. Frames(bs, t)
  BY <1>1, <1>2, <1>5, <1>6, <1>8, <1>9 DEF Frames
<1>11. QED
  BY <1>4, <1>5, <1>10

(* Only the first n functions wait.                                         *)
LEMMA FramesPop ==
  ASSUME NEW ws, NEW s, Frames(ws, s), NEW n \in 0 .. Len(ws)
  PROVE  /\ Frames(SubSeq(ws, 1, n), s)
         /\ Top(SubSeq(ws, 1, n)) = Below(ws, n)
         /\ SubSeq(ws, 1, n) = <<>> <=> n = 0
<1> DEFINE bs == SubSeq(ws, 1, n)
<1>1. IsSeq(bs) /\ Len(bs) = n /\ (\A j \in 1 .. n : bs[j] = ws[j])
  BY Prefix DEF Frames
<1>2. Len(ws) \in Nat /\ n \in Nat /\ n <= Len(ws) /\ (bs = <<>> <=> n = 0)
  BY <1>1, FramesUnderTop, IsSeqProperties
<1>3. \A j \in 0 .. n : Below(bs, j) = Below(ws, j)
  BY <1>1, <1>2 DEF Below
<1>4. Top(bs) = Below(ws, n)
  BY <1>1, <1>2, <1>3 DEF Top
<1>5. Top(bs) <= Len(s)
  BY <1>2, <1>4, FramesUnderTop DEF Frames
<1>6. bs # <<>> => bs[1].at = "load"
  <2>1. n # 0 => 1 \in 1 .. n /\ ws # <<>>
    BY <1>2, IsSeqProperties DEF Frames
  <2>2. QED
    BY <1>1, <1>2, <2>1 DEF Frames
<1>7. ASSUME NEW j \in 1 .. n
      PROVE  IsAct(bs[j]) /\ Placed(bs[j].at, Below(bs, j - 1), bs[j].height, s, bs[j].locals)
  <2>1. j \in 1 .. Len(ws) /\ j - 1 \in 0 .. n
    BY <1>2
  <2>2. QED
    BY <1>1, <1>3, <2>1 DEF Frames
<1>8. ASSUME NEW i \in 1 .. n, NEW j \in 1 .. n, i < j
      PROVE  bs[i].height < bs[j].height
  <2>1. i \in 1 .. Len(ws) /\ j \in 1 .. Len(ws)
    BY <1>2
  <2>2. ws[i].height < ws[j].height
    BY <1>8, <2>1 DEF Frames
  <2>3. QED
    BY <1>1, <2>2
<1>9. QED
  BY <1>1, <1>2, <1>4, <1>5, <1>6, <1>7, <1>8 DEF Frames

(* Slots that are kept are kept frame by frame.                             *)
LEMMA SlotsIntact ==
  ASSUME NEW ws, NEW s, Frames(ws, s), NEW t, NEW j \in 1 .. Len(ws), Has(t, s, ws[j].height)
  PROVE  SubSeq(t, 1, ws[j].height) = SubSeq(s, 1, ws[j].height)
<1> DEFINE h == ws[j].height
           T == Range(SubSeq(t, 1, h)) \cup Range(SubSeq(s, 1, h))
<1>1. h \in Nat /\ h <= Len(s) /\ Len(s) \in Nat /\ IsSeq(s)
  BY FramesUnderTop DEF Frames
<1>2. h <= Len(t) /\ Len(t) \in Nat /\ IsSeq(t) /\ \A i \in 1 .. h : t[i] = s[i]
  BY IsSeqProperties DEF Has
<1>3. /\ IsSeq(SubSeq(s, 1, h)) /\ Len(SubSeq(s, 1, h)) = h
      /\ \A i \in 1 .. h : SubSeq(s, 1, h)[i] = s[i]
  BY <1>1, Prefix
<1>4. /\ IsSeq(SubSeq(t, 1, h)) /\ Len(SubSeq(t, 1, h)) = h
      /\ \A i \in 1 .. h : SubSeq(t, 1, h)[i] = t[i]
  BY <1>1, <1>2, Prefix
<1>5. SubSeq(s, 1, h) \in Seq(T) /\ SubSeq(t, 1, h) \in Seq(T)
  BY <1>3, <1>4, SeqMonotonic DEF IsSeq
<1>6. QED
  BY <1>2, <1>3, <1>4, <1>5, SeqEqual

-----------------------------------------------------------------------------
(* How the slots change.                                                    *)

(* frame_extend adds three slots and leaves the others alone.               *)
LEMMA FrameAdded ==
  ASSUME NEW s, IsSeq(s), NEW x
  PROVE  /\ IsSeq(Frame(s, x)) /\ Len(Frame(s, x)) = Len(s) + 3
         /\ \A i \in 1 .. Len(s) : Frame(s, x)[i] = s[i]
<1> DEFINE t == <<x, Fp(Len(s)), frame_env(s)>>
<1>1. IsSeq(t) /\ Len(t) = 3
  BY Tuples
<1>2. Frame(s, x) = s \o t
  BY DEF Frame
<1> HIDE DEF t
<1>3. /\ IsSeq(s \o t) /\ Len(s \o t) = Len(s) + Len(t)
      /\ \A i \in 1 .. Len(s) : (s \o t)[i] = s[i]
  BY <1>1, Pushed
<1>4. QED
  BY <1>1, <1>2, <1>3

(* The slot of a frame is none of those below the frame.                    *)
LEMMA SlotWritten ==
  ASSUME NEW s, IsSeq(s), Len(s) >= 3, NEW x
  PROVE  /\ IsSeq(SetSlot(s, x)) /\ Len(SetSlot(s, x)) = Len(s)
         /\ \A i \in 1 .. Len(s) - 3 : SetSlot(s, x)[i] = s[i]
<1>1. Len(s) \in Nat
  BY IsSeqProperties
<1>2. Len(s) - 2 \in 1 .. Len(s) /\ \A i \in 1 .. Len(s) - 3 : i \in 1 .. Len(s) /\ i # Len(s) - 2
  BY <1>1
<1> DEFINE k == Len(s) - 2
<1>3. SetSlot(s, x) = [s EXCEPT ![k] = x]
  BY DEF SetSlot
<1>4. /\ IsSeq([s EXCEPT ![k] = x])
      /\ Len([s EXCEPT ![k] = x]) = Len(s)
      /\ \A i \in 1 .. Len(s) : i # k => [s EXCEPT ![k] = x][i] = s[i]
  BY <1>2, Written
<1>5. QED
  BY <1>2, <1>3, <1>4

-----------------------------------------------------------------------------
(* The patterns of steps.                                                   *)

(* What FramesIntact says of a step.                                        *)
Intact == \A j \in 1 .. Len(acts) :
            (j <= Len(acts') /\ acts'[j] = acts[j])
              => SubSeq(stack', 1, acts[j].height) = SubSeq(stack, 1, acts[j].height)

(* Facts about the state that the steps start from.                         *)
LEMMA StateFacts ==
  ASSUME IInv
  PROVE  /\ IsSeq(stack) /\ Len(stack) \in Nat /\ Top(acts) \in Nat
         /\ Top(acts) <= Len(stack)
         /\ IsLocals(locals)
         /\ {locals.orig, locals.argc, locals.i, locals.evals} \subseteq Nat
         /\ Has(stack, stack, Top(acts))
<1>1. Frames(acts, stack) /\ IsLocals(locals)
  BY DEF IInv
<1>2. QED
  BY <1>1, FramesUnderTop DEF Frames, Has, IsLocals

(* A step that keeps the slots of the waiting functions is harmless.        *)
LEMMA KeptIntact ==
  ASSUME IInv, Has(stack', stack, Top(acts))
  PROVE  Intact
<1> SUFFICES ASSUME NEW j \in 1 .. Len(acts)
             PROVE  SubSeq(stack', 1, acts[j].height) = SubSeq(stack, 1, acts[j].height)
  BY DEF Intact
<1>1. Frames(acts, stack)
  BY DEF IInv
<1>2. acts[j].height \in Nat /\ acts[j].height <= Top(acts) /\ Top(acts) \in Nat
  BY <1>1, FramesUnderTop
<1>3. Has(stack', stack, acts[j].height)
  <2>1. Len(stack') \in Nat /\ IsSeq(stack') /\ Top(acts) <= Len(stack')
    BY IsSeqProperties DEF Has
  <2>2. QED
    BY <1>2, <2>1 DEF Has
<1>4. QED
  BY <1>1, <1>3, SlotsIntact

(* The process ends.                                                        *)
LEMMA StepStops ==
  ASSUME IInv, pc' \in {"fatal", "lost"}, acts # <<>>, UNCHANGED <<stack, acts, locals>>
  PROVE  IInv' /\ Intact
<1>1. Intact
  BY StateFacts, KeptIntact
<1>2. Placed(pc', Top(acts), Len(stack), stack, locals)
  BY DEF Placed, CallEcName
<1>3. QED
  BY <1>1, <1>2 DEF IInv

(* eval_frame goes on, with its frame somewhere above the waiting ones.     *)
LEMMA StepRuns ==
  ASSUME IInv, acts # <<>>, acts' = acts, Has(stack', stack, Top(acts)),
         IsLocals(locals)', pc' \in Running,
         Placed(pc', Top(acts), Len(stack'), stack', locals')
  PROVE  IInv' /\ Intact
<1>1. Intact
  BY KeptIntact
<1>2. Frames(acts, stack')
  BY FramesSame DEF IInv
<1>3. QED
  BY <1>1, <1>2 DEF IInv

(* eval_frame returns a value.                                              *)
LEMMA StepReturns ==
  ASSUME IInv, NEW v, Ret(v), acts # <<>>
  PROVE  IInv' /\ Intact
<1>1. Placed("return", Top(acts), Len(stack), stack, locals)
  BY DEF Placed, CallEcName
<1>2. QED
  BY <1>1, StateFacts, StepRuns DEF Ret, Running

(* A primitive returns one, or does not.                                    *)
LEMMA StepResults ==
  ASSUME IInv, NEW v, Result(v), acts # <<>>
  PROVE  IInv' /\ Intact
<1>1. CASE v = Error
  BY <1>1, StepStops DEF Result, Fatal
<1>2. CASE v # Error /\ v = Undefined
  BY <1>2, StepStops DEF Result
<1>3. CASE v # Error /\ v # Undefined
  BY <1>3, StepReturns DEF Result
<1>4. QED
  BY <1>1, <1>2, <1>3

(* eval_frame starts over in a frame of its own.                            *)
LEMMA StepTailCalls ==
  ASSUME IInv, acts # <<>>, NEW s, NEW x, TailCall(s, x),
         Has(s, stack, Top(acts)), Len(s) = Base(Top(acts), locals)
  PROVE  IInv' /\ Intact
<1>1. Top(acts) \in Nat /\ locals.evals \in Nat
  BY StateFacts
<1>2. IsSeq(s) /\ Len(s) \in Nat /\ Len(s) >= 3 /\ Top(acts) <= Len(s) - 3
  BY <1>1 DEF Has, Base
<1>3. IsSeq(stack') /\ Len(stack') = Len(s) /\ \A i \in 1 .. Len(s) - 3 : stack'[i] = s[i]
  BY <1>2, SlotWritten DEF TailCall
<1>4. Has(stack', stack, Top(acts))
  BY <1>1, <1>2, <1>3 DEF Has
<1>5. locals' = [orig |-> 0, argc |-> 0, i |-> 0, proc |-> Null, evals |-> locals.evals,
                 held |-> <<>>]
  BY DEF TailCall, NoLocals
<1>6. IsLocals(locals)'
  BY <1>1, <1>5 DEF IsLocals
<1>7. Placed("eval", Top(acts), Len(stack'), stack', locals')
  BY <1>3, <1>5 DEF Placed, Base, CallEcName
<1>8. QED
  BY <1>4, <1>6, <1>7, StepRuns DEF TailCall, Running

(* A C function calls eval_frame on a new frame above its own.              *)
LEMMA StepCalls ==
  ASSUME IInv, NEW at \in Waiting, NEW h \in Nat, NEW held, NEW s, Call(at, h, held, s),
         acts = <<>> => at = "load", Has(s, stack, Top(acts)), Top(acts) < h, Len(s) = h + 3,
         Placed(at, Top(acts), h, s, locals)
  PROVE  IInv' /\ Intact
<1> DEFINE l == [locals EXCEPT !.held = held]
           a == [at |-> at, height |-> h, locals |-> l]
<1>1. IsLocals(locals)
  BY StateFacts
<1>2. /\ l = [orig |-> locals.orig, argc |-> locals.argc, i |-> locals.i,
              proc |-> locals.proc, evals |-> locals.evals, held |-> held]
      /\ IsLocals(l)
  BY <1>1 DEF IsLocals
<1>3. Placed(at, Top(acts), h, s, l)
  BY <1>2 DEF Placed, LaidOut, Base
<1>4. a.at = at /\ a.height = h /\ a.locals = l /\ IsAct(a)
  BY <1>2 DEF IsAct
<1>5. Frames(acts, stack)
  BY DEF IInv
<1>6. /\ Frames(acts', stack') /\ Top(acts') = h /\ acts' # <<>>
  <2>1. acts' = Append(acts, a) /\ stack' = s
    BY DEF Call
  <2> HIDE DEF a, l
  <2>2. QED
    BY <1>3, <1>4, <1>5, <2>1, FramesPush
<1>7. IsLocals(NoLocals) /\ NoLocals.evals = 0
  BY DEF IsLocals, NoLocals
<1>8. Placed("eval", h, h + 3, s, NoLocals)
  BY <1>7 DEF Placed, Base, CallEcName
<1>9. pc' = "eval" /\ locals' = NoLocals /\ stack' = s
  BY DEF Call
<1>10. Intact
  BY <1>9, KeptIntact
<1>11. IInv'
  BY <1>6, <1>7, <1>8, <1>9 DEF IInv, Running
<1>12. QED
  BY <1>10, <1>11

-----------------------------------------------------------------------------
(* The actions.                                                             *)

(* Where eval_frame is when it evaluates.                                   *)
LEMMA AtEval ==
  ASSUME IInv, pc \in {"eval", "macro", "operator"}
  PROVE  /\ acts # <<>> /\ IsSeq(stack) /\ Len(stack) \in Nat /\ Len(stack) >= 3
         /\ Len(stack) = Base(Top(acts), locals)
         /\ Top(acts) \in Nat /\ Top(acts) + 3 <= Len(stack)
<1>1. Placed(pc, Top(acts), Len(stack), stack, locals) /\ acts # <<>>
  BY DEF IInv
<1>2. Len(stack) = Base(Top(acts), locals)
  BY <1>1 DEF Placed
<1>3. QED
  BY <1>1, <1>2, StateFacts DEF Base

(* Where a special form is when it goes on.                                 *)
LEMMA AtForm ==
  ASSUME IInv, pc \in {"if", "define", "set!", "begin"}
  PROVE  /\ acts # <<>> /\ IsSeq(stack) /\ Len(stack) \in Nat
         /\ Len(stack) = Base(Top(acts), locals) + 3
         /\ Top(acts) \in Nat /\ Top(acts) + 6 <= Len(stack)
         /\ IsSeq(EvalFrameOf(Len(stack))) /\ Len(EvalFrameOf(Len(stack))) = Base(Top(acts), locals)
         /\ Has(EvalFrameOf(Len(stack)), stack, Top(acts))
<1>1. Placed(pc, Top(acts), Len(stack), stack, locals) /\ acts # <<>>
  BY DEF IInv
<1>2. Len(stack) = Base(Top(acts), locals) + 3
  BY <1>1 DEF Placed
<1>3. /\ IsSeq(stack) /\ Len(stack) \in Nat /\ Top(acts) \in Nat
      /\ Top(acts) + 6 <= Len(stack) /\ Base(Top(acts), locals) = Len(stack) - 3
      /\ Len(stack) - 3 \in 0 .. Len(stack)
  BY <1>2, StateFacts DEF Base
<1>4. /\ IsSeq(Down(Len(stack) - 3)) /\ Len(Down(Len(stack) - 3)) = Len(stack) - 3
      /\ \A i \in 1 .. Len(stack) - 3 : Down(Len(stack) - 3)[i] = stack[i]
  BY <1>3, Prefix DEF Down
<1>5. QED
  BY <1>1, <1>2, <1>3, <1>4 DEF EvalFrameOf, Has

(* A special form or macro_expand calls eval_frame.                         *)
LEMMA FormCalls ==
  ASSUME IInv, pc = "eval", NEW at \in {"if", "define", "set!"}, NEW held, NEW x,
         Call(at, Len(ExFrame), held, Frame(ExFrame, x))
  PROVE  IInv' /\ Intact
<1>1. /\ acts # <<>> /\ IsSeq(stack) /\ Len(stack) \in Nat
      /\ Len(stack) = Base(Top(acts), locals)
      /\ Top(acts) \in Nat /\ Top(acts) + 3 <= Len(stack)
  BY AtEval
<1> DEFINE ex == ExFrame
           s == Frame(ex, x)
<1>2. IsSeq(ex) /\ Len(ex) = Len(stack) + 3 /\ \A i \in 1 .. Len(stack) : ex[i] = stack[i]
  BY <1>1, FrameAdded DEF ExFrame
<1>3. IsSeq(s) /\ Len(s) = Len(ex) + 3 /\ \A i \in 1 .. Len(ex) : s[i] = ex[i]
  BY <1>2, FrameAdded
<1>4. Call(at, Len(ex), held, s)
  OBVIOUS
<1> HIDE DEF ex, s
<1>5. Has(s, stack, Top(acts))
  BY <1>1, <1>2, <1>3 DEF Has
<1>6. Placed(at, Top(acts), Len(ex), s, locals)
  BY <1>1, <1>2 DEF Placed, CallEcName
<1>7. at \in Waiting /\ Len(ex) \in Nat /\ Top(acts) < Len(ex)
  BY <1>1, <1>2 DEF Waiting
<1>8. QED
  BY <1>1, <1>3, <1>4, <1>5, <1>6, <1>7, StepCalls

LEMMA EvalSelfStep == ASSUME IInv, EvalSelf PROVE IInv' /\ Intact
BY AtEval, StepReturns DEF EvalSelf

LEMMA EvalRefusedStep == ASSUME IInv, EvalRefused PROVE IInv' /\ Intact
BY AtEval, StepStops DEF EvalRefused, Fatal

LEMMA EvalSymbolStep == ASSUME IInv, EvalSymbol PROVE IInv' /\ Intact
<1>1. acts # <<>>
  BY AtEval DEF EvalSymbol
<1>2. Fatal \/ \E v : Ret(v)
  BY DEF EvalSymbol
<1>3. QED
  BY <1>1, <1>2, StepReturns, StepStops DEF Fatal

LEMMA LangIfStep == ASSUME IInv, LangIf PROVE IInv' /\ Intact
<1>1. pc = "eval"
  BY DEF LangIf, IsForm
<1>2. CASE Fatal
  BY <1>1, <1>2, AtEval, StepStops DEF Fatal
<1>3. CASE \E held, x : Call("if", Len(ExFrame), held, Frame(ExFrame, x))
  BY <1>1, <1>3, FormCalls
<1>4. QED
  BY <1>2, <1>3 DEF LangIf

LEMMA IfDoneStep == ASSUME IInv, IfDone PROVE IInv' /\ Intact
<1>1. pc = "if"
  BY DEF IfDone
<1>2. PICK x : TailCall(EvalFrameOf(Len(stack)), x)
  BY DEF IfDone
<1>3. QED
  BY <1>1, <1>2, AtForm, StepTailCalls

(* A step that ends the call of eval_frame, or the process.                 *)
LEMMA StepEnds ==
  ASSUME IInv, pc \notin {"load", "exit"},
         Fatal \/ (\E v : Ret(v)) \/ (\E v : Result(v))
  PROVE  IInv' /\ Intact
<1>1. acts # <<>>
  BY DEF IInv
<1>2. QED
  BY <1>1, StepReturns, StepResults, StepStops DEF Fatal

LEMMA LangQuoteStep == ASSUME IInv, LangQuote PROVE IInv' /\ Intact
BY StepEnds DEF LangQuote, IsForm

LEMMA LangLambdaStep == ASSUME IInv, LangLambda PROVE IInv' /\ Intact
BY StepEnds DEF LangLambda, IsForm

LEMMA LangLambdaSyntaxStep == ASSUME IInv, LangLambdaSyntax PROVE IInv' /\ Intact
BY StepEnds DEF LangLambdaSyntax, IsForm

LEMMA LangAssignStep ==
  ASSUME IInv, NEW form \in {"define", "set!"}, LangAssign(form) PROVE IInv' /\ Intact
<1>1. pc = "eval"
  BY DEF LangAssign, IsForm
<1>2. CASE Fatal
  BY <1>1, <1>2, StepEnds
<1>3. CASE \E held, x : Call(form, Len(ExFrame), held, Frame(ExFrame, x))
  BY <1>1, <1>3, FormCalls
<1>4. QED
  BY <1>2, <1>3 DEF LangAssign

LEMMA LangDefineProcedureStep == ASSUME IInv, LangDefineProcedure PROVE IInv' /\ Intact
<1>1. pc = "eval"
  BY DEF LangDefineProcedure, IsForm
<1>2. (\E v : Ret(v)) \/ (\E v : Result(v))
  BY DEF LangDefineProcedure
<1>3. QED
  BY <1>1, <1>2, StepEnds

LEMMA LangAssignRefusedStep == ASSUME IInv, LangAssignRefused PROVE IInv' /\ Intact
BY StepEnds DEF LangAssignRefused, IsForm

LEMMA DefineDoneStep == ASSUME IInv, DefineDone PROVE IInv' /\ Intact
BY StepEnds DEF DefineDone

LEMMA SetDoneStep == ASSUME IInv, SetDone PROVE IInv' /\ Intact
<1>1. pc = "set!"
  BY DEF SetDone
<1>2. Fatal \/ \E v : Ret(v)
  BY DEF SetDone
<1>3. QED
  BY <1>1, <1>2, StepEnds

(* lang_begin keeps its frame while it evaluates.                           *)
LEMMA LangBeginStep == ASSUME IInv, LangBegin PROVE IInv' /\ Intact
<1>1. pc = "eval"
  BY DEF LangBegin, IsForm
<1>2. /\ acts # <<>> /\ IsSeq(stack) /\ Len(stack) \in Nat
      /\ Len(stack) = Base(Top(acts), locals)
      /\ Top(acts) \in Nat /\ Top(acts) + 3 <= Len(stack)
  BY <1>1, AtEval
<1>3. /\ IsSeq(stack') /\ Len(stack') = Len(stack) + 3
      /\ \A i \in 1 .. Len(stack) : stack'[i] = stack[i]
  BY <1>2, FrameAdded DEF LangBegin, ExFrame
<1>4. Has(stack', stack, Top(acts))
  BY <1>2, <1>3 DEF Has
<1>5. IsLocals(locals)' /\ locals'.evals = locals.evals
  BY StateFacts DEF LangBegin, IsLocals
<1>6. Placed("begin", Top(acts), Len(stack'), stack', locals')
  BY <1>2, <1>3, <1>5 DEF Placed, Base, CallEcName
<1>7. acts' = acts /\ pc' = "begin"
  BY DEF LangBegin
<1>8. QED
  BY <1>2, <1>4, <1>5, <1>6, <1>7, StepRuns DEF Running, Waiting

LEMMA BeginNextStep == ASSUME IInv, BeginNext PROVE IInv' /\ Intact
<1>1. pc = "begin"
  BY DEF BeginNext
<1>2. /\ acts # <<>> /\ IsSeq(stack) /\ Len(stack) \in Nat
      /\ Len(stack) = Base(Top(acts), locals) + 3
      /\ Top(acts) \in Nat /\ Top(acts) + 6 <= Len(stack)
      /\ Len(EvalFrameOf(Len(stack))) = Base(Top(acts), locals)
      /\ Has(EvalFrameOf(Len(stack)), stack, Top(acts))
  BY <1>1, AtForm
<1>3. CASE Fatal
  BY <1>1, <1>3, StepEnds
<1>4. CASE \E x : TailCall(EvalFrameOf(Len(stack)), x)
  BY <1>2, <1>4, StepTailCalls
<1>5. ASSUME NEW held, NEW x, Call("begin", Len(stack), held, Frame(stack, x))
      PROVE  IInv' /\ Intact
  <2>1. /\ IsSeq(Frame(stack, x)) /\ Len(Frame(stack, x)) = Len(stack) + 3
        /\ \A i \in 1 .. Len(stack) : Frame(stack, x)[i] = stack[i]
    BY <1>2, FrameAdded
  <2>2. Has(Frame(stack, x), stack, Top(acts))
    BY <1>2, <2>1 DEF Has
  <2>3. Placed("begin", Top(acts), Len(stack), Frame(stack, x), locals)
    BY <1>2 DEF Placed, CallEcName
  <2>4. "begin" \in Waiting /\ Top(acts) < Len(stack)
    BY <1>2 DEF Waiting
  <2>5. QED
    BY <1>2, <1>5, <2>1, <2>2, <2>3, <2>4, StepCalls
<1>6. QED
  BY <1>3, <1>4, <1>5 DEF BeginNext

(* The operator of an application, and the expansion of a macro.            *)
LEMMA EvalCalls ==
  ASSUME IInv, pc = "eval", NEW at \in {"macro", "operator"}, NEW held, NEW x,
         Call(at, Len(stack), held, Frame(stack, x))
  PROVE  IInv' /\ Intact
<1>1. /\ acts # <<>> /\ IsSeq(stack) /\ Len(stack) \in Nat
      /\ Len(stack) = Base(Top(acts), locals)
      /\ Top(acts) \in Nat /\ Top(acts) + 3 <= Len(stack)
  BY AtEval
<1>2. /\ IsSeq(Frame(stack, x)) /\ Len(Frame(stack, x)) = Len(stack) + 3
      /\ \A i \in 1 .. Len(stack) : Frame(stack, x)[i] = stack[i]
  BY <1>1, FrameAdded
<1>3. Has(Frame(stack, x), stack, Top(acts))
  BY <1>1, <1>2 DEF Has
<1>4. Placed(at, Top(acts), Len(stack), Frame(stack, x), locals)
  BY <1>1 DEF Placed, CallEcName
<1>5. at \in Waiting /\ Top(acts) < Len(stack)
  BY <1>1 DEF Waiting
<1>6. QED
  BY <1>1, <1>2, <1>3, <1>4, <1>5, StepCalls

LEMMA EvalMacroStep == ASSUME IInv, EvalMacro PROVE IInv' /\ Intact
BY EvalCalls DEF EvalMacro

LEMMA EvalOperatorStep == ASSUME IInv, EvalOperator PROVE IInv' /\ Intact
BY EvalCalls DEF EvalOperator, KeepsExpression

LEMMA MacroDoneStep == ASSUME IInv, MacroDone PROVE IInv' /\ Intact
<1>1. pc = "macro" /\ TailCall(stack, val)
  BY DEF MacroDone
<1>2. acts # <<>> /\ Len(stack) = Base(Top(acts), locals)
  BY <1>1, AtEval
<1>3. QED
  BY <1>1, <1>2, StateFacts, StepTailCalls

-----------------------------------------------------------------------------
(* Applications: above the frame of eval_frame lie the callable and the     *)
(* arguments.                                                               *)

(* The stack up to the frame of eval_frame.                                 *)
LEMMA DownTo ==
  ASSUME IInv, NEW orig \in Nat, Top(acts) + 3 <= orig, orig <= Len(stack)
  PROVE  /\ IsSeq(Down(orig)) /\ Len(Down(orig)) = orig
         /\ \A i \in 1 .. orig : Down(orig)[i] = stack[i]
         /\ Has(Down(orig), stack, Top(acts))
<1>1. IsSeq(stack) /\ Len(stack) \in Nat /\ Top(acts) \in Nat /\ orig \in 0 .. Len(stack)
  BY StateFacts
<1>2. /\ IsSeq(Down(orig)) /\ Len(Down(orig)) = orig
      /\ \A i \in 1 .. orig : Down(orig)[i] = stack[i]
  BY <1>1, Prefix DEF Down
<1>3. QED
  BY <1>1, <1>2 DEF Has

(* Where an application is.                                                 *)
LEMMA AtApplication ==
  ASSUME IInv, pc \in {"push", "arguments", "argument", "apply"}
  PROVE  /\ acts # <<>> /\ IsSeq(stack) /\ Len(stack) \in Nat /\ Top(acts) \in Nat
         /\ locals.orig \in Nat /\ locals.argc \in Nat /\ locals.i \in Nat
         /\ locals.orig = Base(Top(acts), locals)
         /\ Top(acts) + 3 <= locals.orig /\ locals.orig + 1 <= Len(stack)
         /\ stack[locals.orig + 1] = locals.proc /\ locals.i <= locals.argc
         /\ pc # "apply" => Len(stack) = locals.orig + 1 + locals.argc
         /\ pc = "apply" => Len(stack) = locals.orig + 1 + locals.argc + 2
<1>1. Placed(pc, Top(acts), Len(stack), stack, locals) /\ acts # <<>>
  BY DEF IInv
<1>2. /\ IsSeq(stack) /\ Len(stack) \in Nat /\ Top(acts) \in Nat
      /\ locals.orig \in Nat /\ locals.argc \in Nat /\ locals.i \in Nat /\ locals.evals \in Nat
  BY StateFacts
<1>3. locals.orig = Base(Top(acts), locals)
  BY <1>1 DEF Placed
<1>4. Top(acts) + 3 <= locals.orig
  BY <1>2, <1>3 DEF Base
<1>5. CASE pc = "apply"
  <2>1. LaidOut(stack, Len(stack) - 2, locals)
    BY <1>1, <1>5 DEF Placed
  <2>2. Len(stack) - 2 = locals.orig + 1 + locals.argc
    BY <2>1 DEF LaidOut
  <2>3. Len(stack) = locals.orig + 1 + locals.argc + 2
    BY <1>2, <2>2
  <2>4. QED
    BY <1>1, <1>2, <1>3, <1>4, <1>5, <2>1, <2>3 DEF LaidOut
<1>6. CASE pc # "apply"
  <2>1. LaidOut(stack, Len(stack), locals)
    BY <1>1, <1>6 DEF Placed
  <2>2. QED
    BY <1>1, <1>2, <1>3, <1>4, <1>6, <2>1 DEF LaidOut
<1>7. QED
  BY <1>5, <1>6

(* apply_reentry                                                            *)
LEMMA StepPushCallable ==
  ASSUME IInv, acts # <<>>, NEW orig \in Nat, orig = Base(Top(acts), locals),
         orig <= Len(stack), NEW proc, NEW args, NEW need,
         PushCallable(orig, proc, args, need)
  PROVE  IInv' /\ Intact
<1>1. Top(acts) \in Nat /\ locals.evals \in Nat /\ Top(acts) + 3 <= orig
  BY StateFacts DEF Base
<1>2. /\ IsSeq(Down(orig)) /\ Len(Down(orig)) = orig /\ Has(Down(orig), stack, Top(acts))
  BY <1>1, DownTo
<1>3. /\ IsSeq(stack') /\ Len(stack') = orig + 1 /\ stack'[orig + 1] = proc
      /\ \A i \in 1 .. orig : stack'[i] = Down(orig)[i]
  BY <1>2, PushedOne DEF PushCallable, Prepared
<1>4. Has(stack', stack, Top(acts))
  BY <1>1, <1>2, <1>3 DEF Has
<1>5. locals' = [orig |-> orig, argc |-> 0, i |-> 0, proc |-> proc,
                 evals |-> locals.evals, held |-> <<args, need>>]
  BY DEF PushCallable
<1>6. IsLocals(locals)'
  BY <1>1, <1>5 DEF IsLocals
<1>7. LaidOut(stack', Len(stack'), locals')
  BY <1>3, <1>5 DEF LaidOut
<1>8. locals'.orig = Base(Top(acts), locals')
  BY <1>5 DEF Base
<1>9. Placed("push", Top(acts), Len(stack'), stack', locals')
  BY <1>7, <1>8 DEF Placed, CallEcName
<1>10. acts' = acts /\ pc' = "push"
  BY DEF PushCallable
<1>11. QED
  BY <1>4, <1>6, <1>9, <1>10, StepRuns DEF Running

LEMMA OperatorDoneStep == ASSUME IInv, OperatorDone PROVE IInv' /\ Intact
<1>1. pc = "operator"
  BY DEF OperatorDone
<1>2. acts # <<>> /\ Len(stack) \in Nat /\ Len(stack) = Base(Top(acts), locals)
  BY <1>1, AtEval
<1>3. CASE Fatal
  BY <1>1, <1>3, StepEnds
<1>4. CASE PushCallable(Len(stack), val, locals.held[1], TRUE)
  <2>1. Len(stack) <= Len(stack)
    BY <1>2
  <2>2. QED
    BY <1>2, <1>4, <2>1, StepPushCallable, Zenon
<1>5. QED
  BY <1>3, <1>4 DEF OperatorDone

LEMMA PushArgumentStep == ASSUME IInv, PushArgument PROVE IInv' /\ Intact
<1>1. pc = "push"
  BY DEF PushArgument
<1>2. /\ acts # <<>> /\ IsSeq(stack) /\ Len(stack) \in Nat /\ Top(acts) \in Nat
      /\ locals.orig \in Nat /\ locals.argc \in Nat /\ locals.i \in Nat
      /\ locals.orig = Base(Top(acts), locals)
      /\ Top(acts) + 3 <= locals.orig /\ locals.orig + 1 <= Len(stack)
      /\ stack[locals.orig + 1] = locals.proc /\ locals.i <= locals.argc
      /\ Len(stack) = locals.orig + 1 + locals.argc
  BY <1>1, AtApplication
<1>3. /\ IsSeq(stack') /\ Len(stack') = Len(stack) + 1
      /\ \A i \in 1 .. Len(stack) : stack'[i] = stack[i]
  BY <1>2, PushedOne DEF PushArgument
<1>4. Has(stack', stack, Top(acts)) /\ stack'[locals.orig + 1] = locals.proc
  BY <1>2, <1>3 DEF Has
<1>5. IsLocals(locals)
  BY StateFacts
<1>6. /\ locals'.orig = locals.orig /\ locals'.argc = locals.argc + 1 /\ locals'.i = locals.i
      /\ locals'.proc = locals.proc /\ locals'.evals = locals.evals
      /\ IsLocals(locals)'
  <2>1. PICK held : locals' = [locals EXCEPT !.argc = @ + 1, !.held = held]
    BY DEF PushArgument
  <2>2. locals = [orig |-> locals.orig, argc |-> locals.argc, i |-> locals.i,
                  proc |-> locals.proc, evals |-> locals.evals, held |-> locals.held]
    BY <1>5 DEF IsLocals
  <2>3. locals' = [orig |-> locals.orig, argc |-> locals.argc + 1, i |-> locals.i,
                   proc |-> locals.proc, evals |-> locals.evals, held |-> held]
    BY <2>1, <2>2
  <2>4. locals.evals \in Nat
    BY <1>5 DEF IsLocals
  <2>5. QED
    BY <1>2, <2>3, <2>4 DEF IsLocals
<1>7. LaidOut(stack', Len(stack'), locals')
  <2>1. Len(stack') = locals'.orig + 1 + locals'.argc /\ locals'.i <= locals'.argc
    BY <1>2, <1>3, <1>6
  <2>2. QED
    BY <1>4, <1>6, <2>1 DEF LaidOut
<1>8. locals'.orig = Base(Top(acts), locals')
  BY <1>2, <1>6 DEF Base
<1>9. Placed("push", Top(acts), Len(stack'), stack', locals')
  BY <1>7, <1>8 DEF Placed, CallEcName
<1>10. acts' = acts /\ pc' = "push"
  BY <1>1 DEF PushArgument
<1>11. QED
  BY <1>2, <1>4, <1>6, <1>9, <1>10, StepRuns DEF Running

LEMMA ArgumentsPushedStep == ASSUME IInv, ArgumentsPushed PROVE IInv' /\ Intact
<1>1. pc = "push"
  BY DEF ArgumentsPushed
<1>2. /\ acts # <<>> /\ Len(stack) \in Nat
      /\ locals.orig \in Nat /\ locals.argc \in Nat /\ locals.i \in Nat
      /\ locals.orig = Base(Top(acts), locals)
      /\ stack[locals.orig + 1] = locals.proc
      /\ Len(stack) = locals.orig + 1 + locals.argc
  BY <1>1, AtApplication
<1>3. CASE Fatal
  BY <1>1, <1>3, StepEnds
<1>4. ASSUME locals' = [locals EXCEPT !.i = IF locals.held[2] THEN 0 ELSE locals.argc, !.held = <<>>],
             pc' = "arguments", UNCHANGED <<stack, acts, val>>
      PROVE  IInv' /\ Intact
  <2> DEFINE k == IF locals.held[2] THEN 0 ELSE locals.argc
  <2>1. k \in Nat /\ k <= locals.argc
    BY <1>2
  <2>2. IsLocals(locals)
    BY StateFacts
  <2>3. locals' = [locals EXCEPT !.i = k, !.held = <<>>]
    BY <1>4
  <2> HIDE DEF k
  <2>4. /\ locals'.orig = locals.orig /\ locals'.argc = locals.argc /\ locals'.i = k
        /\ locals'.proc = locals.proc /\ locals'.evals = locals.evals
        /\ IsLocals(locals)'
    BY <2>1, <2>2, <2>3 DEF IsLocals
  <2>5. LaidOut(stack, Len(stack), locals')
    BY <1>2, <2>1, <2>4 DEF LaidOut
  <2>6. locals'.orig = Base(Top(acts), locals')
    BY <1>2, <2>4 DEF Base
  <2>7. Placed("arguments", Top(acts), Len(stack), stack, locals')
    BY <2>5, <2>6 DEF Placed, CallEcName
  <2>8. QED
    BY <1>2, <1>4, <2>4, <2>7, StateFacts, StepRuns DEF Running
<1>5. QED
  BY <1>3, <1>4 DEF ArgumentsPushed

LEMMA EvalArgumentStep == ASSUME IInv, EvalArgument PROVE IInv' /\ Intact
<1> DEFINE t == <<stack[Len(stack) - locals.i], Fp(locals.orig), stack[locals.orig]>>
<1>1. pc = "arguments" /\ locals.i < locals.argc
  BY DEF EvalArgument
<1>2. /\ acts # <<>> /\ IsSeq(stack) /\ Len(stack) \in Nat /\ Top(acts) \in Nat
      /\ locals.orig = Base(Top(acts), locals)
      /\ Top(acts) + 3 <= locals.orig /\ locals.orig + 1 <= Len(stack)
      /\ locals.orig \in Nat /\ stack[locals.orig + 1] = locals.proc
      /\ Len(stack) = locals.orig + 1 + locals.argc
  BY <1>1, AtApplication
<1>3. Call("argument", Len(stack), <<>>, stack \o t)
  BY DEF EvalArgument
<1>4. IsSeq(t) /\ Len(t) = 3
  BY Tuples
<1> HIDE DEF t
<1>5. /\ IsSeq(stack \o t) /\ Len(stack \o t) = Len(stack) + Len(t)
      /\ \A i \in 1 .. Len(stack) : (stack \o t)[i] = stack[i]
  BY <1>2, <1>4, Pushed
<1>6. Has(stack \o t, stack, Top(acts))
  BY <1>2, <1>4, <1>5 DEF Has
<1>7. (stack \o t)[locals.orig + 1] = locals.proc
  BY <1>2, <1>5
<1>8. LaidOut(stack \o t, Len(stack), locals)
  BY <1>1, <1>2, <1>7, AtApplication DEF LaidOut
<1>9. Placed("argument", Top(acts), Len(stack), stack \o t, locals)
  BY <1>1, <1>2, <1>8 DEF Placed, CallEcName
<1>10. Top(acts) < Len(stack) /\ Len(stack \o t) = Len(stack) + 3 /\ "argument" \in Waiting
  BY <1>2, <1>4, <1>5 DEF Waiting
<1>11. QED
  BY <1>2, <1>3, <1>6, <1>9, <1>10, StepCalls

(* The value of an argument takes the place of the expression.              *)
LEMMA ArgumentDoneStep == ASSUME IInv, ArgumentDone PROVE IInv' /\ Intact
<1> DEFINE k == Len(stack) - locals.i
<1>1. pc = "argument"
  BY DEF ArgumentDone
<1>2. /\ acts # <<>> /\ IsSeq(stack) /\ Len(stack) \in Nat /\ Top(acts) \in Nat
      /\ locals.orig \in Nat /\ locals.argc \in Nat /\ locals.i \in Nat
      /\ locals.orig = Base(Top(acts), locals)
      /\ Top(acts) + 3 <= locals.orig /\ locals.orig + 1 <= Len(stack)
      /\ stack[locals.orig + 1] = locals.proc
      /\ Len(stack) = locals.orig + 1 + locals.argc
  BY <1>1, AtApplication
<1>3. locals.i < locals.argc
  BY <1>1 DEF IInv, Placed
<1>4. k \in 1 .. Len(stack) /\ locals.orig + 2 <= k
  BY <1>2, <1>3
<1>5. stack' = [stack EXCEPT ![k] = val]
  BY DEF ArgumentDone
<1> HIDE DEF k
<1>6. /\ IsSeq(stack') /\ Len(stack') = Len(stack)
      /\ \A i \in 1 .. Len(stack) : i # k => stack'[i] = stack[i]
  <2>1. IsSeq(stack) /\ k \in 1 .. Len(stack)
    BY <1>2, <1>4
  <2>2. IsSeq(stack')
    BY <1>5, <2>1, IsWritten
  <2>3. Len(stack') = Len(stack)
    BY <1>5, <2>1, IsWritten
  <2>4. \A i \in 1 .. Len(stack) : i # k => stack'[i] = stack[i]
    BY <1>5, <2>1, IsWritten
  <2>5. QED
    BY <2>2, <2>3, <2>4
<1>7. \A i \in 1 .. locals.orig + 1 : stack'[i] = stack[i]
  <2>1. \A i \in 1 .. locals.orig + 1 : i \in 1 .. Len(stack) /\ i # k
    BY <1>2, <1>4
  <2>2. QED
    BY <1>6, <2>1
<1>8. Has(stack', stack, Top(acts)) /\ stack'[locals.orig + 1] = locals.proc
  BY <1>2, <1>6, <1>7 DEF Has
<1>9. IsLocals(locals)
  BY StateFacts
<1>10. /\ locals'.orig = locals.orig /\ locals'.argc = locals.argc /\ locals'.i = locals.i + 1
       /\ locals'.proc = locals.proc /\ locals'.evals = locals.evals
       /\ IsLocals(locals)'
  <2>1. locals' = [orig |-> locals.orig, argc |-> locals.argc, i |-> locals.i + 1,
                   proc |-> locals.proc, evals |-> locals.evals, held |-> locals.held]
    BY <1>9 DEF ArgumentDone, NextArgument, IsLocals
  <2>2. locals.evals \in Nat
    BY <1>9 DEF IsLocals
  <2>3. QED
    BY <1>2, <2>1, <2>2 DEF IsLocals
<1>11. LaidOut(stack', Len(stack'), locals')
  BY <1>2, <1>3, <1>6, <1>8, <1>10 DEF LaidOut
<1>12. locals'.orig = Base(Top(acts), locals')
  BY <1>2, <1>10 DEF Base
<1>13. Placed("arguments", Top(acts), Len(stack'), stack', locals')
  BY <1>11, <1>12 DEF Placed, CallEcName
<1>14. acts' = acts /\ pc' = "arguments"
  BY DEF ArgumentDone
<1>15. QED
  BY <1>2, <1>8, <1>10, <1>13, <1>14, StepRuns DEF Running

LEMMA ArgumentsDoneStep == ASSUME IInv, ArgumentsDone PROVE IInv' /\ Intact
<1> DEFINE t == <<Fp(locals.orig), stack[locals.orig]>>
<1>1. pc = "arguments"
  BY DEF ArgumentsDone
<1>2. /\ acts # <<>> /\ IsSeq(stack) /\ Len(stack) \in Nat /\ Top(acts) \in Nat
      /\ locals.orig \in Nat /\ locals.argc \in Nat /\ locals.i <= locals.argc
      /\ locals.orig = Base(Top(acts), locals)
      /\ Top(acts) + 3 <= locals.orig /\ locals.orig + 1 <= Len(stack)
      /\ stack[locals.orig + 1] = locals.proc
      /\ Len(stack) = locals.orig + 1 + locals.argc
  BY <1>1, AtApplication
<1>3. stack' = stack \o t
  BY DEF ArgumentsDone
<1>4. IsSeq(t) /\ Len(t) = 2 /\ t[1] = Fp(locals.orig)
  BY Tuples
<1> HIDE DEF t
<1>5. /\ IsSeq(stack') /\ Len(stack') = Len(stack) + 2
      /\ \A i \in 1 .. Len(stack) : stack'[i] = stack[i]
      /\ \A i \in 1 .. 2 : stack'[Len(stack) + i] = t[i]
  <2>1. IsSeq(stack) /\ IsSeq(t)
    BY <1>2, <1>4
  <2>2. IsSeq(stack')
    BY <1>3, <2>1, IsPushed
  <2>3. Len(stack') = Len(stack) + Len(t)
    BY <1>3, <2>1, IsPushed
  <2>4. \A i \in 1 .. Len(stack) : stack'[i] = stack[i]
    BY <1>3, <2>1, IsPushed
  <2>5. \A i \in 1 .. Len(t) : stack'[Len(stack) + i] = t[i]
    BY <1>3, <2>1, IsPushed
  <2>6. QED
    BY <1>4, <2>2, <2>3, <2>4, <2>5
<1>6. Has(stack', stack, Top(acts)) /\ stack'[locals.orig + 1] = locals.proc
  BY <1>2, <1>5 DEF Has
<1>7. Len(stack') - 2 = Len(stack) /\ Len(stack') - 1 = Len(stack) + 1
  BY <1>2, <1>5
<1>8. stack'[Len(stack') - 1] = Fp(locals.orig)
  BY <1>4, <1>5, <1>7
<1>9. LaidOut(stack', Len(stack') - 2, locals)
  BY <1>2, <1>6, <1>7 DEF LaidOut
<1>10. Placed("apply", Top(acts), Len(stack'), stack', locals)
  BY <1>2, <1>8, <1>9 DEF Placed, CallEcName
<1>11. acts' = acts /\ pc' = "apply" /\ locals' = locals /\ IsLocals(locals)
  BY StateFacts DEF ArgumentsDone
<1>12. QED
  BY <1>2, <1>6, <1>10, <1>11, StepRuns DEF Running

(* (eval expr environ) goes on in a frame above that of eval_frame.         *)
LEMMA ApplyEvalStep == ASSUME IInv, ApplyEval PROVE IInv' /\ Intact
<1>1. pc = "apply"
  BY DEF ApplyEval, Applies
<1>2. /\ acts # <<>> /\ Len(stack) \in Nat /\ Top(acts) \in Nat
      /\ locals.orig \in Nat /\ locals.orig = Base(Top(acts), locals)
      /\ Top(acts) + 3 <= locals.orig /\ locals.orig + 1 <= Len(stack)
  BY <1>1, AtApplication
<1>3. /\ IsSeq(Down(locals.orig)) /\ Len(Down(locals.orig)) = locals.orig
      /\ Has(Down(locals.orig), stack, Top(acts))
  BY <1>2, DownTo
<1>4. CASE Fatal
  BY <1>1, <1>4, StepEnds
<1>5. ASSUME NEW x, NEW y, stack' = OrigFrame \o <<x, Fp(locals.orig), y>>,
             locals' = [NoLocals EXCEPT !.evals = locals.evals + 1], pc' = "eval", acts' = acts
      PROVE  IInv' /\ Intact
  <2> DEFINE t == <<x, Fp(locals.orig), y>>
             d == Down(locals.orig)
  <2>1. IsSeq(t) /\ Len(t) = 3
    BY Tuples
  <2>2. stack' = d \o t
    BY <1>5 DEF OrigFrame
  <2> HIDE DEF t, d
  <2>3. IsSeq(d) /\ Len(d) = locals.orig /\ Has(d, stack, Top(acts))
    BY <1>3 DEF d
  <2>4. /\ IsSeq(stack') /\ Len(stack') = locals.orig + 3
        /\ \A i \in 1 .. locals.orig : stack'[i] = d[i]
    <3>1. /\ IsSeq(d \o t) /\ Len(d \o t) = Len(d) + Len(t)
          /\ \A i \in 1 .. Len(d) : (d \o t)[i] = d[i]
      BY <2>1, <2>3, Pushed
    <3>2. QED
      BY <2>1, <2>2, <2>3, <3>1
  <2>5. Has(stack', stack, Top(acts))
    BY <1>2, <2>3, <2>4 DEF Has
  <2>6. locals.evals \in Nat
    BY StateFacts
  <2>7. locals' = [orig |-> 0, argc |-> 0, i |-> 0, proc |-> Null,
                   evals |-> locals.evals + 1, held |-> <<>>]
    BY <1>5 DEF NoLocals
  <2>8. IsLocals(locals)' /\ locals'.evals = locals.evals + 1
    BY <2>6, <2>7 DEF IsLocals
  <2>9. Len(stack') = Base(Top(acts), locals')
    BY <1>2, <2>4, <2>6, <2>8 DEF Base
  <2>10. Placed("eval", Top(acts), Len(stack'), stack', locals')
    BY <2>9 DEF Placed, CallEcName
  <2>11. QED
    BY <1>2, <1>5, <2>5, <2>8, <2>10, StepRuns DEF Running
<1>6. QED
  BY <1>4, <1>5 DEF ApplyEval

LEMMA ApplyApplyStep == ASSUME IInv, ApplyApply PROVE IInv' /\ Intact
<1>1. pc = "apply"
  BY DEF ApplyApply, Applies
<1>2. /\ acts # <<>> /\ locals.orig \in Nat /\ locals.orig = Base(Top(acts), locals)
      /\ locals.orig <= Len(stack)
  BY <1>1, AtApplication
<1>3. CASE Fatal
  BY <1>1, <1>3, StepEnds
<1>4. CASE PushCallable(locals.orig, frame_ref(stack, 1), frame_ref(stack, 0), FALSE)
  BY <1>2, <1>4, StepPushCallable, Zenon
<1>5. QED
  BY <1>3, <1>4 DEF ApplyApply

(* The body of a closure replaces the application in the frame.             *)
LEMMA ApplyClosureStep == ASSUME IInv, ApplyClosure PROVE IInv' /\ Intact
<1>1. pc = "apply"
  BY DEF ApplyClosure, Applies
<1>2. /\ acts # <<>> /\ Len(stack) \in Nat /\ Top(acts) \in Nat
      /\ locals.orig \in Nat /\ locals.orig = Base(Top(acts), locals)
      /\ Top(acts) + 3 <= locals.orig /\ locals.orig + 1 <= Len(stack)
  BY <1>1, AtApplication
<1> DEFINE d == Down(locals.orig)
<1>3. IsSeq(d) /\ Len(d) = locals.orig /\ Has(d, stack, Top(acts))
  BY <1>2, DownTo
<1>4. CASE Fatal \/ \E v : Result(v)
  BY <1>1, <1>4, StepEnds
<1>5. ASSUME NEW body, NEW env,
             stack' = [SetSlot(OrigFrame, body) EXCEPT ![Len(OrigFrame)] = env],
             locals' = [NoLocals EXCEPT !.evals = locals.evals], pc' = "eval", acts' = acts
      PROVE  IInv' /\ Intact
  <2> DEFINE s == SetSlot(d, body)
             k == Len(d)
  <2>1. stack' = [s EXCEPT ![k] = env]
    BY <1>5 DEF OrigFrame
  <2> HIDE DEF d
  <2>2. IsSeq(s) /\ Len(s) = k /\ \A i \in 1 .. k - 3 : s[i] = d[i]
    BY <1>2, <1>3, SlotWritten
  <2>3. k \in 1 .. Len(s) /\ k \in Nat /\ k = locals.orig
    BY <1>2, <1>3, <2>2
  <2> HIDE DEF s, k
  <2>4. /\ IsSeq(stack') /\ Len(stack') = Len(s)
        /\ \A i \in 1 .. Len(s) : i # k => stack'[i] = s[i]
    <3>1. IsSeq(s) /\ k \in 1 .. Len(s)
      BY <2>2, <2>3
    <3>2. IsSeq(stack')
      BY <2>1, <3>1, IsWritten
    <3>3. Len(stack') = Len(s)
      BY <2>1, <3>1, IsWritten
    <3>4. \A i \in 1 .. Len(s) : i # k => stack'[i] = s[i]
      BY <2>1, <3>1, IsWritten
    <3>5. QED
      BY <3>2, <3>3, <3>4
  <2>5. \A i \in 1 .. Top(acts) : stack'[i] = stack[i]
    <3>1. \A i \in 1 .. Top(acts) : i \in 1 .. k - 3 /\ i \in 1 .. Len(s) /\ i # k
      BY <1>2, <2>2, <2>3
    <3>2. QED
      BY <1>3, <2>1, <2>2, <2>4, <3>1 DEF Has
  <2>6. Has(stack', stack, Top(acts)) /\ Len(stack') = locals.orig
    BY <1>2, <2>1, <2>2, <2>3, <2>4, <2>5 DEF Has
  <2>7. locals' = [orig |-> 0, argc |-> 0, i |-> 0, proc |-> Null,
                   evals |-> locals.evals, held |-> <<>>]
    BY <1>5 DEF NoLocals
  <2>8. IsLocals(locals)' /\ locals'.evals = locals.evals
    BY <2>7, StateFacts DEF IsLocals
  <2>9. Placed("eval", Top(acts), Len(stack'), stack', locals')
    BY <1>2, <2>6, <2>8 DEF Placed, Base, CallEcName
  <2>10. QED
    BY <1>2, <1>5, <2>6, <2>8, <2>9, StepRuns DEF Running
<1>6. QED
  BY <1>4, <1>5 DEF ApplyClosure

(* A throw leaves the functions that wait below the call/ec waiting.        *)
LEMMA ThrowStep == ASSUME IInv, Throw PROVE IInv' /\ Intact
<1>1. pc = "apply"
  BY DEF Throw, Applies
<1>2. CASE Fatal \/ \E v : Result(v)
  BY <1>1, <1>2, StepEnds
<1>3. ASSUME NEW n \in DOMAIN acts, acts' = SubSeq(acts, 1, n), pc' = "return",
             UNCHANGED <<stack, locals>>
      PROVE  IInv' /\ Intact
  <2>1. Frames(acts, stack)
    BY DEF IInv
  <2>2. n \in 0 .. Len(acts) /\ n # 0
    BY <1>3, <2>1, IsSeqProperties DEF Frames
  <2>3. Frames(acts', stack) /\ acts' # <<>>
    BY <1>3, <2>1, <2>2, FramesPop
  <2>4. Placed("return", Top(acts'), Len(stack), stack, locals)
    BY DEF Placed, CallEcName
  <2>5. Intact
    BY <1>3, StateFacts, KeptIntact
  <2>6. QED
    BY <1>3, <2>3, <2>4, <2>5 DEF IInv, Running
<1>4. QED
  BY <1>2, <1>3 DEF Throw

LEMMA ApplyOtherStep == ASSUME IInv, ApplyOther PROVE IInv' /\ Intact
BY StepEnds DEF ApplyOther

-----------------------------------------------------------------------------
(* The primitives.                                                          *)

LEMMA PrimitiveSteps ==
  ASSUME IInv, \/ ApplyLibrary \/ lib_display \/ lib_newline \/ lib_read
               \/ lib_report_environ \/ lib_null_environ \/ CallEcDone
  PROVE  IInv' /\ Intact
<1>1. pc \in {"apply", CallEcName}
  BY DEF ApplyLibrary, lib_display, lib_newline, lib_read, lib_report_environ,
         lib_null_environ, CallEcDone, Applying, IsPrimitive, Applies
<1>2. Fatal \/ (\E v : Ret(v)) \/ (\E v : Result(v))
  BY DEF ApplyLibrary, lib_display, lib_newline, lib_read, lib_report_environ,
         lib_null_environ, CallEcDone
<1>3. pc \notin {"load", "exit"}
  BY <1>1 DEF CallEcName
<1>4. QED
  BY <1>2, <1>3, StepEnds

LEMMA lib_call_ecStep == ASSUME IInv, lib_call_ec PROVE IInv' /\ Intact
<1>1. pc = "apply"
  BY DEF lib_call_ec, Applying, IsPrimitive, Applies
<1>2. /\ acts # <<>> /\ IsSeq(stack) /\ Len(stack) \in Nat /\ Top(acts) \in Nat
      /\ Top(acts) + 3 <= Len(stack)
  <2>1. /\ acts # <<>> /\ IsSeq(stack) /\ Len(stack) \in Nat /\ Top(acts) \in Nat
        /\ locals.orig \in Nat /\ Top(acts) + 3 <= locals.orig /\ locals.orig + 1 <= Len(stack)
    BY <1>1, AtApplication
  <2>2. QED
    BY <2>1
<1>3. CASE Fatal
  BY <1>1, <1>3, StepEnds
<1>4. ASSUME NEW held, NEW x, Call(CallEcName, Len(stack), held, Frame(stack, x))
      PROVE  IInv' /\ Intact
  <2>1. /\ IsSeq(Frame(stack, x)) /\ Len(Frame(stack, x)) = Len(stack) + 3
        /\ \A i \in 1 .. Len(stack) : Frame(stack, x)[i] = stack[i]
    BY <1>2, FrameAdded
  <2>2. Has(Frame(stack, x), stack, Top(acts))
    BY <1>2, <2>1 DEF Has
  <2>3. Placed(CallEcName, Top(acts), Len(stack), Frame(stack, x), locals)
    BY <1>2 DEF Placed, CallEcName
  <2>4. CallEcName \in Waiting /\ Top(acts) < Len(stack)
    BY <1>2 DEF Waiting
  <2>5. QED
    BY <1>2, <1>4, <2>1, <2>2, <2>3, <2>4, StepCalls
<1>5. QED
  BY <1>3, <1>4 DEF lib_call_ec

(* execute_expr_list evaluates in a frame above its own.                    *)
LEMMA StepRunExpressions ==
  ASSUME IInv, NEW p, IsSeq(p), Top(acts) + 3 <= Len(p),
         \A i \in 1 .. Top(acts) : p[i] = stack[i], NEW expr, RunExpressions(p, expr)
  PROVE  IInv' /\ Intact
<1> DEFINE q == SetSlot(p, expr)
           s == Frame(q, Car(expr))
<1>1. Len(p) \in Nat /\ Top(acts) \in Nat
  BY IsSeqProperties, StateFacts
<1>2. IsSeq(q) /\ Len(q) = Len(p) /\ \A i \in 1 .. Len(p) - 3 : q[i] = p[i]
  BY <1>1, SlotWritten
<1>3. IsSeq(s) /\ Len(s) = Len(q) + 3 /\ \A i \in 1 .. Len(q) : s[i] = q[i]
  BY <1>2, FrameAdded
<1>4. Call("load", Len(p), <<expr>>, s)
  BY DEF RunExpressions
<1> HIDE DEF q, s
<1>5. Has(s, stack, Top(acts))
  <2>1. \A i \in 1 .. Top(acts) : i \in 1 .. Len(p) - 3 /\ i \in 1 .. Len(q)
    BY <1>1, <1>2
  <2>2. QED
    BY <1>1, <1>2, <1>3, <2>1 DEF Has
<1>6. Placed("load", Top(acts), Len(p), s, locals)
  BY DEF Placed, CallEcName
<1>7. "load" \in Waiting /\ Top(acts) < Len(p) /\ Len(s) = Len(p) + 3
  BY <1>1, <1>2, <1>3 DEF Waiting
<1>8. QED
  BY <1>1, <1>4, <1>5, <1>6, <1>7, StepCalls

LEMMA lib_loadStep == ASSUME IInv, lib_load PROVE IInv' /\ Intact
<1>1. pc = "apply"
  BY DEF lib_load, Applying, IsPrimitive, Applies
<1>2. /\ IsSeq(stack) /\ Len(stack) \in Nat /\ Top(acts) \in Nat /\ Top(acts) <= Len(stack)
  BY StateFacts
<1>3. CASE Fatal \/ \E v : Result(v)
  BY <1>1, <1>3, StepEnds
<1>4. CASE \E expr : RunExpressions(Frame(stack, Null), expr)
  <2>1. /\ IsSeq(Frame(stack, Null)) /\ Len(Frame(stack, Null)) = Len(stack) + 3
        /\ \A i \in 1 .. Len(stack) : Frame(stack, Null)[i] = stack[i]
    BY <1>2, FrameAdded
  <2>2. /\ Top(acts) + 3 <= Len(Frame(stack, Null))
        /\ \A i \in 1 .. Top(acts) : Frame(stack, Null)[i] = stack[i]
    BY <1>2, <2>1
  <2>3. QED
    BY <1>4, <2>1, <2>2, StepRunExpressions
<1>5. QED
  BY <1>3, <1>4 DEF lib_load

LEMMA LoadNextStep == ASSUME IInv, LoadNext PROVE IInv' /\ Intact
<1>1. pc = "load"
  BY DEF LoadNext
<1>2. Top(acts) + 3 <= Len(stack) /\ IsSeq(stack) /\ Len(stack) \in Nat /\ Top(acts) \in Nat
  <2>1. Placed("load", Top(acts), Len(stack), stack, locals)
    BY <1>1 DEF IInv
  <2>2. Len(stack) >= Top(acts) + 3
    BY <2>1 DEF Placed
  <2>3. QED
    BY <2>2, StateFacts
<1>3. CASE \E expr : RunExpressions(stack, expr)
  BY <1>2, <1>3, StepRunExpressions
<1>4. CASE acts # <<>> /\ Ret(Unspec)
  BY <1>4, StepReturns
<1>5. CASE pc' = "exit" /\ UNCHANGED <<stack, acts, locals, val>>
  <2>1. Placed("exit", Top(acts), Len(stack), stack, locals)
    BY DEF Placed, CallEcName
  <2>2. Intact
    BY <1>5, StateFacts, KeptIntact
  <2>3. QED
    BY <1>5, <2>1, <2>2 DEF IInv
<1>6. QED
  BY <1>3, <1>4, <1>5 DEF LoadNext

-----------------------------------------------------------------------------
(* eval_frame returns: the function that called it goes on in its frame.    *)
LEMMA ReturnStep == ASSUME IInv, Return PROVE IInv' /\ Intact
<1> DEFINE n == Len(acts)
           a == acts[n]
<1>1. Frames(acts, stack) /\ acts # <<>>
  BY DEF IInv, Return
<1>2. /\ n \in Nat /\ n # 0 /\ n \in 1 .. n /\ n - 1 \in 0 .. n
      /\ IsSeq(stack) /\ Len(stack) \in Nat /\ Top(acts) <= Len(stack) /\ Top(acts) \in Nat
  BY <1>1, FramesUnderTop, IsSeqProperties DEF Frames
<1>3. /\ IsAct(a) /\ a.at \in Waiting /\ a.height \in Nat /\ IsLocals(a.locals)
      /\ Placed(a.at, Below(acts, n - 1), a.height, stack, a.locals)
  BY <1>1, <1>2 DEF Frames, IsAct
<1>4. Top(acts) = a.height
  BY <1>2 DEF Top, Below
<1>5. /\ acts' = SubSeq(acts, 1, n - 1) /\ stack' = Down(a.height)
      /\ locals' = a.locals /\ pc' = a.at
  BY DEF Return, Last, Front
<1> HIDE DEF a, n
<1>6. /\ IsSeq(stack') /\ Len(stack') = a.height
      /\ \A i \in 1 .. a.height : stack'[i] = stack[i]
  <2>1. a.height \in 0 .. Len(stack)
    BY <1>2, <1>3, <1>4
  <2>2. /\ IsSeq(Down(a.height)) /\ Len(Down(a.height)) = a.height
        /\ \A i \in 1 .. a.height : Down(a.height)[i] = stack[i]
    BY <1>2, <2>1, Prefix DEF Down
  <2>3. QED
    BY <1>5, <2>2
<1>7. Intact
  <2>1. Has(stack', stack, Top(acts))
    BY <1>3, <1>4, <1>6 DEF Has
  <2>2. QED
    BY <2>1, KeptIntact
<1>8. /\ Frames(acts', stack) /\ Top(acts') = Below(acts, n - 1)
      /\ acts' = <<>> <=> n - 1 = 0
  BY <1>1, <1>2, <1>5, FramesPop DEF n
<1>9. Frames(acts', stack')
  <2>1. Below(acts, n - 1) \in Nat /\ Below(acts, n - 1) <= Top(acts)
    BY <1>1, <1>2, FramesUnderTop DEF n
  <2>2. Has(stack', stack, Top(acts'))
    BY <1>3, <1>4, <1>6, <1>8, <2>1 DEF Has
  <2>3. QED
    BY <1>8, <2>2, FramesSame
<1>10. Placed(pc', Top(acts'), Len(stack'), stack', locals')
  <2>1. Placed(a.at, Below(acts, n - 1), a.height, stack', a.locals)
    BY <1>3, <1>6, PlacedKept
  <2>2. QED
    BY <1>5, <1>6, <1>8, <2>1
<1>11. acts' = <<>> => pc' = "load"
  <2>1. n = 1 => a.at = "load"
    BY <1>1 DEF Frames, a
  <2>2. QED
    BY <1>2, <1>5, <1>8, <2>1
<1>12. QED
  BY <1>3, <1>5, <1>7, <1>9, <1>10, <1>11 DEF IInv, Running

-----------------------------------------------------------------------------
(* The theorems.                                                            *)

(* The program starts in the frames of main and execute_expr_list.          *)
THEOREM InitInv == Init => IInv
<1> SUFFICES ASSUME Init PROVE IInv
  OBVIOUS
<1> DEFINE base == <<Null, Environ(1)>>
           text == List(program.text, Nil)
           main == Frame(base, Null)
           prog == Frame(main, text)
           l == [orig |-> 0, argc |-> 0, i |-> 0, proc |-> Null, evals |-> 0, held |-> <<text>>]
           a == [at |-> "load", height |-> 8, locals |-> l]
<1>1. IsSeq(base) /\ Len(base) = 2
  BY Tuples
<1>2. ASSUME NEW s, IsSeq(s), NEW x, NEW u, u = Frame(s, x)
      PROVE  IsSeq(u) /\ Len(u) = Len(s) + 3
  BY <1>2, FrameAdded
<1>3. /\ main = Frame(base, Null) /\ prog = Frame(main, text)
      /\ stack = Frame(prog, Head(program.text))
  BY DEF Init
<1>4. acts = <<[a EXCEPT !.height = Len(prog)]>> /\ pc = "eval"
  <2>1. [NoLocals EXCEPT !.held = <<text>>] = l
    BY DEF NoLocals
  <2>2. /\ acts = <<[at |-> "load", height |-> Len(prog), locals |-> [NoLocals EXCEPT !.held = <<text>>]]>>
        /\ pc = "eval"
    BY DEF Init
  <2> HIDE DEF prog, l
  <2>3. [a EXCEPT !.height = Len(prog)] = [at |-> "load", height |-> Len(prog), locals |-> l]
    OBVIOUS
  <2>4. QED
    BY <2>1, <2>2, <2>3
<1> HIDE DEF base, main, prog
<1>5. IsSeq(stack) /\ Len(stack) = 11 /\ acts = <<a>>
  <2>1. IsSeq(main) /\ Len(main) = 5
    <3>1. IsSeq(main)
      BY <1>1, <1>3, <1>2
    <3>2. Len(main) = Len(base) + 3
      BY <1>1, <1>3, <1>2
    <3>3. QED
      BY <1>1, <1>3, <3>1, <3>2
  <2>2. IsSeq(prog) /\ Len(prog) = 8
    <3>1. IsSeq(prog)
      BY <1>3, <2>1, <1>2
    <3>2. Len(prog) = Len(main) + 3
      BY <1>3, <2>1, <1>2
    <3>3. QED
      BY <1>3, <2>1, <3>1, <3>2
  <2>3. IsSeq(stack) /\ Len(stack) = 11
    <3>1. IsSeq(stack)
      BY <1>3, <2>2, <1>2
    <3>2. Len(stack) = Len(prog) + 3
      BY <1>3, <2>2, <1>2
    <3>3. QED
      BY <1>3, <2>2, <3>1, <3>2
  <2>4. [a EXCEPT !.height = 8] = a
    OBVIOUS
  <2>5. QED
    BY <1>4, <2>2, <2>3, <2>4
<1>6. IsLocals(l) /\ IsAct(a) /\ a.at = "load" /\ a.height = 8 /\ a.locals = l
  BY DEF IsLocals, IsAct, Waiting
<1>7. IsLocals(locals) /\ locals.evals = 0
  BY DEF Init, NoLocals, IsLocals
<1> HIDE DEF a, l
<1>8. IsSeq(acts) /\ Len(acts) = 1 /\ acts[1] = a /\ acts # <<>>
  <2>1. <<a>> \in Seq({a})
    OBVIOUS
  <2>2. QED
    BY <1>5, <2>1, SeqIsSeq
<1>9. Below(acts, 0) = 5 /\ Top(acts) = 8
  BY <1>6, <1>8 DEF Below, Top
<1>10. Placed("load", 5, 8, stack, l)
  BY DEF Placed, CallEcName
<1>11. Frames(acts, stack)
  <2>1. ASSUME NEW j \in 1 .. Len(acts)
        PROVE  IsAct(acts[j]) /\ Placed(acts[j].at, Below(acts, j - 1), acts[j].height, stack, acts[j].locals)
    <3>1. j = 1 /\ j - 1 = 0
      BY <1>8
    <3>2. QED
      BY <1>6, <1>8, <1>9, <1>10, <3>1
  <2>2. ASSUME NEW i \in 1 .. Len(acts), NEW j \in 1 .. Len(acts), i < j
        PROVE  acts[i].height < acts[j].height
    BY <1>8, <2>2
  <2>3. QED
    BY <1>5, <1>6, <1>8, <1>9, <2>1, <2>2 DEF Frames
<1>12. Placed(pc, Top(acts), Len(stack), stack, locals)
  BY <1>4, <1>5, <1>7, <1>9 DEF Placed, Base, CallEcName
<1>13. QED
  BY <1>4, <1>7, <1>8, <1>11, <1>12 DEF IInv, Running

(* Every step keeps the invariant and the frames of those who wait.         *)
THEOREM StepInv ==
  ASSUME IInv, [Next]_vars
  PROVE  IInv' /\ (UNCHANGED vars \/ Intact)
<1>1. CASE UNCHANGED vars
  BY <1>1 DEF IInv, vars, machine
<1>2. CASE Eval
  BY <1>2, EvalSelfStep, EvalRefusedStep, EvalSymbolStep, EvalMacroStep, EvalOperatorStep
  DEF Eval
<1>3. CASE Lang
  BY <1>3, LangIfStep, LangQuoteStep, LangLambdaStep, LangLambdaSyntaxStep, LangBeginStep,
     LangAssignStep, LangDefineProcedureStep, LangAssignRefusedStep
  DEF Lang
<1>4. CASE Resume
  BY <1>4, IfDoneStep, DefineDoneStep, SetDoneStep, BeginNextStep, MacroDoneStep,
     OperatorDoneStep, ArgumentDoneStep, PrimitiveSteps, LoadNextStep
  DEF Resume
<1>5. CASE Apply
  BY <1>5, PushArgumentStep, ArgumentsPushedStep, EvalArgumentStep, ArgumentsDoneStep,
     ApplyEvalStep, ApplyApplyStep, ApplyClosureStep, ThrowStep, ApplyOtherStep
  DEF Apply
<1>6. CASE Lib
  BY <1>6, PrimitiveSteps, lib_call_ecStep, lib_loadStep DEF Lib
<1>7. CASE Return
  BY <1>7, ReturnStep
<1>8. QED
  BY <1>1, <1>2, <1>3, <1>4, <1>5, <1>6, <1>7 DEF Next, Stopped

(* Each C function has its frame where it belongs, the one that runs and    *)
(* those that wait.                                                         *)
THEOREM InvariantHolds == Spec => []IInv
<1>1. IInv /\ [Next]_vars => IInv'
  BY StepInv
<1>2. QED
  BY <1>1, InitInv, PTL DEF Spec

(* When a primitive is called, the callable is in the slot below the frame  *)
(* of its application and exactly the arguments lie between: what           *)
(* apply_procedure and LIB_PROC_HEADER compute with.                        *)
THEOREM LayoutHolds == Spec => []ApplyLayout
<1>1. IInv => ApplyLayout
  <2> SUFFICES ASSUME IInv PROVE ApplyLayout
    OBVIOUS
  <2>1. Placed(pc, Top(acts), Len(stack), stack, locals)
    BY DEF IInv
  <2>2. pc \in {"push", "arguments", "argument"} => LaidOut(stack, Len(stack), locals)
    BY <2>1 DEF Placed
  <2>3. pc = "apply" => LaidOut(stack, Len(stack) - 2, locals) /\ frame_prev(stack) = locals.orig
    BY <2>1 DEF Placed, frame_prev, Fp
  <2>4. ASSUME NEW j \in 1 .. Len(acts), acts[j].at = "argument"
        PROVE  LaidOut(stack, acts[j].height, acts[j].locals)
    BY <2>4 DEF IInv, Frames, Placed
  <2>5. QED
    BY <2>2, <2>3, <2>4 DEF ApplyLayout
<1>2. QED
  BY <1>1, InvariantHolds, PTL

(* However long a program loops by tail calls, eval_frame evaluates in one  *)
(* frame above its caller's, but for the calls through eval.                *)
THEOREM TailCallsHold == Spec => []TailCallsTakeNoStack
<1>1. IInv => TailCallsTakeNoStack
  BY DEF IInv, Placed, Base, TailCallsTakeNoStack
<1>2. QED
  BY <1>1, InvariantHolds, PTL

(* No step writes into the frame of a C function that waits for eval_frame. *)
THEOREM FramesStayIntact == Spec => FramesIntact
<1>1. IInv /\ [Next]_vars
        => [\A j \in 1 .. Len(acts) :
              (j <= Len(acts') /\ acts'[j] = acts[j])
                => SubSeq(stack', 1, acts[j].height) = SubSeq(stack, 1, acts[j].height)]_vars
  BY StepInv DEF Intact
<1>2. QED
  BY <1>1, InvariantHolds, PTL DEF Spec, FramesIntact

-----------------------------------------------------------------------------
(* Objects.                                                                 *)

\* The parts of the objects of S are objects of S.  d is where those are that
\* an object names by number: the environments, vectors and hash tables.
Numbered == {"environ", "vector", "dict"}

IsClosed(S, d) ==
  \A v \in S :
    /\ v.t = "pair" => /\ v.items \in Seq(S) /\ v.items # <<>>
                       /\ v.end \in S /\ v.end.t # "pair"
    /\ v.t = "closure" => v.env \in d["environ"] /\ v.formals \in S /\ v.body \in S
    /\ v.t = "macro" => v.rules \in S
    /\ v.t \in Numbered => v.id \in d[v.t]
    /\ v.t = "fixnum" => v.n \in Int

IsObject(v, d) == \E S : v \in S /\ IsClosed(S, d)

Grows(d, e) == \A t \in Numbered : d[t] \subseteq e[t]

(* Whoever is an object stays one when there are more environments, vectors *)
(* and hash tables.                                                         *)
LEMMA ObjectStays ==
  ASSUME NEW v, NEW d, NEW e, IsObject(v, d), Grows(d, e)
  PROVE  IsObject(v, e)
<1>1. PICK S : v \in S /\ IsClosed(S, d)
  BY DEF IsObject
<1>2. IsClosed(S, e)
  BY <1>1 DEF IsClosed, Grows, Numbered
<1>3. QED
  BY <1>1, <1>2 DEF IsObject

(* What has no parts is an object.                                          *)
LEMMA AtomIsObject ==
  ASSUME NEW v, NEW d, v.t \notin {"pair", "closure", "macro", "fixnum"} \cup Numbered
  PROVE  IsObject(v, d)
<1>1. IsClosed({v}, d)
  BY DEF IsClosed
<1>2. QED
  BY <1>1 DEF IsObject

LEMMA NumberedIsObject ==
  ASSUME NEW v, NEW d, v.t \in Numbered, v.id \in d[v.t]
  PROVE  IsObject(v, d)
<1>1. IsClosed({v}, d)
  BY DEF IsClosed, Numbered
<1>2. QED
  BY <1>1 DEF IsObject

LEMMA NumIsObject ==
  ASSUME NEW n \in Int, NEW d
  PROVE  IsObject(Num(n), d)
<1> DEFINE v == Num(n)
<1>1. v.t = "fixnum" /\ v.n \in Int
  BY DEF Num
<1> HIDE DEF v
<1>2. IsClosed({v}, d)
  BY <1>1 DEF IsClosed, Numbered
<1>3. QED
  BY <1>2 DEF IsObject, v

LEMMA NumberIsInt ==
  ASSUME NEW v, NEW d, IsObject(v, d), v.t = "fixnum"
  PROVE  v.n \in Int
BY DEF IsObject, IsClosed

(* The parts of an object.                                                  *)
LEMMA PartsOfPair ==
  ASSUME NEW v, NEW d, IsObject(v, d), v.t = "pair"
  PROVE  /\ IsSeq(v.items) /\ v.items # <<>> /\ Len(v.items) \in Nat \ {0}
         /\ \A k \in 1 .. Len(v.items) : IsObject(v.items[k], d)
         /\ IsObject(v.end, d) /\ v.end.t # "pair"
<1>1. PICK S : v \in S /\ IsClosed(S, d)
  BY DEF IsObject
<1>2. v.items \in Seq(S) /\ v.items # <<>> /\ v.end \in S /\ v.end.t # "pair"
  BY <1>1 DEF IsClosed
<1>3. IsSeq(v.items)
  BY <1>2, SeqIsSeq
<1>4. Len(v.items) \in Nat \ {0} /\ \A k \in 1 .. Len(v.items) : v.items[k] \in S
  BY <1>2, <1>3, IsSeqProperties, ElementOfSeq
<1>5. QED
  BY <1>1, <1>2, <1>3, <1>4 DEF IsObject

LEMMA PartsOfClosure ==
  ASSUME NEW v, NEW d, IsObject(v, d), v.t = "closure"
  PROVE  v.env \in d["environ"] /\ IsObject(v.formals, d) /\ IsObject(v.body, d)
BY DEF IsObject, IsClosed

LEMMA PartsOfMacro ==
  ASSUME NEW v, NEW d, IsObject(v, d), v.t = "macro"
  PROVE  IsObject(v.rules, d)
BY DEF IsObject, IsClosed

LEMMA NumberOf ==
  ASSUME NEW v, NEW d, IsObject(v, d), v.t \in Numbered
  PROVE  v.id \in d[v.t]
BY DEF IsObject, IsClosed

(* Closed sets together are closed.                                         *)
LEMMA UnionIsClosed ==
  ASSUME NEW F, NEW d, \A S \in F : IsClosed(S, d)
  PROVE  IsClosed(UNION F, d)
<1> SUFFICES ASSUME NEW S \in F, NEW v \in S
             PROVE  /\ v.t = "pair" => /\ v.items \in Seq(UNION F) /\ v.items # <<>>
                                       /\ v.end \in UNION F /\ v.end.t # "pair"
                    /\ v.t = "closure" => /\ v.env \in d["environ"]
                                          /\ v.formals \in UNION F /\ v.body \in UNION F
                    /\ v.t = "macro" => v.rules \in UNION F
                    /\ v.t \in Numbered => v.id \in d[v.t]
                    /\ v.t = "fixnum" => v.n \in Int
  BY DEF IsClosed
<1>1. IsClosed(S, d) /\ S \subseteq UNION F
  OBVIOUS
<1>2. v.t = "pair" => v.items \in Seq(UNION F)
  BY <1>1, SeqMonotonic DEF IsClosed
<1>3. QED
  BY <1>1, <1>2 DEF IsClosed

(* Finitely or infinitely many objects lie in one closed set.               *)
LEMMA ObjectsTogether ==
  ASSUME NEW V, NEW d, \A v \in V : IsObject(v, d)
  PROVE  \E S : V \subseteq S /\ IsClosed(S, d)
<1> DEFINE W(v) == CHOOSE S : v \in S /\ IsClosed(S, d)
           F == {W(v) : v \in V}
<1>1. \A v \in V : v \in W(v) /\ IsClosed(W(v), d)
  BY DEF IsObject
<1> HIDE DEF W
<1>2. IsClosed(UNION F, d)
  <2>1. \A S \in F : IsClosed(S, d)
    BY <1>1
  <2>2. QED
    BY <2>1, UnionIsClosed
<1>3. V \subseteq UNION F
  BY <1>1
<1>4. QED
  BY <1>2, <1>3

(* A closure of objects.                                                    *)
LEMMA ClosureIsObject ==
  ASSUME NEW d, NEW e \in d["environ"], NEW f, IsObject(f, d), NEW b, IsObject(b, d)
  PROVE  IsObject(Closure(e, f, b), d)
<1>1. PICK S : {f, b} \subseteq S /\ IsClosed(S, d)
  <2>1. \A v \in {f, b} : IsObject(v, d)
    OBVIOUS
  <2>2. QED
    BY <2>1, ObjectsTogether
<1> DEFINE v == Closure(e, f, b)
<1>2. v.t = "closure" /\ v.env = e /\ v.formals = f /\ v.body = b
  BY DEF Closure
<1> HIDE DEF v
<1>3. IsClosed(S \cup {v}, d)
  <2>1. \A w \in S : w.t = "pair" => w.items \in Seq(S \cup {v})
    BY <1>1, SeqMonotonic DEF IsClosed
  <2>2. QED
    BY <1>1, <1>2, <2>1 DEF IsClosed, Numbered
<1>4. QED
  BY <1>3 DEF IsObject, v

LEMMA MacroIsObject ==
  ASSUME NEW d, NEW r, IsObject(r, d)
  PROVE  IsObject(Macro(r), d)
<1>1. PICK S : r \in S /\ IsClosed(S, d)
  BY DEF IsObject
<1> DEFINE v == Macro(r)
<1>2. v.t = "macro" /\ v.rules = r
  BY DEF Macro
<1> HIDE DEF v
<1>3. IsClosed(S \cup {v}, d)
  <2>1. \A w \in S : w.t = "pair" => w.items \in Seq(S \cup {v})
    BY <1>1, SeqMonotonic DEF IsClosed
  <2>2. QED
    BY <1>1, <1>2, <2>1 DEF IsClosed, Numbered
<1>4. QED
  BY <1>3 DEF IsObject, v

(* A chain of pairs.                                                        *)
LEMMA PairIsObject ==
  ASSUME NEW d, NEW s, IsSeq(s), s # <<>>, \A k \in 1 .. Len(s) : IsObject(s[k], d),
         NEW end, IsObject(end, d), end.t # "pair"
  PROVE  IsObject([t |-> "pair", items |-> s, end |-> end], d)
<1>1. s \in Seq(Range(s)) /\ DOMAIN s = 1 .. Len(s)
  BY IsSeqProperties DEF IsSeq
<1>2. \A v \in Range(s) \cup {end} : IsObject(v, d)
  BY <1>1 DEF Range
<1>3. PICK S : Range(s) \cup {end} \subseteq S /\ IsClosed(S, d)
  BY <1>2, ObjectsTogether
<1> DEFINE v == [t |-> "pair", items |-> s, end |-> end]
<1>4. v.t = "pair" /\ v.items = s /\ v.end = end
  OBVIOUS
<1> HIDE DEF v
<1>5. IsClosed(S \cup {v}, d)
  <2>1. \A w \in S : w.t = "pair" => w.items \in Seq(S \cup {v})
    BY <1>3, SeqMonotonic DEF IsClosed
  <2>2. s \in Seq(S \cup {v})
    BY <1>1, <1>3, SeqMonotonic
  <2>3. QED
    BY <1>3, <1>4, <2>1, <2>2 DEF IsClosed, Numbered
<1>6. QED
  BY <1>5 DEF IsObject, v

(* The list of objects is one, whatever it ends in.                         *)
LEMMA ListIsObject ==
  ASSUME NEW d, NEW s, IsSeq(s), \A k \in 1 .. Len(s) : IsObject(s[k], d),
         NEW end, IsObject(end, d)
  PROVE  IsObject(List(s, end), d)
<1>1. CASE s = <<>>
  BY <1>1 DEF List
<1>2. CASE s # <<>> /\ end.t # "pair"
  BY <1>2, PairIsObject DEF List
<1>3. CASE s # <<>> /\ end.t = "pair"
  <2> DEFINE u == s \o end.items
  <2>1. /\ IsSeq(end.items) /\ Len(end.items) \in Nat
        /\ \A k \in 1 .. Len(end.items) : IsObject(end.items[k], d)
        /\ IsObject(end.end, d) /\ end.end.t # "pair"
    BY <1>3, PartsOfPair
  <2>2. /\ IsSeq(u) /\ Len(u) = Len(s) + Len(end.items)
        /\ \A i \in 1 .. Len(s) : u[i] = s[i]
        /\ \A i \in 1 .. Len(end.items) : u[Len(s) + i] = end.items[i]
    <3> DEFINE t == end.items
    <3>1. IsSeq(t)
      BY <2>1
    <3> HIDE DEF t
    <3>2. /\ IsSeq(s \o t) /\ Len(s \o t) = Len(s) + Len(t)
          /\ \A i \in 1 .. Len(s) : (s \o t)[i] = s[i]
          /\ \A i \in 1 .. Len(t) : (s \o t)[Len(s) + i] = t[i]
      BY <3>1, Pushed
    <3>3. QED
      BY <3>2 DEF t
  <2>3. Len(s) \in Nat \ {0}
    BY <1>3, IsSeqProperties
  <2> HIDE DEF u
  <2>4. ASSUME NEW k \in 1 .. Len(u) PROVE IsObject(u[k], d)
    <3>1. CASE k \in 1 .. Len(s)
      BY <2>2, <3>1
    <3>2. CASE k \notin 1 .. Len(s)
      <4>1. k - Len(s) \in 1 .. Len(end.items) /\ Len(s) + (k - Len(s)) = k
        BY <2>1, <2>2, <2>3, <3>2
      <4>2. QED
        BY <2>1, <2>2, <4>1
    <3>3. QED
      BY <3>1, <3>2
  <2>5. u # <<>>
    BY <2>1, <2>2, <2>3, IsSeqProperties
  <2>6. IsObject([t |-> "pair", items |-> u, end |-> end.end], d)
    BY <2>1, <2>2, <2>4, <2>5, PairIsObject
  <2>7. QED
    BY <1>3, <2>6 DEF List, u
<1>4. QED
  BY <1>1, <1>2, <1>3
-----------------------------------------------------------------------------
(* The pieces of a list.                                                    *)

(* The slots of s from the m-th on.                                         *)
LEMMA From ==
  ASSUME NEW s, IsSeq(s), NEW m \in 1 .. Len(s) + 1
  PROVE  /\ IsSeq(SubSeq(s, m, Len(s)))
         /\ Len(SubSeq(s, m, Len(s))) = Len(s) - m + 1
         /\ \A i \in 1 .. Len(s) - m + 1 : SubSeq(s, m, Len(s))[i] = s[m + i - 1]
<1>1. Len(s) \in Nat /\ s \in Seq(Range(s)) /\ \A i \in 1 .. Len(s) : s[i] \in Range(s)
  BY IsSeqProperties DEF IsSeq
<1>2. m \in Int /\ Len(s) \in Int /\ \A i \in m .. Len(s) : s[i] \in Range(s)
  BY <1>1
<1>3. /\ SubSeq(s, m, Len(s)) \in Seq(Range(s))
      /\ Len(SubSeq(s, m, Len(s))) = IF m <= Len(s) THEN Len(s) - m + 1 ELSE 0
      /\ \A i \in 1 .. Len(s) - m + 1 : SubSeq(s, m, Len(s))[i] = s[m + i - 1]
  BY <1>2, SubSeqProperties
<1>4. Len(SubSeq(s, m, Len(s))) = Len(s) - m + 1
  BY <1>1, <1>3
<1>5. QED
  BY <1>3, <1>4, SeqIsSeq

LEMMA TailOf ==
  ASSUME NEW s, IsSeq(s), s # <<>>
  PROVE  /\ IsSeq(Tail(s)) /\ Len(Tail(s)) = Len(s) - 1
         /\ \A i \in 1 .. Len(s) - 1 : Tail(s)[i] = s[i + 1]
         /\ Head(s) = s[1] /\ Len(s) \in Nat \ {0}
<1>1. s \in Seq(Range(s)) /\ Len(s) \in Nat \ {0}
  BY IsSeqProperties DEF IsSeq
<1>2. /\ Tail(s) \in Seq(Range(s)) /\ Len(Tail(s)) = Len(s) - 1
      /\ \A i \in 1 .. Len(s) - 1 : Tail(s)[i] = s[i + 1]
  BY <1>1, HeadTailProperties
<1>3. Head(s) = s[1]
  BY <1>1
<1>4. QED
  BY <1>1, <1>2, <1>3, SeqIsSeq

(* Sequences with the same elements are the same.                           *)
LEMMA SameSeq ==
  ASSUME NEW s, IsSeq(s), NEW t, IsSeq(t), Len(s) = Len(t),
         \A i \in 1 .. Len(s) : s[i] = t[i]
  PROVE  s = t
<1> DEFINE S == Range(s) \cup Range(t)
<1>1. s \in Seq(S) /\ t \in Seq(S)
  BY SeqMonotonic DEF IsSeq
<1>2. QED
  BY <1>1, SeqEqual

LEMMA TailIsFrom ==
  ASSUME NEW s, IsSeq(s), NEW m \in 1 .. Len(s)
  PROVE  Tail(SubSeq(s, m, Len(s))) = SubSeq(s, m + 1, Len(s))
<1> DEFINE t == SubSeq(s, m, Len(s))
           u == SubSeq(s, m + 1, Len(s))
<1>1. Len(s) \in Nat /\ m \in 1 .. Len(s) + 1 /\ m + 1 \in 1 .. Len(s) + 1
  BY IsSeqProperties
<1>2. /\ IsSeq(t) /\ Len(t) = Len(s) - m + 1
      /\ \A i \in 1 .. Len(s) - m + 1 : t[i] = s[m + i - 1]
  BY <1>1, From
<1>3. /\ IsSeq(u) /\ Len(u) = Len(s) - (m + 1) + 1
      /\ \A i \in 1 .. Len(s) - (m + 1) + 1 : u[i] = s[m + 1 + i - 1]
  BY <1>1, From
<1> HIDE DEF t, u
<1>4. t # <<>>
  BY <1>1, <1>2, IsSeqProperties
<1>5. /\ IsSeq(Tail(t)) /\ Len(Tail(t)) = Len(t) - 1
      /\ \A i \in 1 .. Len(t) - 1 : Tail(t)[i] = t[i + 1]
  BY <1>2, <1>4, TailOf
<1>6. Len(Tail(t)) = Len(u)
  BY <1>1, <1>2, <1>3, <1>5
<1>7. ASSUME NEW i \in 1 .. Len(u) PROVE Tail(t)[i] = u[i]
  <2>1. i \in 1 .. Len(t) - 1 /\ i + 1 \in 1 .. Len(s) - m + 1 /\ i \in 1 .. Len(s) - (m + 1) + 1
    BY <1>1, <1>2, <1>3
  <2>2. Tail(t)[i] = s[m + (i + 1) - 1] /\ u[i] = s[m + 1 + i - 1]
    BY <1>2, <1>3, <1>5, <2>1
  <2>3. m + (i + 1) - 1 = m + 1 + i - 1
    BY <1>1
  <2>4. QED
    BY <2>2, <2>3
<1>8. Tail(t) = u
  BY <1>3, <1>5, <1>6, <1>7, SameSeq
<1>9. QED
  BY <1>8 DEF t, u

LEMMA FirstIsItself ==
  ASSUME NEW s, IsSeq(s)
  PROVE  SubSeq(s, 1, Len(s)) = s
<1>1. Len(s) \in Nat /\ 1 \in 1 .. Len(s) + 1
  BY IsSeqProperties
<1>2. /\ IsSeq(SubSeq(s, 1, Len(s))) /\ Len(SubSeq(s, 1, Len(s))) = Len(s)
      /\ \A i \in 1 .. Len(s) : SubSeq(s, 1, Len(s))[i] = s[i]
  BY <1>1, Prefix
<1>3. QED
  BY <1>2, SameSeq

(* The first of a list and the rest.                                        *)
LEMMA CarAndCdr ==
  ASSUME NEW v, NEW d, IsObject(v, d), v.t = "pair"
  PROVE  /\ IsObject(Car(v), d) /\ Car(v) = v.items[1]
         /\ IsObject(Cdr(v), d)
         /\ Cdr(v).t = "pair" => /\ Cdr(v).items = Tail(v.items) /\ Cdr(v).end = v.end
                                 /\ Len(v.items) >= 2
         /\ Cdr(v).t # "pair" => Cdr(v) = v.end
<1>1. /\ IsSeq(v.items) /\ v.items # <<>> /\ Len(v.items) \in Nat \ {0}
      /\ \A k \in 1 .. Len(v.items) : IsObject(v.items[k], d)
      /\ IsObject(v.end, d) /\ v.end.t # "pair"
  BY PartsOfPair
<1>2. /\ IsSeq(Tail(v.items)) /\ Len(Tail(v.items)) = Len(v.items) - 1
      /\ \A i \in 1 .. Len(v.items) - 1 : Tail(v.items)[i] = v.items[i + 1]
      /\ Head(v.items) = v.items[1]
  BY <1>1, TailOf
<1>3. Car(v) = v.items[1] /\ IsObject(Car(v), d)
  BY <1>1, <1>2 DEF Car
<1>4. IsObject(Cdr(v), d)
  <2>1. \A k \in 1 .. Len(Tail(v.items)) : IsObject(Tail(v.items)[k], d)
    BY <1>1, <1>2
  <2>2. QED
    BY <1>1, <1>2, <2>1, ListIsObject DEF Cdr
<1>5. Tail(v.items) = <<>> => Cdr(v) = v.end
  BY DEF Cdr, List
<1>6. Tail(v.items) # <<>> =>
        /\ Cdr(v) = [t |-> "pair", items |-> Tail(v.items), end |-> v.end]
        /\ Len(v.items) >= 2
  <2>1. Tail(v.items) # <<>> => Len(Tail(v.items)) # 0
    BY <1>2, IsSeqProperties
  <2>2. QED
    BY <1>1, <1>2, <2>1 DEF Cdr, List
<1>7. CASE Tail(v.items) = <<>>
  BY <1>1, <1>3, <1>4, <1>5, <1>7
<1>8. CASE Tail(v.items) # <<>>
  <2> DEFINE r == Tail(v.items)
  <2>1. Cdr(v) = [t |-> "pair", items |-> r, end |-> v.end] /\ Len(v.items) >= 2
    BY <1>6, <1>8
  <2> HIDE DEF r
  <2>2. Cdr(v).t = "pair" /\ Cdr(v).items = r /\ Cdr(v).end = v.end
    BY <2>1
  <2>3. QED
    BY <1>3, <1>4, <2>1, <2>2 DEF r
<1>9. QED
  BY <1>7, <1>8

\* iter is what is left of w after some of its pairs.
Suffix(iter, w) ==
  \/ iter = w
  \/ /\ w.t = "pair"
     /\ \/ iter = w.end
        \/ \E k \in DOMAIN w.items : iter = List(SubSeq(w.items, k, Len(w.items)), w.end)

LEMMA SuffixIsPiece ==
  ASSUME NEW v, NEW w, Suffix(v, w)
  PROVE  v \in Pieces(w)
BY DEF Suffix, Pieces

(* A loop over a list stays in it.                                          *)
LEMMA CdrIsSuffix ==
  ASSUME NEW iter, NEW w, NEW d, IsObject(w, d), Suffix(iter, w), iter.t = "pair"
  PROVE  Suffix(Cdr(iter), w)
<1> DEFINE s == w.items
           From1(k) == List(SubSeq(s, k, Len(s)), w.end)
<1>1. w.t = "pair" /\ iter # w.end
  <2>1. iter = w \/ w.t = "pair"
    BY DEF Suffix
  <2>2. w.t = "pair"
    BY <2>1
  <2>3. QED
    BY <2>2, PartsOfPair
<1>2. /\ IsSeq(s) /\ s # <<>> /\ Len(s) \in Nat \ {0} /\ DOMAIN s = 1 .. Len(s)
      /\ w.end.t # "pair"
  BY <1>1, PartsOfPair, IsSeqProperties
<1>3. ASSUME NEW k \in 1 .. Len(s), Cdr(iter) = List(Tail(SubSeq(s, k, Len(s))), w.end)
      PROVE  Suffix(Cdr(iter), w)
  <2>1. Tail(SubSeq(s, k, Len(s))) = SubSeq(s, k + 1, Len(s))
    BY <1>2, TailIsFrom
  <2>2. CASE k + 1 \in 1 .. Len(s)
    BY <1>1, <1>2, <1>3, <2>1, <2>2 DEF Suffix
  <2>3. CASE k + 1 \notin 1 .. Len(s)
    <3>1. k + 1 \in 1 .. Len(s) + 1 /\ Len(s) - (k + 1) + 1 = 0
      BY <1>2, <2>3
    <3>2. IsSeq(SubSeq(s, k + 1, Len(s))) /\ Len(SubSeq(s, k + 1, Len(s))) = 0
      BY <1>2, <3>1, From
    <3>3. SubSeq(s, k + 1, Len(s)) = <<>>
      BY <3>2, IsSeqProperties
    <3>4. Cdr(iter) = w.end
      BY <1>3, <2>1, <3>3 DEF List
    <3>5. QED
      BY <1>1, <3>4 DEF Suffix
  <2>4. QED
    BY <2>2, <2>3
<1>4. CASE iter = w
  <2>1. Cdr(iter) = List(Tail(SubSeq(s, 1, Len(s))), w.end)
    BY <1>2, <1>4, FirstIsItself DEF Cdr
  <2>2. QED
    BY <1>2, <1>3, <2>1
<1>5. ASSUME NEW k \in 1 .. Len(s), iter = From1(k)
      PROVE  Suffix(Cdr(iter), w)
  <2>1. k \in 1 .. Len(s) + 1 /\ Len(s) - k + 1 > 0
    BY <1>2
  <2>2. IsSeq(SubSeq(s, k, Len(s))) /\ Len(SubSeq(s, k, Len(s))) = Len(s) - k + 1
    BY <1>2, <2>1, From
  <2>3. SubSeq(s, k, Len(s)) # <<>>
    BY <2>1, <2>2, IsSeqProperties
  <2>4. iter = [t |-> "pair", items |-> SubSeq(s, k, Len(s)), end |-> w.end]
    BY <1>2, <1>5, <2>3 DEF List
  <2>5. Cdr(iter) = List(Tail(SubSeq(s, k, Len(s))), w.end)
    BY <2>4 DEF Cdr
  <2>6. QED
    BY <1>3, <2>5
<1>6. QED
  BY <1>1, <1>2, <1>4, <1>5 DEF Suffix

(* The pieces of an object are objects.                                     *)
LEMMA PieceIsObject ==
  ASSUME NEW v, NEW w, NEW d, IsObject(w, d), v \in Pieces(w)
  PROVE  IsObject(v, d)
<1>1. CASE w.t # "pair"
  BY <1>1 DEF Pieces
<1>2. CASE w.t = "pair"
  <2> DEFINE s == w.items
  <2>1. /\ IsSeq(s) /\ Len(s) \in Nat /\ DOMAIN s = 1 .. Len(s)
        /\ \A k \in 1 .. Len(s) : IsObject(s[k], d)
        /\ IsObject(w.end, d) /\ w.end.t # "pair"
    BY <1>2, PartsOfPair, IsSeqProperties
  <2>2. ASSUME NEW k \in 1 .. Len(s) PROVE IsObject(List(SubSeq(s, k, Len(s)), w.end), d)
    <3>1. k \in 1 .. Len(s) + 1
      BY <2>1
    <3> DEFINE t == SubSeq(s, k, Len(s))
    <3>2. /\ IsSeq(t) /\ Len(t) = Len(s) - k + 1
          /\ \A i \in 1 .. Len(s) - k + 1 : t[i] = s[k + i - 1]
      BY <2>1, <3>1, From
    <3> HIDE DEF t
    <3>3. \A i \in 1 .. Len(t) : IsObject(t[i], d)
      <4>1. \A i \in 1 .. Len(s) - k + 1 : k + i - 1 \in 1 .. Len(s)
        BY <2>1
      <4>2. QED
        BY <2>1, <3>2, <4>1
    <3>4. IsObject(List(t, w.end), d)
      BY <2>1, <3>2, <3>3, ListIsObject
    <3>5. QED
      BY <3>4 DEF t
  <2>3. \/ v = w \/ v = w.end \/ v \in Range(s)
        \/ \E k \in 1 .. Len(s) : v = List(SubSeq(s, k, Len(s)), w.end)
    BY <1>2, <2>1 DEF Pieces
  <2>4. v \in Range(s) => IsObject(v, d)
    BY <2>1 DEF Range
  <2>5. QED
    BY <2>1, <2>2, <2>3, <2>4
<1>3. QED
  BY <1>1, <1>2

\* v is a piece of w, or of the objects that are never freed.
RootedIn(v, w) == NeverFreed(v) \/ v \in Pieces(w)

LEMMA RootedIsObject ==
  ASSUME NEW v, NEW w, NEW d, IsObject(w, d), RootedIn(v, w)
  PROVE  IsObject(v, d)
<1>1. NeverFreed(v) => IsObject(v, d)
  BY AtomIsObject DEF NeverFreed, Numbered
<1>2. QED
  BY <1>1, PieceIsObject DEF RootedIn
-----------------------------------------------------------------------------
(* The environments, the vectors and hash tables, and the lines to read.    *)

\* An environment is inside an earlier one, or none, and binds objects.
EnvsSound(d) ==
  /\ IsSeq(envs) /\ d["environ"] = 1 .. Len(envs)
  /\ \A i \in 1 .. Len(envs) :
       /\ envs[i] = [outer |-> envs[i].outer, table |-> envs[i].table]
       /\ envs[i].outer \in 0 .. i - 1
       /\ \A x \in DOMAIN envs[i].table : IsObject(envs[i].table[x], d)

\* A vector holds objects from number 0 on; a hash table is no vector.
StoreSound(d) ==
  /\ IsSeq(store)
  /\ d["vector"] \cup d["dict"] \subseteq 1 .. Len(store)
  /\ d["vector"] \cap d["dict"] = {}
  /\ \A i \in 1 .. Len(store) : \A x \in DOMAIN store[i] : IsObject(store[i][x], d)
  /\ \A i \in d["vector"] : \E n \in Nat : DOMAIN store[i] = 0 .. n - 1

InputSound == input \in Seq(Seq(Expressions \cup {Error}))

World(d) == EnvsSound(d) /\ StoreSound(d) /\ InputSound

(* A nonempty set of numbers has a least one, which replaces induction.     *)
LEMMA LeastMember ==
  ASSUME NEW D \in SUBSET Nat, D # {}
  PROVE  \E m \in D : \A n \in D : m <= n
<1> DEFINE Intervals == {0 .. (n - 1) : n \in D}
<1>1. Intervals \subseteq FiniteSubsetsOf(Nat) /\ Intervals # {}
  <2>1. \A n \in D : IsFiniteSet(0 .. (n - 1)) /\ 0 .. (n - 1) \subseteq Nat
    BY FS_Interval
  <2>2. QED
    BY <2>1 DEF FiniteSubsetsOf
<1>2. PICK least \in Intervals :
        \A other \in Intervals : <<other, least>> \notin StrictSubsetOrdering(Nat)
  <2> HIDE DEF Intervals
  <2>1. QED
    BY <1>1, WFMin, FS_StrictSubsetOrderingWellFounded
<1>3. PICK m \in D : least = 0 .. (m - 1)
  OBVIOUS
<1>4. ASSUME NEW n \in D, n < m PROVE FALSE
  <2>1. 0 .. (n - 1) \in Intervals /\ <<0 .. (n - 1), least>> \in (SUBSET Nat) \X (SUBSET Nat)
    BY <1>3
  <2>2. n \in least /\ n \notin 0 .. (n - 1) /\ 0 .. (n - 1) \subseteq least
    BY <1>3, <1>4
  <2>3. QED
    BY <1>2, <2>1, <2>2 DEF StrictSubsetOrdering
<1>5. QED
  BY <1>4

\* The search for x in the environments up to e, as a function.
Searches(f, e, x) ==
  f = [i \in 0 .. e |-> IF i = 0 \/ x \in DOMAIN envs[i].table THEN i ELSE f[envs[i].outer]]

(* The search ends, since environments lie in earlier ones.                 *)
LEMMA SearchExists ==
  ASSUME NEW d, EnvsSound(d), NEW e \in 0 .. Len(envs), NEW x
  PROVE  \E f : Searches(f, e, x)
<1> DEFINE D == {n \in 0 .. Len(envs) : ~ \E f : Searches(f, n, x)}
<1>1. Len(envs) \in Nat /\ \A i \in 1 .. Len(envs) : envs[i].outer \in 0 .. i - 1
  BY IsSeqProperties DEF EnvsSound
<1> SUFFICES ASSUME D # {} PROVE FALSE
  OBVIOUS
<1>2. PICK m \in D : \A n \in D : m <= n
  <2>1. D \in SUBSET Nat
    BY <1>1
  <2> HIDE DEF D
  <2>2. QED
    BY <2>1, LeastMember
<1>3. CASE m = 0
  <2> DEFINE f == [i \in 0 .. 0 |-> i]
  <2>1. f = [i \in 0 .. 0 |-> IF i = 0 \/ x \in DOMAIN envs[i].table THEN i ELSE f[envs[i].outer]]
    OBVIOUS
  <2> HIDE DEF f
  <2>2. Searches(f, 0, x)
    BY <2>1 DEF Searches
  <2>3. QED
    BY <1>3, <2>2
<1>4. CASE m # 0
  <2>1. m \in 1 .. Len(envs) /\ m - 1 \in 0 .. Len(envs) /\ m - 1 \notin D
    BY <1>1, <1>2, <1>4
  <2>2. PICK g : Searches(g, m - 1, x)
    BY <2>1
  <2> DEFINE f == [i \in 0 .. m |-> IF i < m THEN g[i]
                                    ELSE IF x \in DOMAIN envs[m].table THEN m
                                    ELSE g[envs[m].outer]]
  <2>3. ASSUME NEW i \in 0 .. m
        PROVE  f[i] = IF i = 0 \/ x \in DOMAIN envs[i].table THEN i ELSE f[envs[i].outer]
    <3>1. CASE i = 0
      <4>1. f[i] = g[0] /\ 0 \in 0 .. m - 1
        BY <1>1, <2>1, <3>1
      <4>2. g[0] = 0
        BY <4>1, <2>2 DEF Searches
      <4>3. QED
        BY <3>1, <4>1, <4>2
    <3>2. CASE i # 0
      <4>1. i \in 1 .. Len(envs) /\ envs[i].outer \in 0 .. i - 1
        BY <1>1, <2>1, <3>2
      <4>2. envs[i].outer \in 0 .. m /\ envs[i].outer < m
        BY <1>1, <2>1, <4>1
      <4>3. f[envs[i].outer] = g[envs[i].outer]
        BY <4>2
      <4>4. CASE i < m
        <5>1. i \in 0 .. m - 1 /\ f[i] = g[i]
          BY <1>1, <2>1, <4>4
        <5>2. g[i] = IF i = 0 \/ x \in DOMAIN envs[i].table THEN i ELSE g[envs[i].outer]
          BY <2>2, <5>1 DEF Searches
        <5>3. QED
          BY <4>3, <5>1, <5>2
      <4>5. CASE ~ i < m
        <5>1. i = m
          BY <1>1, <2>1, <4>5
        <5>2. f[m] = IF x \in DOMAIN envs[m].table THEN m ELSE g[envs[m].outer]
          BY <2>1
        <5>3. QED
          BY <3>2, <4>3, <5>1, <5>2
      <4>6. QED
        BY <4>4, <4>5
    <3>3. QED
      BY <3>1, <3>2
  <2>4. f = [i \in 0 .. m |-> f[i]]
    OBVIOUS
  <2> HIDE DEF f
  <2>5. f = [i \in 0 .. m |-> IF i = 0 \/ x \in DOMAIN envs[i].table THEN i ELSE f[envs[i].outer]]
    BY <2>3, <2>4
  <2>6. QED
    BY <2>5 DEF Searches
<1>5. QED
  BY <1>3, <1>4

(* It ends at an environment that binds x, or at 0.                         *)
LEMMA ScopeSound ==
  ASSUME NEW d, EnvsSound(d), NEW e \in 0 .. Len(envs), NEW x
  PROVE  /\ Scope(e, x) \in 0 .. e
         /\ Scope(e, x) # 0 => x \in DOMAIN envs[Scope(e, x)].table
<1>1. Len(envs) \in Nat /\ \A i \in 1 .. Len(envs) : envs[i].outer \in 0 .. i - 1
  BY IsSeqProperties DEF EnvsSound
<1>2. PICK f : Searches(f, e, x) /\ Scope(e, x) = f[e]
  <2> DEFINE f == CHOOSE f : Searches(f, e, x)
  <2>1. Searches(f, e, x)
    BY SearchExists
  <2>2. Scope(e, x) = f[e]
    BY DEF Scope, Searches
  <2>3. QED
    BY <2>1, <2>2
<1>3. \A i \in 0 .. e : f[i] = IF i = 0 \/ x \in DOMAIN envs[i].table THEN i ELSE f[envs[i].outer]
  BY <1>2 DEF Searches
<1> DEFINE Good(i) == f[i] \in 0 .. i /\ (f[i] # 0 => x \in DOMAIN envs[f[i]].table)
           D == {i \in 0 .. e : ~ Good(i)}
<1>4. D = {}
  <2> SUFFICES ASSUME D # {} PROVE FALSE
    OBVIOUS
  <2>1. PICK m \in D : \A n \in D : m <= n
    <3>1. D \in SUBSET Nat
      BY <1>1
    <3> HIDE DEF D
    <3>2. QED
      BY <3>1, LeastMember
  <2>2. ~ Good(m) /\ m \in 0 .. e
    OBVIOUS
  <2>3. m # 0 /\ x \notin DOMAIN envs[m].table
    BY <1>1, <1>3, <2>2
  <2>4. f[m] = f[envs[m].outer] /\ envs[m].outer \in 0 .. m - 1
    BY <1>1, <1>3, <2>2, <2>3
  <2>5. envs[m].outer \in 0 .. e /\ envs[m].outer < m
    BY <1>1, <2>2, <2>4
  <2>6. Good(envs[m].outer)
    BY <1>1, <2>1, <2>2, <2>5
  <2>7. QED
    BY <1>1, <2>2, <2>4, <2>6
<1>5. Good(e)
  BY <1>1, <1>4
<1>6. QED
  BY <1>2, <1>5
-----------------------------------------------------------------------------
(* The inductive invariant.                                                 *)

\* What the C function at the place `at', with the frame pointer h and the
\* locals l, relies on: where environments are, and in which slot of its frame
\* the objects are that its locals refer to.
Holds(at, h, s, l) ==
  /\ at \in {"eval", "if", "define", "set!", "begin", "macro", "operator", "apply", "load"}
       => s[h].t = "environ"
  /\ at \in {"if", "define", "set!", "begin"} => s[h - 3].t = "environ"
  /\ at \in {"push", "arguments", "argument", "apply"} => s[l.orig].t = "environ"
  /\ at \in {"eval", "if", "define", "set!", "begin", "macro", "operator"} => l.proc = Null
  /\ at = "load" => l.proc = Null \/ (l.orig + 1 \in 1 .. h - 3 /\ s[l.orig + 1] = l.proc)
  /\ at \in {"macro", "argument"} => l.held = <<>>
  /\ at = "if" => /\ l.held = <<l.held[1], l.held[2]>>
                  /\ RootedIn(l.held[1], s[h - 2]) /\ RootedIn(l.held[2], s[h - 2])
  /\ at \in {"define", "set!", "begin", "operator", "load"} => l.held = <<l.held[1]>>
  /\ at \in {"define", "set!"} => l.held[1].t = "symbol"
  /\ at \in {"begin", "operator", "load"} => Suffix(l.held[1], s[h - 2])
  /\ at = "load" => l.held[1].t = "pair" /\ l.held[1].end = Nil

Machine(d) ==
  /\ \A i \in 1 .. Len(stack) : IsObject(stack[i], d)
  /\ stack[2].t = "environ"
  /\ IsObject(val, d)
  /\ pc = "push" => IsObject(locals.held[1], d)
  /\ Holds(pc, Len(stack), stack, locals)
  /\ \A j \in 1 .. Len(acts) : Holds(acts[j].at, acts[j].height, stack, acts[j].locals)

RInv == \E d : World(d) /\ Machine(d)

(* It depends on the slots of the function only.                            *)
LEMMA HoldsKept ==
  ASSUME NEW at \in Waiting, NEW below \in Nat, NEW h \in Nat, NEW s, NEW t, NEW l, IsLocals(l),
         Placed(at, below, h, s, l), Holds(at, h, s, l), \A i \in 1 .. h : t[i] = s[i]
  PROVE  Holds(at, h, t, l)
<1>1. below + 3 <= Base(below, l) /\ Base(below, l) \in Nat /\ l.orig \in Nat /\ l.argc \in Nat
  BY DEF IsLocals, Base
<1>2. at \in {"if", "define", "set!", "begin"}
        => h \in 1 .. h /\ h - 3 \in 1 .. h /\ h - 2 \in 1 .. h
  BY <1>1 DEF Placed
<1>3. at \in {"macro", "operator"} => h \in 1 .. h /\ h - 2 \in 1 .. h
  BY <1>1 DEF Placed
<1>4. at = "load" => h \in 1 .. h /\ h - 2 \in 1 .. h /\ 1 .. h - 3 \subseteq 1 .. h
  BY DEF Placed
<1>5. at = "argument" => l.orig \in 1 .. h
  BY <1>1 DEF Placed, LaidOut
<1>6. at \notin {"eval", "apply", "push", "arguments"}
  BY DEF Waiting, CallEcName
<1>7. CASE at \in {"if", "define", "set!", "begin"}
  BY <1>2, <1>7 DEF Holds
<1>8. CASE at \in {"macro", "operator"}
  BY <1>3, <1>8 DEF Holds
<1>9. CASE at = "load"
  BY <1>4, <1>9 DEF Holds
<1>10. CASE at = "argument"
  BY <1>5, <1>10 DEF Holds
<1>11. CASE at \notin {"if", "define", "set!", "begin", "macro", "operator", "load", "argument"}
  BY <1>6, <1>11 DEF Holds
<1>12. QED
  BY <1>7, <1>8, <1>9, <1>10, <1>11

(* The functions that wait do not notice what happens above their frames.   *)
LEMMA WaitingHold ==
  ASSUME IInv, NEW d, Machine(d), NEW t, Has(t, stack, Top(acts))
  PROVE  /\ \A j \in 1 .. Len(acts) : Holds(acts[j].at, acts[j].height, t, acts[j].locals)
         /\ t[2].t = "environ"
<1>1. Frames(acts, stack)
  BY DEF IInv
<1>2. ASSUME NEW j \in 1 .. Len(acts)
      PROVE  Holds(acts[j].at, acts[j].height, t, acts[j].locals)
  <2>1. /\ acts[j].at \in Waiting /\ IsLocals(acts[j].locals)
        /\ Placed(acts[j].at, Below(acts, j - 1), acts[j].height, stack, acts[j].locals)
    BY <1>1 DEF Frames, IsAct
  <2>2. /\ acts[j].height \in Nat /\ acts[j].height <= Top(acts) /\ Top(acts) \in Nat
        /\ Below(acts, j - 1) \in Nat
    <3>1. j - 1 \in 0 .. Len(acts)
      BY <1>1, FramesUnderTop
    <3>2. QED
      BY <1>1, <3>1, FramesUnderTop
  <2>3. \A i \in 1 .. acts[j].height : t[i] = stack[i]
    BY <2>2 DEF Has
  <2>4. Holds(acts[j].at, acts[j].height, stack, acts[j].locals)
    BY DEF Machine
  <2>5. QED
    BY <2>1, <2>2, <2>3, <2>4, HoldsKept
<1>3. 2 \in 1 .. Top(acts)
  <2>1. 0 \in 0 .. Len(acts) /\ Top(acts) \in Nat /\ Below(acts, 0) <= Top(acts)
    BY <1>1, FramesUnderTop
  <2>2. QED
    BY <2>1 DEF Below
<1>4. QED
  BY <1>2, <1>3 DEF Machine, Has

-----------------------------------------------------------------------------
(* The patterns of steps.                                                   *)

(* eval_frame goes on.                                                      *)
LEMMA MachineRuns ==
  ASSUME IInv, NEW d, Machine(d), NEW e, Grows(d, e),
         acts' = acts, Has(stack', stack, Top(acts)),
         \A i \in 1 .. Len(stack') : IsObject(stack'[i], e),
         IsObject(val', e), pc' = "push" => IsObject(locals'.held[1], e),
         Holds(pc', Len(stack'), stack', locals')
  PROVE  Machine(e)'
BY WaitingHold DEF Machine

(* The stack of the next state, where it does not change.                   *)
LEMMA StackStays ==
  ASSUME NEW d, Machine(d), NEW e, Grows(d, e)
  PROVE  /\ \A i \in 1 .. Len(stack) : IsObject(stack[i], e)
         /\ IsObject(val, e)
BY ObjectStays DEF Machine

(* It returns an object, or the process ends.                               *)
LEMMA MachineEnds ==
  ASSUME IInv, NEW d, Machine(d), NEW e, Grows(d, e),
         Fatal \/ \E v : IsObject(v, e) /\ (Ret(v) \/ Result(v))
  PROVE  Machine(e)'
<1>1. UNCHANGED <<stack, acts, locals>> /\ pc' \in {"fatal", "lost", "return"} /\ IsObject(val', e)
  <2>1. CASE Fatal
    BY <2>1, StackStays DEF Fatal
  <2>2. ASSUME NEW v, IsObject(v, e), Ret(v)
        PROVE  UNCHANGED <<stack, acts, locals>> /\ pc' = "return" /\ IsObject(val', e)
    BY <2>2 DEF Ret
  <2>3. ASSUME NEW v, IsObject(v, e), Result(v)
        PROVE  UNCHANGED <<stack, acts, locals>> /\ pc' \in {"fatal", "lost", "return"} /\ IsObject(val', e)
    <3>1. CASE v = Error
      BY <2>3, <3>1, StackStays DEF Result, Fatal
    <3>2. CASE v # Error /\ v = Undefined
      BY <2>3, <3>2, StackStays DEF Result
    <3>3. CASE v # Error /\ v # Undefined
      BY <2>3, <3>3 DEF Result, Ret
    <3>4. QED
      BY <3>1, <3>2, <3>3
  <2>4. QED
    BY <2>1, <2>2, <2>3
<1>2. Has(stack', stack, Top(acts))
  BY <1>1, StateFacts
<1>3. Holds(pc', Len(stack'), stack', locals')
  BY <1>1 DEF Holds
<1>4. QED
  BY <1>1, <1>2, <1>3, StackStays, MachineRuns

\* All slots of s are objects, and its last frame has an environment.
IsStack(s, d) == /\ IsSeq(s) /\ s[Len(s)].t = "environ"
                 /\ \A i \in 1 .. Len(s) : IsObject(s[i], d)

(* The slot of the last frame is written to.                                *)
LEMMA SlotHolds ==
  ASSUME NEW d, NEW s, IsStack(s, d), Len(s) >= 3, NEW x, IsObject(x, d)
  PROVE  IsStack(SetSlot(s, x), d) /\ Len(SetSlot(s, x)) = Len(s)
         /\ SetSlot(s, x)[Len(s) - 2] = x
<1>1. IsSeq(s) /\ Len(s) \in Nat /\ DOMAIN s = 1 .. Len(s)
  BY IsSeqProperties DEF IsStack
<1> DEFINE k == Len(s) - 2
           t == SetSlot(s, x)
<1>2. k \in 1 .. Len(s) /\ Len(s) \in 1 .. Len(s) /\ k # Len(s)
  <2>1. \A n \in Nat : n >= 3 => n - 2 \in 1 .. n /\ n \in 1 .. n /\ n - 2 # n
    OBVIOUS
  <2>2. QED
    BY <1>1, <2>1
<1>3. t = [s EXCEPT ![k] = x]
  BY DEF SetSlot
<1> HIDE DEF k, t
<1>4. IsSeq(t)
  BY <1>1, <1>2, <1>3, IsWritten
<1>5. Len(t) = Len(s)
  BY <1>1, <1>2, <1>3, IsWritten
<1>6. \A i \in 1 .. Len(s) : i # k => t[i] = s[i]
  BY <1>1, <1>2, <1>3, IsWritten
<1>7. t[k] = x
  BY <1>1, <1>2, <1>3
<1>8. IsStack(t, d)
  BY <1>2, <1>4, <1>5, <1>6, <1>7 DEF IsStack
<1>9. QED
  BY <1>5, <1>7, <1>8 DEF t, k

(* frame_extend.                                                            *)
LEMMA FrameHolds ==
  ASSUME NEW d, NEW s, IsStack(s, d), Len(s) >= 1, NEW x, IsObject(x, d)
  PROVE  /\ IsStack(Frame(s, x), d) /\ Len(Frame(s, x)) = Len(s) + 3
         /\ \A i \in 1 .. Len(s) : Frame(s, x)[i] = s[i]
         /\ Frame(s, x)[Len(s) + 1] = x
         /\ Frame(s, x)[Len(s) + 3].t = "environ"
<1>1. IsSeq(s) /\ Len(s) \in Nat
  BY IsSeqProperties DEF IsStack
<1> DEFINE t == <<x, Fp(Len(s)), s[Len(s)]>>
           u == Frame(s, x)
<1>2. IsSeq(t) /\ Len(t) = 3 /\ t[1] = x /\ t[2] = Fp(Len(s)) /\ t[3] = s[Len(s)]
  BY Tuples
<1>3. u = s \o t
  BY DEF Frame, frame_env
<1> HIDE DEF t
<1>4. /\ IsSeq(u) /\ Len(u) = Len(s) + Len(t)
      /\ \A i \in 1 .. Len(s) : u[i] = s[i]
      /\ \A i \in 1 .. Len(t) : u[Len(s) + i] = t[i]
  <2> HIDE DEF u
  <2>1. IsSeq(s) /\ IsSeq(t)
    BY <1>1, <1>2
  <2>2. IsSeq(u)
    BY <1>3, <2>1, IsPushed
  <2>3. Len(u) = Len(s) + Len(t)
    BY <1>3, <2>1, IsPushed
  <2>4. \A i \in 1 .. Len(s) : u[i] = s[i]
    BY <1>3, <2>1, IsPushed
  <2>5. \A i \in 1 .. Len(t) : u[Len(s) + i] = t[i]
    BY <1>3, <2>1, IsPushed
  <2>6. QED
    BY <2>2, <2>3, <2>4, <2>5
<1>5. /\ IsSeq(u) /\ Len(u) = Len(s) + 3
      /\ \A i \in 1 .. Len(s) : u[i] = s[i]
      /\ u[Len(s) + 1] = x /\ u[Len(s) + 2] = Fp(Len(s)) /\ u[Len(s) + 3] = s[Len(s)]
  BY <1>2, <1>3, <1>4
<1> HIDE DEF u
<1>6. IsObject(Fp(Len(s)), d)
  BY AtomIsObject DEF Fp, Numbered
<1>7. IsObject(s[Len(s)], d) /\ s[Len(s)].t = "environ"
  BY <1>1 DEF IsStack
<1>8. ASSUME NEW i \in 1 .. Len(u) PROVE IsObject(u[i], d)
  <2>1. i \in 1 .. Len(s) \/ i = Len(s) + 1 \/ i = Len(s) + 2 \/ i = Len(s) + 3
    BY <1>1, <1>5
  <2>2. QED
    BY <1>5, <1>6, <1>7, <2>1 DEF IsStack
<1>9. QED
  BY <1>5, <1>7, <1>8 DEF IsStack, u

(* eval_frame starts over.                                                  *)
LEMMA MachineTailCalls ==
  ASSUME IInv, NEW d, Machine(d), NEW s, NEW x, TailCall(s, x), IsStack(s, d), IsObject(x, d),
         Has(s, stack, Top(acts)), Len(s) = Base(Top(acts), locals)
  PROVE  Machine(d)'
<1>1. Top(acts) \in Nat /\ locals.evals \in Nat
  BY StateFacts
<1>2. Len(s) \in Nat /\ Len(s) >= 3 /\ Top(acts) <= Len(s) - 3
  BY <1>1 DEF Base
<1>3. IsStack(stack', d) /\ Len(stack') = Len(s)
  BY <1>2, SlotHolds DEF TailCall
<1>4. \A i \in 1 .. Len(s) - 3 : stack'[i] = s[i]
  BY <1>2, SlotWritten DEF TailCall, IsStack
<1>5. Has(stack', stack, Top(acts))
  BY <1>1, <1>2, <1>3, <1>4 DEF Has, IsStack
<1>6. locals'.proc = Null
  BY DEF TailCall, NoLocals
<1>7. Holds("eval", Len(stack'), stack', locals')
  BY <1>3, <1>6 DEF Holds, IsStack
<1>8. acts' = acts /\ pc' = "eval" /\ val' = val /\ Grows(d, d)
  BY DEF TailCall, Grows
<1>9. QED
  BY <1>3, <1>5, <1>7, <1>8, MachineRuns DEF Machine, IsStack

(* A C function calls eval_frame.                                           *)
LEMMA MachineCalls ==
  ASSUME IInv, NEW d, Machine(d), NEW at, NEW h, NEW held, NEW s, Call(at, h, held, s),
         IsStack(s, d), Has(s, stack, Top(acts)), Holds(at, h, s, [locals EXCEPT !.held = held])
  PROVE  Machine(d)'
<1> DEFINE l == [locals EXCEPT !.held = held]
           a == [at |-> at, height |-> h, locals |-> l]
<1>1. acts' = Append(acts, a) /\ stack' = s /\ val' = val /\ pc' = "eval" /\ locals' = NoLocals
  BY DEF Call
<1>2. a.at = at /\ a.height = h /\ a.locals = l
  OBVIOUS
<1>3. Holds(a.at, a.height, s, a.locals)
  BY <1>2
<1> HIDE DEF l, a
<1>4. /\ Len(acts) \in Nat /\ Len(acts') = Len(acts) + 1
      /\ \A j \in 1 .. Len(acts) : acts'[j] = acts[j]
      /\ acts'[Len(acts) + 1] = a
  <2>1. IsSeq(acts)
    BY DEF IInv, Frames
  <2>2. QED
    BY <1>1, <2>1, PushedOne, IsSeqProperties
<1>5. /\ \A j \in 1 .. Len(acts) : Holds(acts[j].at, acts[j].height, s, acts[j].locals)
      /\ s[2].t = "environ"
  BY WaitingHold
<1>6. ASSUME NEW j \in 1 .. Len(acts')
      PROVE  Holds(acts'[j].at, acts'[j].height, stack', acts'[j].locals)
  <2>1. j \in 1 .. Len(acts) \/ j = Len(acts) + 1
    BY <1>4
  <2>2. QED
    BY <1>1, <1>3, <1>4, <1>5, <2>1
<1>7. Holds("eval", Len(s), s, NoLocals)
  BY DEF Holds, IsStack, NoLocals
<1>8. QED
  BY <1>1, <1>5, <1>6, <1>7 DEF Machine, IsStack
-----------------------------------------------------------------------------
(* Evaluation and the special forms.                                        *)

LEMMA StepHere ==
  ASSUME NEW d, World(d), UNCHANGED <<envs, store, input>>, Machine(d)'
  PROVE  RInv'
<1>1. World(d)'
  BY DEF World, EnvsSound, StoreSound, InputSound
<1>2. QED
  BY <1>1 DEF RInv

(* A step that ends the call of eval_frame, or the process.                 *)
LEMMA EndsHere ==
  ASSUME IInv, NEW d, World(d), Machine(d), UNCHANGED <<envs, store, input>>,
         Fatal \/ \E v : IsObject(v, d) /\ (Ret(v) \/ Result(v))
  PROVE  RInv'
<1>1. Grows(d, d)
  BY DEF Grows
<1>2. Machine(d)'
  BY <1>1, MachineEnds
<1>3. QED
  BY <1>2, StepHere

(* What eval_frame evaluates is an object, and where it does an environment.*)
LEMMA Evaluated ==
  ASSUME IInv, NEW d, World(d), Machine(d), pc = "eval"
  PROVE  /\ IsStack(stack, d) /\ Len(stack) \in Nat /\ Len(stack) >= 3
         /\ X = stack[Len(stack) - 2] /\ IsObject(X, d)
         /\ Env \in 1 .. Len(envs) /\ Env \in d["environ"]
         /\ locals.proc = Null
<1>1. IsSeq(stack) /\ Len(stack) \in Nat /\ Len(stack) >= 3
  BY AtEval
<1>2. stack[Len(stack)].t = "environ" /\ locals.proc = Null
  BY DEF Machine, Holds
<1>3. IsStack(stack, d)
  BY <1>1, <1>2 DEF IsStack, Machine
<1>4. X = stack[Len(stack) - 2]
  <2>1. Len(stack) - 2 - 0 = Len(stack) - 2
    BY <1>1
  <2>2. QED
    BY <2>1 DEF X, frame_ref
<1>5. Len(stack) - 2 \in 1 .. Len(stack) /\ Len(stack) \in 1 .. Len(stack)
  BY <1>1
<1>6. IsObject(X, d) /\ IsObject(stack[Len(stack)], d)
  BY <1>4, <1>5 DEF Machine
<1>7. Env \in d["environ"]
  BY <1>2, <1>6, NumberOf DEF Env, frame_env, Numbered
<1>8. QED
  BY <1>1, <1>2, <1>3, <1>4, <1>6, <1>7 DEF World, EnvsSound

(* A name that is found is bound to an object.                              *)
LEMMA FoundIsObject ==
  ASSUME NEW d, World(d), NEW e \in 1 .. Len(envs), NEW x, Scope(e, x) # 0
  PROVE  /\ Scope(e, x) \in 1 .. Len(envs)
         /\ IsObject(envs[Scope(e, x)].table[x], d)
<1>1. Len(envs) \in Nat /\ EnvsSound(d)
  BY IsSeqProperties DEF World, EnvsSound
<1>2. e \in 0 .. Len(envs) /\ e <= Len(envs)
  BY <1>1
<1>3. Scope(e, x) \in 0 .. e /\ x \in DOMAIN envs[Scope(e, x)].table
  BY <1>1, <1>2, ScopeSound
<1>4. Scope(e, x) \in 1 .. Len(envs)
  BY <1>1, <1>2, <1>3
<1>5. QED
  BY <1>1, <1>3, <1>4 DEF EnvsSound

LEMMA EvalSelfRoots ==
  ASSUME IInv, NEW d, World(d), Machine(d), EvalSelf
  PROVE  RInv'
<1>1. pc = "eval" /\ Ret(X) /\ UNCHANGED <<envs, store, input>>
  BY DEF EvalSelf, world
<1>2. QED
  BY <1>1, Evaluated, EndsHere

LEMMA EvalSymbolRoots ==
  ASSUME IInv, NEW d, World(d), Machine(d), EvalSymbol
  PROVE  RInv'
<1> DEFINE e == Scope(Env, X.name)
<1>1. pc = "eval" /\ UNCHANGED <<envs, store, input>>
  BY DEF EvalSymbol, world
<1>2. Fatal \/ (e # 0 /\ Ret(envs[e].table[X.name]))
  BY DEF EvalSymbol
<1>3. e # 0 => IsObject(envs[e].table[X.name], d)
  BY <1>1, Evaluated, FoundIsObject
<1>4. QED
  BY <1>1, <1>2, <1>3, EndsHere

(* The steps that only refuse.                                              *)
LEMMA RefusedRoots ==
  ASSUME IInv, NEW d, World(d), Machine(d),
         EvalRefused \/ LangAssignRefused \/ ApplyOther
  PROVE  RInv'
<1>1. Fatal /\ UNCHANGED <<envs, store, input>>
  BY DEF EvalRefused, LangAssignRefused, ApplyOther, world
<1>2. QED
  BY <1>1, EndsHere

(* The frame of a special form.                                             *)
LEMMA FormFrame ==
  ASSUME IInv, NEW d, World(d), Machine(d), pc = "eval", X.t = "pair"
  PROVE  /\ IsObject(Car(X), d) /\ IsObject(Expr, d)
         /\ IsStack(ExFrame, d) /\ Len(ExFrame) = Len(stack) + 3
         /\ Has(ExFrame, stack, Len(stack))
         /\ ExFrame[Len(ExFrame)].t = "environ"
         /\ ExFrame[Len(ExFrame) - 2] = Expr
         /\ ExFrame[Len(ExFrame) - 3].t = "environ"
         /\ Suffix(Expr, X)
<1>1. /\ IsStack(stack, d) /\ Len(stack) \in Nat /\ Len(stack) >= 3 /\ IsObject(X, d)
  BY Evaluated
<1>2. IsObject(Car(X), d) /\ IsObject(Expr, d)
  BY <1>1, CarAndCdr DEF Expr
<1>3. Suffix(Expr, X)
  <2>1. Suffix(X, X)
    BY DEF Suffix
  <2>2. QED
    BY <1>1, <2>1, CdrIsSuffix DEF Expr
<1>4. /\ IsStack(ExFrame, d) /\ Len(ExFrame) = Len(stack) + 3
      /\ \A i \in 1 .. Len(stack) : ExFrame[i] = stack[i]
      /\ ExFrame[Len(stack) + 1] = Expr
  <2>1. Len(stack) >= 1
    BY <1>1
  <2>2. QED
    BY <1>1, <1>2, <2>1, FrameHolds DEF ExFrame
<1>5. Len(ExFrame) - 2 = Len(stack) + 1 /\ Len(ExFrame) - 3 = Len(stack) /\ Len(stack) \in 1 .. Len(stack)
  BY <1>1, <1>4
<1>6. ExFrame[Len(ExFrame) - 2] = Expr
  BY <1>4, <1>5
<1>7. ExFrame[Len(ExFrame) - 3].t = "environ"
  <2>1. ExFrame[Len(stack)] = stack[Len(stack)] /\ stack[Len(stack)].t = "environ"
    BY <1>1, <1>4, <1>5 DEF IsStack
  <2>2. QED
    BY <1>5, <2>1
<1>8. Has(ExFrame, stack, Len(stack))
  BY <1>1, <1>4 DEF Has, IsStack
<1>9. QED
  BY <1>2, <1>3, <1>4, <1>6, <1>7, <1>8 DEF IsStack

(* The parts of its expression.                                             *)
LEMMA ItemIsRooted ==
  ASSUME NEW v, NEW d, IsObject(v, d), v.t = "pair", NEW k \in 1 .. Len(v.items)
  PROVE  IsObject(v.items[k], d) /\ RootedIn(v.items[k], v)
<1>1. IsObject(v.items[k], d) /\ IsSeq(v.items)
  BY PartsOfPair
<1>2. v.items[k] \in Range(v.items)
  BY <1>1, IsSeqProperties
<1>3. QED
  BY <1>1, <1>2 DEF RootedIn, Pieces

LEMMA FormCallsRoots ==
  ASSUME IInv, NEW d, World(d), Machine(d), pc = "eval", X.t = "pair",
         NEW at \in {"if", "define", "set!"}, NEW held, NEW x, IsObject(x, d),
         Call(at, Len(ExFrame), held, Frame(ExFrame, x)), UNCHANGED <<envs, store, input>>,
         at = "if" => /\ held = <<held[1], held[2]>>
                      /\ RootedIn(held[1], Expr) /\ RootedIn(held[2], Expr),
         at # "if" => held = <<held[1]>> /\ held[1].t = "symbol"
  PROVE  RInv'
<1> DEFINE h == Len(ExFrame)
           s == Frame(ExFrame, x)
           l == [locals EXCEPT !.held = held]
<1>1. /\ IsStack(stack, d) /\ Len(stack) \in Nat /\ Len(stack) >= 3 /\ locals.proc = Null
  BY Evaluated
<1>2. /\ IsStack(ExFrame, d) /\ h = Len(stack) + 3 /\ Has(ExFrame, stack, Len(stack))
      /\ ExFrame[h].t = "environ" /\ ExFrame[h - 2] = Expr /\ ExFrame[h - 3].t = "environ"
  BY FormFrame
<1>3. IsStack(s, d) /\ \A i \in 1 .. h : s[i] = ExFrame[i]
  <2>1. Len(ExFrame) >= 1
    BY <1>1, <1>2
  <2>2. QED
    BY <1>2, <2>1, FrameHolds
<1>4. Call(at, h, held, s)
  OBVIOUS
<1>5. l.held = held /\ l.proc = Null
  <2>1. IsLocals(locals)
    BY StateFacts
  <2>2. QED
    BY <1>1, <2>1 DEF IsLocals
<1> HIDE DEF h, s, l
<1>6. s[h].t = "environ" /\ s[h - 2] = Expr /\ s[h - 3].t = "environ"
  <2>1. h \in 1 .. h /\ h - 2 \in 1 .. h /\ h - 3 \in 1 .. h
    BY <1>1, <1>2
  <2>2. QED
    BY <1>2, <1>3, <2>1
<1>7. Holds(at, h, s, l)
  BY <1>5, <1>6 DEF Holds
<1>8. Has(s, stack, Top(acts))
  <2>1. Top(acts) \in Nat /\ Top(acts) <= Len(stack)
    BY StateFacts
  <2>2. IsSeq(s) /\ Len(s) = h + 3
    BY <1>2, <1>3, FrameAdded DEF IsStack, s, h
  <2>3. \A i \in 1 .. Top(acts) : i \in 1 .. Len(stack) /\ i \in 1 .. h
    BY <1>1, <1>2, <2>1
  <2>4. \A i \in 1 .. Top(acts) : s[i] = stack[i]
    BY <1>2, <1>3, <2>3 DEF Has
  <2>5. QED
    BY <1>1, <1>2, <2>1, <2>2, <2>4 DEF Has
<1>9. Machine(d)'
  BY <1>3, <1>4, <1>7, <1>8, MachineCalls DEF l
<1>10. QED
  BY <1>9, StepHere

LEMMA LangIfRoots ==
  ASSUME IInv, NEW d, World(d), Machine(d), LangIf
  PROVE  RInv'
<1> DEFINE w == IF Len(Expr.items) = 3 THEN Expr.items[3] ELSE Unspec
<1>1. pc = "eval" /\ X.t = "pair" /\ UNCHANGED <<envs, store, input>>
  BY DEF LangIf, IsForm, world
<1>2. CASE Fatal
  BY <1>1, <1>2, EndsHere
<1>3. CASE /\ IsList(Expr) /\ Len(Items(Expr)) \in 2 .. 3
           /\ Call("if", Len(ExFrame), <<Cadr(Expr), w>>, Frame(ExFrame, Car(Expr)))
  <2>1. IsObject(Expr, d)
    BY <1>1, FormFrame
  <2>2. Expr.t = "pair" /\ Len(Expr.items) \in 2 .. 3
    <3>1. Len(<<>>) = 0
      BY EmptySeq
    <3>2. Expr.t = "pair"
      BY <1>3, <3>1 DEF Items
    <3>3. QED
      BY <1>3, <3>2 DEF Items
  <2>3. IsObject(Car(Expr), d)
    BY <2>1, <2>2, CarAndCdr
  <2>4. RootedIn(Cadr(Expr), Expr)
    <3>1. 2 \in 1 .. Len(Expr.items)
      BY <2>2
    <3>2. QED
      BY <2>1, <2>2, <3>1, ItemIsRooted DEF Cadr
  <2>5. RootedIn(w, Expr)
    <3>1. CASE Len(Expr.items) = 3
      <4>1. 3 \in 1 .. Len(Expr.items)
        BY <3>1
      <4>2. QED
        BY <2>1, <2>2, <3>1, <4>1, ItemIsRooted
    <3>2. CASE Len(Expr.items) # 3
      BY <3>2 DEF RootedIn, NeverFreed, Unspec
    <3>3. QED
      BY <3>1, <3>2
  <2> DEFINE held == <<Cadr(Expr), w>>
  <2>6. held = <<held[1], held[2]>> /\ RootedIn(held[1], Expr) /\ RootedIn(held[2], Expr)
    <3> HIDE DEF w
    <3>1. held[1] = Cadr(Expr) /\ held[2] = w
      OBVIOUS
    <3>2. QED
      BY <2>4, <2>5, <3>1
  <2>7. Call("if", Len(ExFrame), held, Frame(ExFrame, Car(Expr)))
    BY <1>3
  <2> HIDE DEF held
  <2>8. QED
    BY <1>1, <2>3, <2>6, <2>7, FormCallsRoots
<1>4. QED
  BY <1>2, <1>3 DEF LangIf

LEMMA LangAssignRoots ==
  ASSUME IInv, NEW d, World(d), Machine(d), NEW form \in {"define", "set!"}, LangAssign(form)
  PROVE  RInv'
<1>1. /\ pc = "eval" /\ X.t = "pair" /\ UNCHANGED <<envs, store, input>>
      /\ Expr.t = "pair" /\ Car(Expr).t = "symbol"
  BY DEF LangAssign, IsForm, world
<1>2. CASE Fatal
  BY <1>1, <1>2, EndsHere
<1>3. CASE /\ HasCadr(Expr)
           /\ Call(form, Len(ExFrame), <<Car(Expr)>>, Frame(ExFrame, Cadr(Expr)))
  <2>1. IsObject(Expr, d)
    BY <1>1, FormFrame
  <2>2. 2 \in 1 .. Len(Expr.items)
    BY <1>1, <1>3, <2>1, PartsOfPair DEF HasCadr
  <2>3. IsObject(Cadr(Expr), d)
    BY <1>1, <2>1, <2>2, PartsOfPair DEF Cadr
  <2> DEFINE held == <<Car(Expr)>>
  <2>4. held = <<held[1]>> /\ held[1].t = "symbol"
    BY <1>1
  <2>5. Call(form, Len(ExFrame), held, Frame(ExFrame, Cadr(Expr)))
    BY <1>3
  <2> HIDE DEF held
  <2>6. QED
    BY <1>1, <2>3, <2>4, <2>5, FormCallsRoots
<1>4. QED
  BY <1>2, <1>3 DEF LangAssign

LEMMA LangQuoteRoots ==
  ASSUME IInv, NEW d, World(d), Machine(d), LangQuote
  PROVE  RInv'
<1>1. pc = "eval" /\ X.t = "pair" /\ UNCHANGED <<envs, store, input>>
  BY DEF LangQuote, IsForm, world
<1>2. Expr.t = "pair" => IsObject(Car(Expr), d)
  BY <1>1, FormFrame, CarAndCdr
<1>3. QED
  BY <1>1, <1>2, EndsHere DEF LangQuote

LEMMA LangLambdaRoots ==
  ASSUME IInv, NEW d, World(d), Machine(d), LangLambda \/ LangLambdaSyntax
  PROVE  RInv'
<1> DEFINE c == Closure(Env, Car(Expr), Cdr(Expr))
<1>1. pc = "eval" /\ X.t = "pair" /\ UNCHANGED <<envs, store, input>>
  BY DEF LangLambda, LangLambdaSyntax, IsForm, world
<1>2. Expr.t = "pair" => IsObject(c, d)
  <2>1. Env \in d["environ"] /\ IsObject(Expr, d)
    BY <1>1, Evaluated, FormFrame
  <2>2. Expr.t = "pair" => IsObject(Car(Expr), d) /\ IsObject(Cdr(Expr), d)
    BY <2>1, CarAndCdr
  <2>3. QED
    BY <2>1, <2>2, ClosureIsObject
<1>3. Expr.t = "pair" => IsObject(Macro(c), d)
  BY <1>2, MacroIsObject
<1>4. Fatal \/ (Expr.t = "pair" /\ (Ret(c) \/ Ret(Macro(c))))
  BY DEF LangLambda, LangLambdaSyntax
<1> HIDE DEF c
<1>5. QED
  BY <1>1, <1>2, <1>3, <1>4, EndsHere
(* A name is bound in an environment.                                       *)
LEMMA BindSound ==
  ASSUME NEW d, World(d), NEW e \in 1 .. Len(envs), NEW x, NEW v, IsObject(v, d),
         Bind(e, x, v), UNCHANGED <<store, input>>
  PROVE  World(d)'
<1> DEFINE r == envs[e]
           t == With(r.table, x, v)
           q == [outer |-> r.outer, table |-> t]
<1>1. /\ IsSeq(envs) /\ d["environ"] = 1 .. Len(envs)
      /\ \A i \in 1 .. Len(envs) :
           /\ envs[i] = [outer |-> envs[i].outer, table |-> envs[i].table]
           /\ envs[i].outer \in 0 .. i - 1
           /\ \A y \in DOMAIN envs[i].table : IsObject(envs[i].table[y], d)
  BY DEF World, EnvsSound
<1>2. envs' = [envs EXCEPT ![e] = q]
  <2>1. envs' = [envs EXCEPT ![e] = [r EXCEPT !.table = t]]
    BY DEF Bind
  <2>2. r = [outer |-> r.outer, table |-> r.table]
    BY <1>1
  <2> HIDE DEF r, t
  <2>3. [r EXCEPT !.table = t] = q
    BY <2>2
  <2>4. QED
    BY <2>1, <2>3
<1>3. ASSUME NEW y \in DOMAIN t PROVE IsObject(t[y], d)
  <2>1. DOMAIN t = {x} \cup DOMAIN r.table /\ t[y] = IF y = x THEN v ELSE r.table[y]
    BY DEF With
  <2>2. QED
    BY <1>1, <2>1
<1>4. q.outer = r.outer /\ q.table = t
  OBVIOUS
<1> HIDE DEF t, q
<1>5. IsSeq(envs')
  BY <1>1, <1>2, IsWritten
<1>6. Len(envs') = Len(envs)
  BY <1>1, <1>2, IsWritten
<1>7. \A i \in 1 .. Len(envs) : i # e => envs'[i] = envs[i]
  BY <1>1, <1>2, IsWritten
<1>8. envs'[e] = q
  BY <1>1, <1>2, IsSeqProperties
<1>9. ASSUME NEW i \in 1 .. Len(envs)
      PROVE  /\ envs'[i] = [outer |-> envs'[i].outer, table |-> envs'[i].table]
             /\ envs'[i].outer \in 0 .. i - 1
             /\ \A y \in DOMAIN envs'[i].table : IsObject(envs'[i].table[y], d)
  <2>1. CASE i = e
    BY <1>1, <1>3, <1>4, <1>8, <2>1 DEF q
  <2>2. CASE i # e
    BY <1>1, <1>7, <2>2
  <2>3. QED
    BY <2>1, <2>2
<1>10. EnvsSound(d)'
  BY <1>1, <1>5, <1>6, <1>9 DEF EnvsSound
<1>11. QED
  BY <1>10 DEF World, StoreSound, InputSound

LEMMA StepBinds ==
  ASSUME IInv, NEW d, World(d), Machine(d), NEW e \in 1 .. Len(envs), NEW x,
         NEW v, IsObject(v, d), Bind(e, x, v), UNCHANGED <<store, input>>, Ret(Unspec)
  PROVE  RInv'
<1>1. World(d)'
  BY BindSound
<1>2. Grows(d, d) /\ IsObject(Unspec, d)
  BY AtomIsObject DEF Grows, Unspec, Numbered
<1>3. Machine(d)'
  BY <1>2, MachineEnds
<1>4. QED
  BY <1>1, <1>3 DEF RInv

LEMMA LangDefineProcedureRoots ==
  ASSUME IInv, NEW d, World(d), Machine(d), LangDefineProcedure
  PROVE  RInv'
<1> DEFINE first == Car(Expr)
           c == Closure(Env, Cdr(first), Cdr(Expr))
<1>1. /\ pc = "eval" /\ X.t = "pair" /\ UNCHANGED <<store, input>>
      /\ Expr.t = "pair" /\ first.t = "pair"
  BY DEF LangDefineProcedure, IsForm
<1>2. IsObject(Undefined, d)
  BY AtomIsObject DEF Undefined, Numbered
<1>3. CASE Bind(Env, Car(first).name, c) /\ Ret(Unspec)
  <2>1. Env \in d["environ"] /\ Env \in 1 .. Len(envs) /\ IsObject(Expr, d)
    BY <1>1, Evaluated, FormFrame
  <2>2. IsObject(first, d) /\ IsObject(Cdr(Expr), d)
    BY <1>1, <2>1, CarAndCdr
  <2>3. IsObject(Cdr(first), d)
    BY <1>1, <2>2, CarAndCdr
  <2>4. IsObject(c, d)
    BY <2>1, <2>2, <2>3, ClosureIsObject
  <2> HIDE DEF c
  <2>5. QED
    BY <1>1, <1>3, <2>1, <2>4, StepBinds
<1>4. CASE Result(Undefined) /\ UNCHANGED envs
  BY <1>1, <1>2, <1>4, EndsHere
<1>5. QED
  BY <1>3, <1>4 DEF LangDefineProcedure

(* A special form that goes on is in the environment of its frame.          *)
LEMMA Resumed ==
  ASSUME IInv, NEW d, World(d), Machine(d), pc \in {"if", "define", "set!", "begin"}
  PROVE  /\ IsStack(stack, d) /\ Len(stack) \in Nat /\ Len(stack) >= 6
         /\ Env \in 1 .. Len(envs)
         /\ IsObject(stack[Len(stack) - 2], d)
         /\ IsStack(EvalFrameOf(Len(stack)), d)
<1>1. /\ IsSeq(stack) /\ Len(stack) \in Nat /\ Len(stack) >= 6
  BY AtForm
<1>2. stack[Len(stack)].t = "environ" /\ stack[Len(stack) - 3].t = "environ"
  BY DEF Machine, Holds
<1>3. IsStack(stack, d)
  BY <1>1, <1>2 DEF IsStack, Machine
<1>4. Len(stack) \in 1 .. Len(stack) /\ Len(stack) - 2 \in 1 .. Len(stack)
  BY <1>1
<1>5. IsObject(stack[Len(stack)], d) /\ IsObject(stack[Len(stack) - 2], d)
  BY <1>4 DEF Machine
<1>6. Env \in d["environ"]
  BY <1>2, <1>5, NumberOf DEF Env, frame_env, Numbered
<1>7. IsStack(EvalFrameOf(Len(stack)), d)
  <2>1. Len(stack) - 3 \in 0 .. Len(stack) /\ Len(stack) - 3 \in 1 .. Len(stack) - 3
    BY <1>1
  <2>2. /\ IsSeq(Down(Len(stack) - 3)) /\ Len(Down(Len(stack) - 3)) = Len(stack) - 3
        /\ \A i \in 1 .. Len(stack) - 3 : Down(Len(stack) - 3)[i] = stack[i]
    BY <1>1, <2>1, Prefix DEF Down
  <2>3. \A i \in 1 .. Len(stack) - 3 : i \in 1 .. Len(stack)
    BY <1>1
  <2>4. QED
    BY <1>2, <2>1, <2>2, <2>3 DEF IsStack, EvalFrameOf, Machine
<1>8. QED
  BY <1>1, <1>3, <1>5, <1>6, <1>7 DEF World, EnvsSound

(* It leaves the rest to eval_frame.                                        *)
LEMMA FormTailCalls ==
  ASSUME IInv, NEW d, World(d), Machine(d), pc \in {"if", "begin"}, NEW x, IsObject(x, d),
         TailCall(EvalFrameOf(Len(stack)), x), UNCHANGED <<envs, store, input>>
  PROVE  RInv'
<1>1. /\ Has(EvalFrameOf(Len(stack)), stack, Top(acts))
      /\ Len(EvalFrameOf(Len(stack))) = Base(Top(acts), locals)
  BY AtForm
<1>2. IsStack(EvalFrameOf(Len(stack)), d)
  BY Resumed
<1>3. Machine(d)'
  BY <1>1, <1>2, MachineTailCalls
<1>4. QED
  BY <1>3, StepHere

LEMMA IfDoneRoots ==
  ASSUME IInv, NEW d, World(d), Machine(d), IfDone
  PROVE  RInv'
<1>1. pc = "if" /\ UNCHANGED <<envs, store, input>>
  BY DEF IfDone, world
<1>2. PICK k \in {1, 2} : TailCall(EvalFrameOf(Len(stack)), locals.held[k])
  BY DEF IfDone
<1>3. /\ RootedIn(locals.held[1], stack[Len(stack) - 2])
      /\ RootedIn(locals.held[2], stack[Len(stack) - 2])
  BY <1>1 DEF Machine, Holds
<1>4. IsObject(locals.held[k], d)
  BY <1>1, <1>3, Resumed, RootedIsObject
<1>5. QED
  BY <1>1, <1>2, <1>4, FormTailCalls

LEMMA DefineDoneRoots ==
  ASSUME IInv, NEW d, World(d), Machine(d), DefineDone
  PROVE  RInv'
<1>1. /\ pc = "define" /\ UNCHANGED <<store, input>> /\ Bind(Env, locals.held[1].name, val)
      /\ Ret(Unspec)
  BY DEF DefineDone
<1>2. Env \in 1 .. Len(envs) /\ IsObject(val, d)
  BY <1>1, Resumed DEF Machine
<1>3. QED
  BY <1>1, <1>2, StepBinds

LEMMA SetDoneRoots ==
  ASSUME IInv, NEW d, World(d), Machine(d), SetDone
  PROVE  RInv'
<1> DEFINE x == locals.held[1].name
           e == ScopeOfSet(Env, x)
<1>1. pc = "set!" /\ UNCHANGED <<store, input>>
  BY DEF SetDone
<1>2. CASE Fatal /\ UNCHANGED envs
  BY <1>1, <1>2, EndsHere
<1>3. CASE e # 0 /\ Bind(e, x, val) /\ Ret(Unspec)
  <2>1. Env \in 1 .. Len(envs) /\ IsObject(val, d)
    BY <1>1, Resumed DEF Machine
  <2>2. e \in 1 .. Len(envs)
    BY <1>3, <2>1, FoundIsObject DEF ScopeOfSet
  <2>3. QED
    BY <1>1, <1>3, <2>1, <2>2, StepBinds
<1>4. QED
  BY <1>2, <1>3 DEF SetDone

LEMMA LangBeginRoots ==
  ASSUME IInv, NEW d, World(d), Machine(d), LangBegin
  PROVE  RInv'
<1>1. /\ pc = "eval" /\ X.t = "pair" /\ UNCHANGED <<envs, store, input>>
      /\ pc' = "begin" /\ stack' = ExFrame /\ acts' = acts /\ val' = val
      /\ locals' = [locals EXCEPT !.held = <<Expr>>]
  BY DEF LangBegin, IsForm, world
<1>2. /\ IsObject(Expr, d) /\ IsStack(ExFrame, d) /\ Has(ExFrame, stack, Len(stack))
      /\ Len(ExFrame) = Len(stack) + 3
      /\ ExFrame[Len(ExFrame)].t = "environ" /\ ExFrame[Len(ExFrame) - 2] = Expr
      /\ ExFrame[Len(ExFrame) - 3].t = "environ"
  BY <1>1, FormFrame
<1>3. Has(ExFrame, stack, Top(acts))
  BY <1>2, StateFacts DEF Has
<1>4. locals'.held = <<Expr>> /\ locals'.proc = Null
  <2>1. IsLocals(locals) /\ locals.proc = Null
    BY <1>1, StateFacts, Evaluated
  <2>2. QED
    BY <1>1, <2>1 DEF IsLocals
<1>5. Suffix(Expr, Expr)
  BY DEF Suffix
<1>6. Holds("begin", Len(ExFrame), ExFrame, locals')
  <2>1. locals'.held[1] = Expr
    BY <1>4
  <2>2. QED
    BY <1>2, <1>4, <1>5, <2>1 DEF Holds
<1>7. Machine(d)'
  <2>1. Grows(d, d)
    BY DEF Grows
  <2>2. QED
    BY <1>1, <1>2, <1>3, <1>6, <2>1, MachineRuns DEF Machine, IsStack
<1>8. QED
  BY <1>1, <1>7, StepHere

(* A function calls eval_frame in a frame on its own, whose slot it keeps.  *)
LEMMA CallsRoots ==
  ASSUME IInv, NEW d, World(d), Machine(d), IsStack(stack, d), Len(stack) >= 6,
         NEW at, NEW held, NEW x, IsObject(x, d),
         Call(at, Len(stack), held, Frame(stack, x)), UNCHANGED <<envs, store, input>>,
         \A s, l : (/\ IsLocals(l) /\ l.held = held /\ l.proc = locals.proc /\ l.orig = locals.orig
                    /\ \A i \in 1 .. Len(stack) : s[i] = stack[i])
                     => Holds(at, Len(stack), s, l)
  PROVE  RInv'
<1> DEFINE l == [locals EXCEPT !.held = held]
           s == Frame(stack, x)
<1>1. Len(stack) \in Nat /\ IsSeq(stack) /\ Top(acts) \in Nat /\ Top(acts) <= Len(stack)
  BY StateFacts
<1>2. IsLocals(l) /\ l.held = held /\ l.proc = locals.proc /\ l.orig = locals.orig
  <2>1. IsLocals(locals)
    BY StateFacts
  <2>2. QED
    BY <2>1 DEF IsLocals
<1>3. /\ IsStack(s, d) /\ IsSeq(s) /\ Len(s) = Len(stack) + 3
      /\ \A i \in 1 .. Len(stack) : s[i] = stack[i]
  <2>1. Len(stack) >= 1
    BY <1>1
  <2>2. /\ IsStack(s, d) /\ Len(s) = Len(stack) + 3
        /\ \A i \in 1 .. Len(stack) : s[i] = stack[i]
    BY <2>1, FrameHolds
  <2>3. QED
    BY <2>2 DEF IsStack
<1>4. Call(at, Len(stack), held, s)
  OBVIOUS
<1> HIDE DEF l, s
<1>5. Holds(at, Len(stack), s, l)
  BY <1>2, <1>3
<1>6. Has(s, stack, Top(acts))
  BY <1>1, <1>3 DEF Has
<1>7. Machine(d)'
  BY <1>3, <1>4, <1>5, <1>6, MachineCalls DEF l
<1>8. QED
  BY <1>7, StepHere
(* The loop of lang_begin holds what is left of the body that its frame has.*)
LEMMA BeginNextRoots ==
  ASSUME IInv, NEW d, World(d), Machine(d), BeginNext
  PROVE  RInv'
<1> DEFINE iter == locals.held[1]
           w == stack[Len(stack) - 2]
<1>1. pc = "begin" /\ UNCHANGED <<envs, store, input>>
  BY DEF BeginNext, world
<1>2. IsStack(stack, d) /\ Len(stack) \in Nat /\ Len(stack) >= 6 /\ IsObject(w, d)
  BY <1>1, Resumed
<1>3. /\ Suffix(iter, w) /\ locals.proc = Null
      /\ stack[Len(stack)].t = "environ" /\ stack[Len(stack) - 3].t = "environ"
  BY <1>1 DEF Machine, Holds
<1>4. IsObject(iter, d)
  BY <1>2, <1>3, SuffixIsPiece, PieceIsObject
<1>5. CASE Fatal
  BY <1>1, <1>5, EndsHere
<1>6. CASE TailCall(EvalFrameOf(Len(stack)), Unspec)
  <2>1. IsObject(Unspec, d)
    BY AtomIsObject DEF Unspec, Numbered
  <2>2. QED
    BY <1>1, <1>6, <2>1, FormTailCalls
<1>7. CASE iter # Nil /\ IsList(iter) /\ TailCall(EvalFrameOf(Len(stack)), Car(iter))
  <2>1. IsObject(Car(iter), d)
    BY <1>4, <1>7, CarAndCdr DEF IsList
  <2>2. QED
    BY <1>1, <1>7, <2>1, FormTailCalls
<1>8. CASE HasCadr(iter) /\ Call("begin", Len(stack), <<Cdr(iter)>>, Frame(stack, Car(iter)))
  <2>1. iter.t = "pair"
    BY <1>8 DEF HasCadr
  <2>2. IsObject(Car(iter), d) /\ Suffix(Cdr(iter), w)
    BY <1>2, <1>3, <1>4, <2>1, CarAndCdr, CdrIsSuffix
  <2> DEFINE held == <<Cdr(iter)>>
  <2>3. held = <<held[1]>> /\ Suffix(held[1], w)
    BY <2>2
  <2> HIDE DEF held
  <2>4. ASSUME NEW s, NEW l, l.held = held, l.proc = locals.proc,
               \A i \in 1 .. Len(stack) : s[i] = stack[i]
        PROVE  Holds("begin", Len(stack), s, l)
    <3>1. Len(stack) \in 1 .. Len(stack) /\ Len(stack) - 3 \in 1 .. Len(stack)
          /\ Len(stack) - 2 \in 1 .. Len(stack)
      BY <1>2
    <3>2. s[Len(stack)].t = "environ" /\ s[Len(stack) - 3].t = "environ" /\ s[Len(stack) - 2] = w
      BY <1>3, <2>4, <3>1
    <3>3. QED
      BY <1>3, <2>3, <2>4, <3>2 DEF Holds
  <2>5. Call("begin", Len(stack), held, Frame(stack, Car(iter)))
    BY <1>8 DEF held
  <2>6. QED
    BY <1>1, <1>2, <2>2, <2>4, <2>5, CallsRoots
<1>9. QED
  BY <1>5, <1>6, <1>7, <1>8 DEF BeginNext

(* Where eval_frame evaluates, above the frames of at least main and        *)
(* execute_expr_list.                                                       *)
LEMMA EvalIsAbove ==
  ASSUME IInv, pc \in {"eval", "macro", "operator"}
  PROVE  Len(stack) >= 6
<1>1. /\ acts # <<>> /\ Len(stack) \in Nat
      /\ Top(acts) \in Nat /\ Top(acts) + 3 <= Len(stack)
  BY AtEval
<1>2. Frames(acts, stack)
  BY DEF IInv
<1>3. 0 \in 0 .. Len(acts) /\ Below(acts, 0) <= Top(acts) /\ Below(acts, 0) = 5
  BY <1>2, FramesUnderTop DEF Below
<1>4. QED
  BY <1>1, <1>3

LEMMA EvalMacroRoots ==
  ASSUME IInv, NEW d, World(d), Machine(d), EvalMacro
  PROVE  RInv'
<1> DEFINE quoted == List(<<Sym("quote"), Expr>>, Nil)
           call == List(<<Sym("apply"), Syntax.rules, quoted>>, Nil)
<1>1. /\ pc = "eval" /\ X.t = "pair" /\ Syntax.t = "macro" /\ UNCHANGED <<envs, store, input>>
      /\ Call("macro", Len(stack), <<>>, Frame(stack, call))
  BY DEF EvalMacro, world
<1>2. /\ IsStack(stack, d) /\ Len(stack) \in Nat /\ Env \in 1 .. Len(envs) /\ locals.proc = Null
      /\ IsObject(Expr, d)
  BY <1>1, Evaluated, FormFrame
<1>3. IsObject(Syntax.rules, d)
  <2>1. Syntax # Null
    BY <1>1 DEF Null
  <2>2. IsObject(Syntax, d)
    BY <1>2, <2>1, FoundIsObject DEF Syntax
  <2>3. QED
    BY <1>1, <2>2, PartsOfMacro
<1>4. IsObject(Sym("quote"), d) /\ IsObject(Sym("apply"), d) /\ IsObject(Nil, d)
  BY AtomIsObject DEF Sym, Nil, Numbered
<1>5. IsObject(quoted, d)
  <2> DEFINE s == <<Sym("quote"), Expr>>
  <2>1. IsSeq(s) /\ Len(s) = 2 /\ s[1] = Sym("quote") /\ s[2] = Expr
    BY Tuples
  <2> HIDE DEF s
  <2>2. \A k \in 1 .. Len(s) : IsObject(s[k], d)
    BY <1>2, <1>4, <2>1
  <2>3. IsObject(List(s, Nil), d)
    BY <1>4, <2>1, <2>2, ListIsObject
  <2>4. QED
    BY <2>3 DEF s
<1>6. IsObject(call, d)
  <2> HIDE DEF quoted
  <2> DEFINE s == <<Sym("apply"), Syntax.rules, quoted>>
  <2>1. IsSeq(s) /\ Len(s) = 3 /\ s[1] = Sym("apply") /\ s[2] = Syntax.rules /\ s[3] = quoted
    BY Tuples
  <2> HIDE DEF s
  <2>2. \A k \in 1 .. Len(s) : IsObject(s[k], d)
    BY <1>3, <1>4, <1>5, <2>1
  <2>3. IsObject(List(s, Nil), d)
    BY <1>4, <2>1, <2>2, ListIsObject
  <2>4. QED
    BY <2>3 DEF s
<1> HIDE DEF call
<1>7. ASSUME NEW s, NEW l, l.held = <<>>, l.proc = locals.proc,
             \A i \in 1 .. Len(stack) : s[i] = stack[i]
      PROVE  Holds("macro", Len(stack), s, l)
  <2>1. Len(stack) \in 1 .. Len(stack)
    BY <1>1, <1>2, EvalIsAbove
  <2>2. s[Len(stack)].t = "environ"
    BY <1>2, <1>7, <2>1 DEF IsStack
  <2>3. QED
    BY <1>2, <1>7, <2>2 DEF Holds
<1>8. Len(stack) >= 6
  BY <1>1, EvalIsAbove
<1>9. QED
  BY <1>1, <1>2, <1>6, <1>7, <1>8, CallsRoots

LEMMA EvalOperatorRoots ==
  ASSUME IInv, NEW d, World(d), Machine(d), EvalOperator
  PROVE  RInv'
<1> DEFINE held == <<Expr>>
<1>1. /\ pc = "eval" /\ X.t = "pair" /\ UNCHANGED <<envs, store, input>>
      /\ Call("operator", Len(stack), held, Frame(stack, Car(X)))
  BY DEF EvalOperator, world, KeepsExpression
<1>2. /\ IsStack(stack, d) /\ Len(stack) \in Nat /\ locals.proc = Null
      /\ X = stack[Len(stack) - 2] /\ IsObject(Car(X), d) /\ Suffix(Expr, X)
  BY <1>1, Evaluated, FormFrame
<1>3. held = <<held[1]>> /\ Suffix(held[1], X)
  BY <1>2
<1> HIDE DEF held
<1>4. Len(stack) >= 6
  BY <1>1, EvalIsAbove
<1>5. ASSUME NEW s, NEW l, l.held = held, l.proc = locals.proc,
             \A i \in 1 .. Len(stack) : s[i] = stack[i]
      PROVE  Holds("operator", Len(stack), s, l)
  <2>1. Len(stack) \in 1 .. Len(stack) /\ Len(stack) - 2 \in 1 .. Len(stack)
    BY <1>2, <1>4
  <2>2. s[Len(stack)].t = "environ" /\ s[Len(stack) - 2] = X
    BY <1>2, <1>5, <2>1 DEF IsStack
  <2>3. QED
    BY <1>2, <1>3, <1>5, <2>2 DEF Holds
<1>6. QED
  BY <1>1, <1>2, <1>4, <1>5, CallsRoots

(* The expansion of a macro is an object like any value.                    *)
LEMMA MacroDoneRoots ==
  ASSUME IInv, NEW d, World(d), Machine(d), MacroDone
  PROVE  RInv'
<1>1. pc = "macro" /\ TailCall(stack, val) /\ UNCHANGED <<envs, store, input>>
  BY DEF MacroDone, world
<1>2. IsSeq(stack) /\ Len(stack) = Base(Top(acts), locals) /\ Has(stack, stack, Top(acts))
  BY <1>1, AtEval, StateFacts
<1>3. stack[Len(stack)].t = "environ" /\ IsObject(val, d)
  BY <1>1 DEF Machine, Holds
<1>4. IsStack(stack, d)
  BY <1>2, <1>3 DEF IsStack, Machine
<1>5. Machine(d)'
  BY <1>1, <1>2, <1>3, <1>4, MachineTailCalls
<1>6. QED
  BY <1>1, <1>5, StepHere

-----------------------------------------------------------------------------
(* Applications.                                                            *)

(* apply_reentry                                                            *)
LEMMA PushCallableRoots ==
  ASSUME IInv, NEW d, World(d), Machine(d), NEW orig \in Nat, orig = Base(Top(acts), locals),
         orig <= Len(stack), stack[orig].t = "environ",
         NEW proc, IsObject(proc, d), NEW args, IsObject(args, d), NEW need,
         PushCallable(orig, proc, args, need), UNCHANGED <<envs, store, input>>
  PROVE  RInv'
<1>1. Top(acts) \in Nat /\ locals.evals \in Nat /\ Top(acts) + 3 <= orig /\ Len(stack) \in Nat
  BY StateFacts DEF Base
<1>2. /\ IsSeq(Down(orig)) /\ Len(Down(orig)) = orig
      /\ \A i \in 1 .. orig : Down(orig)[i] = stack[i]
      /\ Has(Down(orig), stack, Top(acts))
  BY <1>1, DownTo
<1>3. /\ IsSeq(stack') /\ Len(stack') = orig + 1 /\ stack'[orig + 1] = proc
      /\ \A i \in 1 .. orig : stack'[i] = Down(orig)[i]
  BY <1>2, PushedOne DEF PushCallable, Prepared
<1>4. Has(stack', stack, Top(acts))
  BY <1>1, <1>2, <1>3 DEF Has
<1>5. ASSUME NEW i \in 1 .. Len(stack') PROVE IsObject(stack'[i], d)
  <2>1. i = orig + 1 \/ (i \in 1 .. orig /\ i \in 1 .. Len(stack))
    BY <1>1, <1>3
  <2>2. QED
    BY <1>2, <1>3, <2>1 DEF Machine
<1>6. /\ locals'.orig = orig /\ locals'.held[1] = args
      /\ pc' = "push" /\ acts' = acts /\ val' = val
  BY DEF PushCallable
<1>7. Holds("push", Len(stack'), stack', locals')
  <2>1. orig \in 1 .. orig
    BY <1>1
  <2>2. stack'[orig].t = "environ"
    BY <1>2, <1>3, <2>1
  <2>3. QED
    BY <1>6, <2>2 DEF Holds
<1>8. Machine(d)'
  <2>1. Grows(d, d) /\ IsObject(val, d)
    BY DEF Grows, Machine
  <2>2. QED
    BY <1>4, <1>5, <1>6, <1>7, <2>1, MachineRuns
<1>9. QED
  BY <1>8, StepHere

LEMMA OperatorDoneRoots ==
  ASSUME IInv, NEW d, World(d), Machine(d), OperatorDone
  PROVE  RInv'
<1>1. pc = "operator" /\ UNCHANGED <<envs, store, input>>
  BY DEF OperatorDone, world
<1>2. Len(stack) \in Nat /\ Len(stack) = Base(Top(acts), locals) /\ Len(stack) >= 6
  BY <1>1, AtEval, EvalIsAbove
<1>3. /\ Suffix(locals.held[1], stack[Len(stack) - 2]) /\ stack[Len(stack)].t = "environ"
      /\ IsObject(val, d)
  BY <1>1 DEF Machine, Holds
<1>4. IsObject(locals.held[1], d)
  <2>1. Len(stack) - 2 \in 1 .. Len(stack)
    BY <1>2
  <2>2. IsObject(stack[Len(stack) - 2], d)
    BY <2>1 DEF Machine
  <2>3. QED
    BY <1>3, <2>2, SuffixIsPiece, PieceIsObject
<1>5. CASE Fatal
  BY <1>1, <1>5, EndsHere
<1>6. CASE PushCallable(Len(stack), val, locals.held[1], TRUE)
  <2>1. Len(stack) <= Len(stack)
    BY <1>2
  <2>2. QED
    BY <1>1, <1>2, <1>3, <1>4, <1>6, <2>1, PushCallableRoots
<1>7. QED
  BY <1>5, <1>6 DEF OperatorDone

(* Where an application is, the frame of eval_frame has an environment.     *)
LEMMA Applied ==
  ASSUME IInv, NEW d, Machine(d), pc \in {"push", "arguments", "argument", "apply"}
  PROVE  /\ stack[locals.orig].t = "environ" /\ IsObject(locals.proc, d)
         /\ \A i \in 1 .. locals.orig + 1 : i \in 1 .. Len(stack)
<1>1. /\ IsSeq(stack) /\ Len(stack) \in Nat /\ locals.orig \in Nat
      /\ locals.orig + 1 <= Len(stack) /\ stack[locals.orig + 1] = locals.proc
  BY AtApplication
<1>2. locals.orig + 1 \in 1 .. Len(stack) /\ \A i \in 1 .. locals.orig + 1 : i \in 1 .. Len(stack)
  BY <1>1
<1>3. QED
  BY <1>1, <1>2 DEF Machine, Holds

LEMMA PushArgumentRoots ==
  ASSUME IInv, NEW d, World(d), Machine(d), PushArgument
  PROVE  RInv'
<1> DEFINE iter == locals.held[1]
<1>1. /\ pc = "push" /\ pc' = pc /\ acts' = acts /\ val' = val /\ UNCHANGED <<envs, store, input>>
      /\ iter.t = "pair" /\ stack' = Append(stack, Car(iter))
      /\ locals' = [locals EXCEPT !.argc = @ + 1, !.held = <<Cdr(iter), @[2]>>]
  BY DEF PushArgument, world
<1>2. IsObject(iter, d) /\ IsObject(val, d)
  BY <1>1 DEF Machine
<1>3. IsObject(Car(iter), d) /\ IsObject(Cdr(iter), d)
  BY <1>1, <1>2, CarAndCdr
<1>4. IsSeq(stack) /\ Len(stack) \in Nat /\ Top(acts) \in Nat /\ Top(acts) <= Len(stack)
  BY StateFacts
<1>5. /\ IsSeq(stack') /\ Len(stack') = Len(stack) + 1
      /\ \A i \in 1 .. Len(stack) : stack'[i] = stack[i]
      /\ stack'[Len(stack) + 1] = Car(iter)
  BY <1>1, <1>4, PushedOne
<1>6. Has(stack', stack, Top(acts))
  BY <1>4, <1>5 DEF Has
<1>7. ASSUME NEW i \in 1 .. Len(stack') PROVE IsObject(stack'[i], d)
  <2>1. i \in 1 .. Len(stack) \/ i = Len(stack) + 1
    BY <1>4, <1>5
  <2>2. QED
    BY <1>3, <1>5, <2>1 DEF Machine
<1>8. locals'.orig = locals.orig /\ locals'.held[1] = Cdr(iter)
  <2>1. IsLocals(locals)
    BY StateFacts
  <2>2. locals' = [orig |-> locals.orig, argc |-> locals.argc + 1, i |-> locals.i,
                   proc |-> locals.proc, evals |-> locals.evals,
                   held |-> <<Cdr(iter), locals.held[2]>>]
    BY <1>1, <2>1 DEF IsLocals
  <2>3. QED
    BY <2>2
<1>9. Holds("push", Len(stack'), stack', locals')
  <2>1. locals.orig \in 1 .. Len(stack)
    BY <1>1, AtApplication
  <2>2. stack[locals.orig].t = "environ"
    BY <1>1, Applied
  <2>3. stack'[locals'.orig].t = "environ"
    BY <1>5, <1>8, <2>1, <2>2
  <2>4. QED
    BY <2>3 DEF Holds
<1>10. Machine(d)'
  <2>1. Grows(d, d)
    BY DEF Grows
  <2>2. QED
    BY <1>1, <1>2, <1>3, <1>6, <1>7, <1>8, <1>9, <2>1, MachineRuns
<1>11. QED
  BY <1>1, <1>10, StepHere
LEMMA ArgumentsPushedRoots ==
  ASSUME IInv, NEW d, World(d), Machine(d), ArgumentsPushed
  PROVE  RInv'
<1>1. pc = "push" /\ UNCHANGED <<envs, store, input>>
  BY DEF ArgumentsPushed, world
<1>2. CASE Fatal
  BY <1>1, <1>2, EndsHere
<1>3. ASSUME NEW k,
             locals' = [locals EXCEPT !.i = k, !.held = <<>>],
             pc' = "arguments", UNCHANGED <<stack, acts, val>>
      PROVE  RInv'
  <2>1. locals'.orig = locals.orig
    BY <1>3, StateFacts DEF IsLocals
  <2>2. Holds(pc', Len(stack'), stack', locals')
    BY <1>1, <1>3, <2>1, Applied DEF Holds
  <2>3. Has(stack', stack, Top(acts)) /\ Grows(d, d)
    BY <1>3, StateFacts DEF Grows
  <2>4. Machine(d)'
    BY <1>3, <2>2, <2>3, StackStays, MachineRuns
  <2>5. QED
    BY <1>1, <2>4, StepHere
<1>4. QED
  BY <1>2, <1>3 DEF ArgumentsPushed

(* An argument is evaluated in the environment of the application.          *)
LEMMA EvalArgumentRoots ==
  ASSUME IInv, NEW d, World(d), Machine(d), EvalArgument
  PROVE  RInv'
<1> DEFINE x == stack[Len(stack) - locals.i]
           y == stack[locals.orig]
           t == <<x, Fp(locals.orig), y>>
           s == stack \o t
<1>1. pc = "arguments" /\ locals.i < locals.argc /\ UNCHANGED <<envs, store, input>>
  BY DEF EvalArgument, world
<1>2. /\ IsSeq(stack) /\ Len(stack) \in Nat /\ Top(acts) \in Nat
      /\ Top(acts) + 3 <= locals.orig /\ locals.orig + 1 <= Len(stack)
      /\ locals.orig \in Nat /\ locals.argc \in Nat /\ locals.i \in Nat
      /\ Len(stack) = locals.orig + 1 + locals.argc
  BY <1>1, AtApplication
<1>3. Call("argument", Len(stack), <<>>, s)
  BY DEF EvalArgument
<1>4. IsObject(x, d) /\ IsObject(y, d) /\ y.t = "environ" /\ locals.orig \in 1 .. Len(stack)
  <2>1. Len(stack) - locals.i \in 1 .. Len(stack) /\ locals.orig \in 1 .. Len(stack)
    BY <1>1, <1>2
  <2>2. QED
    BY <1>1, <2>1, Applied DEF Machine
<1>5. IsObject(Fp(locals.orig), d)
  BY AtomIsObject DEF Fp, Numbered
<1>6. IsSeq(t) /\ Len(t) = 3 /\ t[1] = x /\ t[2] = Fp(locals.orig) /\ t[3] = y
  BY Tuples
<1>7. s = stack \o t
  OBVIOUS
<1> HIDE DEF t, s
<1>seqs. IsSeq(stack) /\ IsSeq(t)
  BY <1>2, <1>6
<1>8. IsSeq(s) /\ Len(s) = Len(stack) + 3
  <2>1. IsSeq(s)
    BY <1>7, <1>seqs, IsPushed
  <2>2. Len(s) = Len(stack) + Len(t)
    BY <1>7, <1>seqs, IsPushed
  <2>3. QED
    BY <1>6, <2>1, <2>2
<1>9. /\ \A i \in 1 .. Len(stack) : s[i] = stack[i]
      /\ \A i \in 1 .. 3 : s[Len(stack) + i] = t[i]
  <2>1. \A i \in 1 .. Len(stack) : s[i] = stack[i]
    BY <1>7, <1>seqs, IsPushed
  <2>2. \A i \in 1 .. Len(t) : s[Len(stack) + i] = t[i]
    BY <1>7, <1>seqs, IsPushed
  <2>3. QED
    BY <1>6, <2>1, <2>2
<1>10. s[Len(stack) + 1] = x /\ s[Len(stack) + 2] = Fp(locals.orig) /\ s[Len(stack) + 3] = y
  BY <1>6, <1>9
<1>11. IsStack(s, d)
  <2>1. ASSUME NEW i \in 1 .. Len(s) PROVE IsObject(s[i], d)
    <3>1. i \in 1 .. Len(stack) \/ i = Len(stack) + 1 \/ i = Len(stack) + 2 \/ i = Len(stack) + 3
      BY <1>2, <1>8
    <3>2. QED
      BY <1>4, <1>5, <1>9, <1>10, <3>1 DEF Machine
  <2>2. QED
    BY <1>4, <1>8, <1>10, <2>1 DEF IsStack
<1>12. Has(s, stack, Top(acts))
  BY <1>2, <1>8, <1>9 DEF Has
<1>13. Holds("argument", Len(stack), s, [locals EXCEPT !.held = <<>>])
  <2> DEFINE l == [locals EXCEPT !.held = <<>>]
  <2>1. l.orig = locals.orig /\ l.held = <<>>
    BY StateFacts DEF IsLocals
  <2> HIDE DEF l
  <2>2. s[l.orig].t = "environ"
    BY <1>4, <1>9, <2>1
  <2>3. Holds("argument", Len(stack), s, l)
    BY <2>1, <2>2 DEF Holds
  <2>4. QED
    BY <2>3 DEF l
<1>14. Machine(d)'
  BY <1>3, <1>11, <1>12, <1>13, MachineCalls
<1>15. QED
  BY <1>1, <1>14, StepHere

LEMMA ArgumentDoneRoots ==
  ASSUME IInv, NEW d, World(d), Machine(d), ArgumentDone
  PROVE  RInv'
<1> DEFINE k == Len(stack) - locals.i
<1>1. /\ pc = "argument" /\ pc' = "arguments" /\ acts' = acts /\ val' = val
      /\ stack' = [stack EXCEPT ![k] = val] /\ UNCHANGED <<envs, store, input>>
      /\ locals' = [locals EXCEPT !.i = NextArgument(@)]
  BY DEF ArgumentDone, world
<1>2. /\ IsSeq(stack) /\ Len(stack) \in Nat /\ Top(acts) \in Nat
      /\ locals.orig \in Nat /\ locals.argc \in Nat /\ locals.i \in Nat
      /\ Top(acts) + 3 <= locals.orig
      /\ Len(stack) = locals.orig + 1 + locals.argc
  BY <1>1, AtApplication
<1>3. locals.i < locals.argc
  BY <1>1 DEF IInv, Placed
<1>4. k \in 1 .. Len(stack) /\ locals.orig + 2 <= k
  BY <1>2, <1>3
<1> HIDE DEF k
<1>5. IsSeq(stack') /\ Len(stack') = Len(stack)
  <2>1. IsSeq(stack')
    BY <1>1, <1>2, <1>4, IsWritten
  <2>2. Len(stack') = Len(stack)
    BY <1>1, <1>2, <1>4, IsWritten
  <2>3. QED
    BY <2>1, <2>2
<1>6. \A i \in 1 .. Len(stack) : i # k => stack'[i] = stack[i]
  BY <1>1, <1>2, <1>4, IsWritten
<1>7. stack'[k] = val
  BY <1>1, <1>2, <1>4, IsSeqProperties
<1>8. IsObject(val, d) /\ \A i \in 1 .. Len(stack') : IsObject(stack'[i], d)
  BY <1>5, <1>6, <1>7 DEF Machine
<1>9. Has(stack', stack, Top(acts)) /\ stack'[locals.orig] = stack[locals.orig]
  <2>1. \A i \in 1 .. locals.orig : i \in 1 .. Len(stack) /\ i # k
    BY <1>2, <1>4
  <2>2. \A i \in 1 .. locals.orig : stack'[i] = stack[i]
    BY <1>6, <2>1
  <2>3. locals.orig \in 1 .. locals.orig /\ \A i \in 1 .. Top(acts) : i \in 1 .. locals.orig
    BY <1>2
  <2>4. QED
    BY <1>2, <1>5, <2>2, <2>3 DEF Has
<1>10. locals'.orig = locals.orig
  BY <1>1, StateFacts DEF IsLocals
<1>11. Holds(pc', Len(stack'), stack', locals')
  BY <1>1, <1>9, <1>10, Applied DEF Holds
<1>12. Machine(d)'
  <2>1. Grows(d, d)
    BY DEF Grows
  <2>2. QED
    BY <1>1, <1>8, <1>9, <1>11, <2>1, MachineRuns
<1>13. QED
  BY <1>1, <1>12, StepHere

LEMMA ArgumentsDoneRoots ==
  ASSUME IInv, NEW d, World(d), Machine(d), ArgumentsDone
  PROVE  RInv'
<1> DEFINE t == <<Fp(locals.orig), stack[locals.orig]>>
<1>1. /\ pc = "arguments" /\ pc' = "apply" /\ UNCHANGED <<acts, locals, val, envs, store, input>>
      /\ stack' = stack \o t
  BY DEF ArgumentsDone, world
<1>2. /\ IsSeq(stack) /\ Len(stack) \in Nat /\ Top(acts) \in Nat /\ locals.orig \in Nat
      /\ Top(acts) + 3 <= locals.orig /\ locals.orig + 1 <= Len(stack)
  BY <1>1, AtApplication
<1>3. IsSeq(t) /\ Len(t) = 2 /\ t[1] = Fp(locals.orig) /\ t[2] = stack[locals.orig]
  BY Tuples
<1> HIDE DEF t
<1>seqs. IsSeq(stack) /\ IsSeq(t)
  BY <1>2, <1>3
<1>push. stack' = stack \o t
  BY <1>1
<1>4. IsSeq(stack') /\ Len(stack') = Len(stack) + 2
  <2>1. IsSeq(stack')
    BY <1>push, <1>seqs, IsPushed
  <2>2. Len(stack') = Len(stack) + Len(t)
    BY <1>push, <1>seqs, IsPushed
  <2>3. QED
    BY <1>3, <2>1, <2>2
<1>5. /\ \A i \in 1 .. Len(stack) : stack'[i] = stack[i]
      /\ \A i \in 1 .. 2 : stack'[Len(stack) + i] = t[i]
  <2>1. \A i \in 1 .. Len(stack) : stack'[i] = stack[i]
    BY <1>push, <1>seqs, IsPushed
  <2>2. \A i \in 1 .. Len(t) : stack'[Len(stack) + i] = t[i]
    BY <1>push, <1>seqs, IsPushed
  <2>3. QED
    BY <1>3, <2>1, <2>2
<1>6. stack'[Len(stack) + 1] = Fp(locals.orig) /\ stack'[Len(stack) + 2] = stack[locals.orig]
  BY <1>3, <1>5
<1>7. /\ locals.orig \in 1 .. Len(stack) /\ stack[locals.orig].t = "environ"
      /\ IsObject(stack[locals.orig], d)
  BY <1>1, <1>2, Applied DEF Machine
<1>8. IsObject(Fp(locals.orig), d)
  BY AtomIsObject DEF Fp, Numbered
<1>9. ASSUME NEW i \in 1 .. Len(stack') PROVE IsObject(stack'[i], d)
  <2>1. i \in 1 .. Len(stack) \/ i = Len(stack) + 1 \/ i = Len(stack) + 2
    BY <1>2, <1>4
  <2>2. QED
    BY <1>5, <1>6, <1>7, <1>8, <2>1 DEF Machine
<1>10. Has(stack', stack, Top(acts))
  BY <1>2, <1>4, <1>5 DEF Has
<1>11. Holds(pc', Len(stack'), stack', locals')
  BY <1>1, <1>4, <1>5, <1>6, <1>7 DEF Holds
<1>12. Machine(d)'
  <2>1. Grows(d, d) /\ IsObject(val, d)
    BY DEF Grows, Machine
  <2>2. QED
    BY <1>1, <1>9, <1>10, <1>11, <2>1, MachineRuns
<1>13. QED
  BY <1>1, <1>12, StepHere
(* The frame of eval_frame itself, where a tail call goes on.               *)
LEMMA OrigFrameIsStack ==
  ASSUME IInv, NEW d, Machine(d), pc = "apply"
  PROVE  /\ IsStack(OrigFrame, d) /\ Len(OrigFrame) = locals.orig
         /\ Has(OrigFrame, stack, Top(acts))
         /\ locals.orig \in Nat /\ Top(acts) \in Nat /\ Top(acts) + 3 <= locals.orig
<1>1. /\ Len(stack) \in Nat /\ Top(acts) \in Nat /\ locals.orig \in Nat
      /\ Top(acts) + 3 <= locals.orig /\ locals.orig + 1 <= Len(stack)
  BY AtApplication
<1>2. locals.orig <= Len(stack) /\ locals.orig \in 1 .. locals.orig
  BY <1>1
<1>3. /\ IsSeq(Down(locals.orig)) /\ Len(Down(locals.orig)) = locals.orig
      /\ \A i \in 1 .. locals.orig : Down(locals.orig)[i] = stack[i]
      /\ Has(Down(locals.orig), stack, Top(acts))
  BY <1>1, <1>2, DownTo
<1>4. stack[locals.orig].t = "environ"
  BY Applied
<1>5. \A i \in 1 .. locals.orig : IsObject(stack[i], d)
  BY <1>1 DEF Machine
<1>6. QED
  BY <1>1, <1>2, <1>3, <1>4, <1>5 DEF IsStack, OrigFrame

(* The arguments that the frame of an application has.                      *)
LEMMA ArgumentIsObject ==
  ASSUME IInv, NEW d, Machine(d), pc = "apply", NEW i \in Nat, i < locals.argc
  PROVE  IsObject(frame_ref(stack, i), d)
<1>1. /\ Len(stack) \in Nat /\ locals.orig \in Nat /\ locals.argc \in Nat
      /\ Len(stack) = locals.orig + 1 + locals.argc + 2
  BY AtApplication
<1>2. Len(stack) - 2 - i \in 1 .. Len(stack)
  BY <1>1
<1>3. QED
  BY <1>2 DEF Machine, frame_ref

LEMMA ApplyEvalRoots ==
  ASSUME IInv, NEW d, World(d), Machine(d), ApplyEval
  PROVE  RInv'
<1> DEFINE x == frame_ref(stack, 1)
           y == frame_ref(stack, 0)
           p == Fp(locals.orig)
           t == <<x, p, y>>
<1>1. pc = "apply" /\ UNCHANGED <<envs, store, input>>
  BY DEF ApplyEval, Applies, world
<1>2. CASE Fatal
  BY <1>1, <1>2, EndsHere
<1>3. CASE /\ locals.argc = 2 /\ y.t = "environ" /\ stack' = OrigFrame \o t
           /\ locals' = [NoLocals EXCEPT !.evals = locals.evals + 1]
           /\ pc' = "eval" /\ UNCHANGED <<acts, val>>
  <2>1. IsObject(x, d) /\ IsObject(y, d) /\ IsObject(p, d)
    <3>1. IsObject(x, d) /\ IsObject(y, d)
      BY <1>1, <1>3, ArgumentIsObject
    <3>2. IsObject(p, d)
      BY AtomIsObject DEF Fp, Numbered
    <3>3. QED
      BY <3>1, <3>2
  <2>2. /\ IsStack(OrigFrame, d) /\ Len(OrigFrame) = locals.orig
        /\ Has(OrigFrame, stack, Top(acts))
        /\ locals.orig \in Nat /\ Top(acts) \in Nat /\ Top(acts) + 3 <= locals.orig
    BY <1>1, OrigFrameIsStack
  <2> DEFINE s == OrigFrame
  <2>3. IsSeq(t) /\ Len(t) = 3 /\ t[1] = x /\ t[2] = p /\ t[3] = y
    BY Tuples
  <2>4. stack' = s \o t /\ y.t = "environ"
    BY <1>3
  <2>5. IsSeq(s) /\ Len(s) = locals.orig /\ IsSeq(t)
    BY <2>2, <2>3 DEF IsStack
  <2> HIDE DEF s, t, x, y, p
  <2>6. IsSeq(stack')
    BY <2>4, <2>5, IsPushed
  <2>7. Len(stack') = Len(s) + Len(t)
    BY <2>4, <2>5, IsPushed
  <2>8. \A i \in 1 .. Len(s) : stack'[i] = s[i]
    BY <2>4, <2>5, IsPushed
  <2>9. \A i \in 1 .. Len(t) : stack'[Len(s) + i] = t[i]
    BY <2>4, <2>5, IsPushed
  <2>10. /\ Len(stack') = locals.orig + 3 /\ stack'[locals.orig + 1] = x
         /\ stack'[locals.orig + 2] = p /\ stack'[locals.orig + 3] = y
    BY <2>3, <2>5, <2>7, <2>9
  <2>11. ASSUME NEW i \in 1 .. Len(stack') PROVE IsObject(stack'[i], d)
    <3>1. \/ i \in 1 .. locals.orig \/ i = locals.orig + 1
          \/ i = locals.orig + 2 \/ i = locals.orig + 3
      BY <2>2, <2>10
    <3>2. \A j \in 1 .. locals.orig : IsObject(s[j], d)
      BY <2>2 DEF IsStack, s
    <3>3. QED
      BY <2>1, <2>5, <2>8, <2>10, <3>1, <3>2
  <2>12. Has(stack', stack, Top(acts))
    <3>1. \A i \in 1 .. Top(acts) : i \in 1 .. locals.orig /\ s[i] = stack[i]
      BY <2>2 DEF Has, s
    <3>2. QED
      BY <2>2, <2>5, <2>6, <2>8, <2>10, <3>1 DEF Has
  <2>13. locals'.proc = Null
    BY <1>3 DEF NoLocals
  <2>14. Holds(pc', Len(stack'), stack', locals')
    BY <1>3, <2>4, <2>10, <2>13 DEF Holds
  <2>15. Machine(d)'
    <3>1. Grows(d, d) /\ IsObject(val, d)
      BY DEF Grows, Machine
    <3>2. QED
      BY <1>3, <2>11, <2>12, <2>14, <3>1, MachineRuns
  <2>16. QED
    BY <1>1, <2>15, StepHere
<1>4. QED
  BY <1>2, <1>3 DEF ApplyEval

LEMMA ApplyApplyRoots ==
  ASSUME IInv, NEW d, World(d), Machine(d), ApplyApply
  PROVE  RInv'
<1>1. pc = "apply" /\ UNCHANGED <<envs, store, input>>
  BY DEF ApplyApply, Applies, world
<1>2. CASE Fatal
  BY <1>1, <1>2, EndsHere
<1>3. CASE /\ locals.argc = 2
           /\ PushCallable(locals.orig, frame_ref(stack, 1), frame_ref(stack, 0), FALSE)
  <2>1. IsObject(frame_ref(stack, 1), d) /\ IsObject(frame_ref(stack, 0), d)
    BY <1>1, <1>3, ArgumentIsObject
  <2>2. locals.orig \in Nat /\ locals.orig = Base(Top(acts), locals) /\ locals.orig <= Len(stack)
    BY <1>1, AtApplication
  <2>3. stack[locals.orig].t = "environ"
    BY <1>1, Applied
  <2>4. QED
    BY <1>1, <1>3, <2>1, <2>2, <2>3, PushCallableRoots, Zenon
<1>4. QED
  BY <1>2, <1>3 DEF ApplyApply

(* A new environment inside an old one.                                     *)
LEMMA NewEnvSound ==
  ASSUME NEW d, World(d), NEW o \in 0 .. Len(envs),
         NEW t, \A x \in DOMAIN t : IsObject(t[x], d),
         envs' = Append(envs, [outer |-> o, table |-> t]), UNCHANGED <<store, input>>
  PROVE  \E e : Grows(d, e) /\ World(e)' /\ Len(envs) + 1 \in e["environ"]
<1> DEFINE r == [outer |-> o, table |-> t]
<1>1. PICK n : n = Len(envs) + 1
  OBVIOUS
<1> DEFINE e == [k \in Numbered |-> IF k = "environ" THEN 1 .. n ELSE d[k]]
<1>2. /\ IsSeq(envs) /\ Len(envs) \in Nat /\ d["environ"] = 1 .. Len(envs)
      /\ \A i \in 1 .. Len(envs) :
           /\ envs[i] = [outer |-> envs[i].outer, table |-> envs[i].table]
           /\ envs[i].outer \in 0 .. i - 1
           /\ \A x \in DOMAIN envs[i].table : IsObject(envs[i].table[x], d)
  BY IsSeqProperties DEF World, EnvsSound
<1>3. e["environ"] = 1 .. n /\ e["vector"] = d["vector"] /\ e["dict"] = d["dict"]
  BY DEF Numbered
<1> HIDE DEF e
<1>4. Grows(d, e)
  <2>1. 1 .. Len(envs) \subseteq 1 .. n
    BY <1>1, <1>2
  <2>2. QED
    BY <1>2, <1>3, <2>1 DEF Grows, Numbered
<1>5. r.outer = o /\ r.table = t /\ r = [outer |-> r.outer, table |-> r.table]
  OBVIOUS
<1>6. envs' = Append(envs, r)
  OBVIOUS
<1> HIDE DEF r
<1>7. /\ IsSeq(envs') /\ Len(envs') = n
      /\ (\A i \in 1 .. Len(envs) : envs'[i] = envs[i]) /\ envs'[n] = r
  BY <1>1, <1>2, <1>6, PushedOne
<1>8. ASSUME NEW i \in 1 .. n
      PROVE  /\ envs'[i] = [outer |-> envs'[i].outer, table |-> envs'[i].table]
             /\ envs'[i].outer \in 0 .. i - 1
             /\ \A x \in DOMAIN envs'[i].table : IsObject(envs'[i].table[x], e)
  <2>1. CASE i = n
    <3>1. \A x \in DOMAIN r.table : IsObject(r.table[x], e)
      BY <1>4, <1>5, ObjectStays
    <3>2. r.outer \in 0 .. n - 1
      BY <1>1, <1>2, <1>5
    <3>3. envs'[i] = r
      BY <1>7, <2>1
    <3>4. QED
      BY <1>5, <2>1, <3>1, <3>2, <3>3
  <2>2. CASE i # n
    <3>1. i \in 1 .. Len(envs)
      BY <1>1, <1>2, <2>2
    <3>2. \A x \in DOMAIN envs[i].table : IsObject(envs[i].table[x], e)
      <4>1. \A x \in DOMAIN envs[i].table : IsObject(envs[i].table[x], d)
        BY <1>2, <3>1
      <4>2. QED
        BY <1>4, <4>1, ObjectStays
    <3>3. envs'[i] = envs[i]
      BY <1>7, <3>1
    <3>4. QED
      BY <1>2, <3>1, <3>2, <3>3
  <2>3. QED
    BY <2>1, <2>2
<1>9. EnvsSound(e)'
  BY <1>3, <1>7, <1>8 DEF EnvsSound
<1>10. StoreSound(e)'
  BY <1>3, <1>4, ObjectStays DEF World, StoreSound
<1>11. InputSound'
  BY DEF World, InputSound
<1>12. n \in e["environ"]
  BY <1>1, <1>2, <1>3
<1>13. QED
  BY <1>1, <1>4, <1>9, <1>10, <1>11, <1>12 DEF World

(* The greatest of some of the numbers up to n.                             *)
LEMMA GreatestMember ==
  ASSUME NEW n \in Nat, NEW D \in SUBSET (1 .. n), D # {}
  PROVE  Max(D) \in D
<1> DEFINE E == {n - k : k \in D}
<1>1. E \in SUBSET Nat /\ E # {}
  <2>1. \A k \in D : n - k \in Nat
    OBVIOUS
  <2>2. QED
    BY <2>1
<1>2. PICK m \in E : \A j \in E : m <= j
  <2> HIDE DEF E
  <2>1. QED
    BY <1>1, LeastMember
<1>3. PICK k \in D : m = n - k
  OBVIOUS
<1>4. \A j \in D : k >= j
  <2>1. ASSUME NEW j \in D PROVE k >= j
    <3>1. n - k <= n - j
      BY <1>2, <1>3
    <3>2. QED
      BY <3>1
  <2>2. QED
    BY <2>1
<1>5. QED
  BY <1>4 DEF Max
(* A function from the first n numbers is a sequence.                       *)
LEMMA FunctionIsSeq ==
  ASSUME NEW n \in Nat, NEW s, s = [k \in 1 .. n |-> s[k]]
  PROVE  IsSeq(s) /\ Len(s) = n
<1>1. DOMAIN s = 1 .. n
  OBVIOUS
<1>2. \A k \in 1 .. n : s[k] \in Range(s)
  BY <1>1 DEF Range
<1>3. s \in [1 .. n -> Range(s)]
  BY <1>2
<1>4. s \in Seq(Range(s))
  BY <1>3, SeqDef
<1>5. Len(s) = n
  BY <1>1, <1>4, LenProperties
<1>6. QED
  BY <1>4, <1>5 DEF IsSeq

(* What the formals of a closure are bound to.                              *)
LEMMA TableSound ==
  ASSUME NEW d, NEW f, IsObject(f, d), NEW a, IsSeq(a), \A k \in 1 .. Len(a) : IsObject(a[k], d),
         Accepts(f, Len(a)), NEW x \in DOMAIN Table(f, a)
  PROVE  IsObject(Table(f, a)[x], d)
<1> DEFINE m == Len(Items(f))
           n == Len(Formals(f))
           D == {k \in 1 .. n : Formals(f)[k].name = x}
           k == Max(D)
<1>1. IsSeq(Items(f)) /\ m \in Nat
  <2>1. CASE f.t = "pair"
    BY <2>1, PartsOfPair DEF Items
  <2>2. CASE f.t # "pair"
    <3>1. <<>> \in Seq({})
      OBVIOUS
    <3>2. QED
      BY <2>2, <3>1, SeqIsSeq, IsSeqProperties DEF Items
  <2>3. QED
    BY <2>1, <2>2
<1>2. n \in Nat /\ n <= m + 1
  <2>1. PICK t : Formals(f) = Items(f) \o t /\ IsSeq(t) /\ Len(t) \in 0 .. 1
    <3>1. \A y : IsSeq(<<y>>) /\ Len(<<y>>) = 1
      <4>1. ASSUME NEW y PROVE IsSeq(<<y>>) /\ Len(<<y>>) = 1
        <5>1. <<y>> \in Seq({y})
          OBVIOUS
        <5>2. QED
          BY <5>1, SeqIsSeq
      <4>2. QED
        BY <4>1
    <3>2. IsSeq(<<>>) /\ Len(<<>>) = 0
      <4>1. <<>> \in Seq({})
        OBVIOUS
      <4>2. QED
        BY <4>1, SeqIsSeq
    <3>3. \/ Formals(f) = Items(f) \o <<f.end>> \/ Formals(f) = Items(f) \o <<f>>
          \/ Formals(f) = Items(f) \o <<>>
      BY DEF Formals
    <3>4. 0 \in 0 .. 1 /\ 1 \in 0 .. 1
      OBVIOUS
    <3>5. QED
      BY <3>1, <3>2, <3>3, <3>4
  <2>2. Len(Items(f) \o t) = m + Len(t)
    BY <1>1, <2>1, Pushed
  <2>3. QED
    BY <1>1, <2>1, <2>2
<1>3. Len(a) \in Nat /\ m <= Len(a)
  BY <1>1, IsSeqProperties DEF Accepts
<1>4. k \in D
  <2>1. D # {}
    BY DEF Table
  <2>2. D \in SUBSET (1 .. n)
    OBVIOUS
  <2> HIDE DEF D, n
  <2>3. QED
    BY <1>2, <2>1, <2>2, GreatestMember
<1>5. Table(f, a)[x] = BoundTo(f, a, k)
  BY DEF Table
<1>6. k \in 1 .. n
  BY <1>4
<1> HIDE DEF k, D, n
<1>7. CASE k <= m
  <2>1. k \in 1 .. Len(a)
    BY <1>1, <1>2, <1>3, <1>6, <1>7
  <2>2. QED
    BY <1>5, <1>7, <2>1 DEF BoundTo
<1>8. CASE ~ k <= m
  <2> DEFINE r == SubSeq(a, k, Len(a))
  <2>1. k \in 1 .. Len(a) + 1
    BY <1>1, <1>2, <1>3, <1>6, <1>8
  <2>2. /\ IsSeq(r) /\ Len(r) = Len(a) - k + 1
        /\ \A i \in 1 .. Len(a) - k + 1 : r[i] = a[k + i - 1]
    BY <2>1, From
  <2> HIDE DEF r
  <2>3. \A i \in 1 .. Len(r) : IsObject(r[i], d)
    <3>1. \A i \in 1 .. Len(a) - k + 1 : k + i - 1 \in 1 .. Len(a)
      BY <1>3, <2>1
    <3>2. QED
      BY <2>2, <3>1
  <2>4. IsObject(Nil, d)
    BY AtomIsObject DEF Nil, Numbered
  <2>5. IsObject(List(r, Nil), d)
    BY <2>2, <2>3, <2>4, ListIsObject
  <2>6. QED
    BY <1>5, <1>8, <2>5 DEF BoundTo, r
<1>9. QED
  BY <1>7, <1>8

(* The arguments are objects.                                               *)
LEMMA ArgsSound ==
  ASSUME IInv, NEW d, Machine(d), pc = "apply"
  PROVE  IsSeq(Args) /\ Len(Args) = locals.argc /\ \A k \in 1 .. Len(Args) : IsObject(Args[k], d)
<1>1. locals.argc \in Nat
  BY AtApplication
<1> DEFINE a == Args
<1>2. a = [k \in 1 .. locals.argc |-> a[k]]
  BY DEF Args
<1>3. \A k \in 1 .. locals.argc : a[k] = frame_ref(stack, locals.argc - k)
  BY DEF Args
<1> HIDE DEF a
<1>4. IsSeq(a) /\ Len(a) = locals.argc
  BY <1>1, <1>2, FunctionIsSeq
<1>5. ASSUME NEW k \in 1 .. locals.argc PROVE IsObject(a[k], d)
  <2>1. locals.argc - k \in Nat /\ locals.argc - k < locals.argc
    BY <1>1
  <2>2. QED
    BY <1>3, <2>1, ArgumentIsObject
<1>6. QED
  BY <1>4, <1>5 DEF a

(* A closure's body is evaluated in a new environment.                      *)
LEMMA ApplyClosureRoots ==
  ASSUME IInv, NEW d, World(d), Machine(d), ApplyClosure
  PROVE  RInv'
<1> DEFINE f == locals.proc.formals
           t == Table(f, Args)
           env == Environ(Len(envs) + 1)
           body == Pair(Sym("begin"), locals.proc.body)
           s == SetSlot(OrigFrame, body)
<1>1. pc = "apply" /\ locals.proc.t = "closure" /\ UNCHANGED <<store, input>>
  BY DEF ApplyClosure, Applies
<1>2. IsObject(locals.proc, d)
  BY <1>1, Applied
<1>3. locals.proc.env \in d["environ"] /\ IsObject(f, d) /\ IsObject(locals.proc.body, d)
  BY <1>1, <1>2, PartsOfClosure
<1>4. CASE (Fatal \/ Result(Undefined)) /\ UNCHANGED envs
  <2>1. IsObject(Undefined, d)
    BY AtomIsObject DEF Undefined, Numbered
  <2>2. QED
    BY <1>1, <1>4, <2>1, EndsHere
<1>5. CASE /\ Accepts(f, locals.argc)
           /\ envs' = Append(envs, [outer |-> locals.proc.env, table |-> t])
           /\ stack' = [s EXCEPT ![Len(OrigFrame)] = env]
           /\ locals' = [NoLocals EXCEPT !.evals = locals.evals]
           /\ pc' = "eval" /\ UNCHANGED <<acts, val>>
  <2>1. \A x \in DOMAIN t : IsObject(t[x], d)
    BY <1>1, <1>3, <1>5, ArgsSound, TableSound
  <2>2. locals.proc.env \in 0 .. Len(envs)
    <3>1. d["environ"] = 1 .. Len(envs) /\ Len(envs) \in Nat
      BY IsSeqProperties DEF World, EnvsSound
    <3>2. QED
      BY <1>3, <3>1
  <2>3. PICK e : Grows(d, e) /\ World(e)' /\ Len(envs) + 1 \in e["environ"]
    <3> HIDE DEF t
    <3>1. QED
      BY <1>1, <1>5, <2>1, <2>2, NewEnvSound
  <2>4. env.t = "environ" /\ IsObject(env, e)
    <3>1. env.t = "environ" /\ env.id = Len(envs) + 1
      BY DEF Environ
    <3>2. QED
      BY <2>3, <3>1, NumberedIsObject DEF Numbered
  <2>5. IsObject(body, d)
    <3> DEFINE q == <<Sym("begin")>>
    <3>1. IsSeq(q) /\ Len(q) = 1 /\ q[1] = Sym("begin")
      <4>1. q \in Seq({Sym("begin")})
        OBVIOUS
      <4>2. QED
        BY <4>1, SeqIsSeq
    <3>2. IsObject(Sym("begin"), d)
      BY AtomIsObject DEF Sym, Numbered
    <3> HIDE DEF q
    <3>3. \A k \in 1 .. Len(q) : IsObject(q[k], d)
      BY <3>1, <3>2
    <3>4. IsObject(List(q, locals.proc.body), d)
      BY <1>3, <3>1, <3>3, ListIsObject
    <3>5. QED
      BY <3>4 DEF Pair, q
  <2>6. /\ IsStack(OrigFrame, d) /\ Len(OrigFrame) = locals.orig
        /\ Has(OrigFrame, stack, Top(acts))
        /\ locals.orig \in Nat /\ Top(acts) \in Nat /\ Top(acts) + 3 <= locals.orig
    BY <1>1, OrigFrameIsStack
  <2> HIDE DEF body, env
  <2>7. /\ IsStack(s, d) /\ Len(s) = locals.orig
        /\ \A i \in 1 .. locals.orig - 3 : s[i] = OrigFrame[i]
    <3>1. Len(OrigFrame) >= 3 /\ IsSeq(OrigFrame)
      BY <2>6 DEF IsStack
    <3>2. \A i \in 1 .. Len(OrigFrame) - 3 : s[i] = OrigFrame[i]
      BY <3>1, SlotWritten
    <3>3. QED
      BY <2>5, <2>6, <3>1, <3>2, SlotHolds
  <2> HIDE DEF s
  <2>8. /\ IsSeq(s) /\ locals.orig \in 1 .. Len(s)
    BY <2>6, <2>7 DEF IsStack
  <2>9. stack' = [s EXCEPT ![locals.orig] = env]
    BY <1>5, <2>6
  <2>10. IsSeq(stack')
    BY <2>8, <2>9, IsWritten
  <2>11. Len(stack') = Len(s)
    BY <2>8, <2>9, IsWritten
  <2>12. \A i \in 1 .. Len(s) : i # locals.orig => stack'[i] = s[i]
    BY <2>8, <2>9, IsWritten
  <2>13. stack'[locals.orig] = env
    BY <2>8, <2>9, IsSeqProperties
  <2>14. ASSUME NEW i \in 1 .. Len(stack') PROVE IsObject(stack'[i], e)
    <3>1. CASE i = locals.orig
      BY <2>4, <2>13, <3>1
    <3>2. CASE i # locals.orig
      <4>1. stack'[i] = s[i] /\ IsObject(s[i], d)
        BY <2>7, <2>11, <2>12, <3>2 DEF IsStack
      <4>2. QED
        BY <2>3, <4>1, ObjectStays
    <3>3. QED
      BY <3>1, <3>2
  <2>15. Has(stack', stack, Top(acts))
    <3>1. \A i \in 1 .. Top(acts) : i \in 1 .. locals.orig - 3 /\ i \in 1 .. Len(s) /\ i # locals.orig
      BY <2>6, <2>7
    <3>2. \A i \in 1 .. Top(acts) : stack'[i] = stack[i]
      BY <2>6, <2>7, <2>12, <3>1 DEF Has
    <3>3. QED
      BY <2>6, <2>7, <2>10, <2>11, <3>2 DEF Has
  <2>16. locals'.proc = Null
    BY <1>5 DEF NoLocals
  <2>17. Holds(pc', Len(stack'), stack', locals')
    BY <1>5, <2>4, <2>7, <2>11, <2>13, <2>16 DEF Holds
  <2>18. Machine(e)'
    BY <1>5, <2>3, <2>14, <2>15, <2>17, StackStays, MachineRuns
  <2>19. QED
    BY <2>3, <2>18 DEF RInv
<1>6. QED
  BY <1>4, <1>5 DEF ApplyClosure
(* A throw hands over its argument to a function that waits.                *)
LEMMA ThrowRoots ==
  ASSUME IInv, NEW d, World(d), Machine(d), Throw
  PROVE  RInv'
<1>1. pc = "apply" /\ UNCHANGED <<envs, store, input>>
  BY DEF Throw, Applies, world
<1>2. CASE Fatal \/ Result(Undefined)
  <2>1. IsObject(Undefined, d)
    BY AtomIsObject DEF Undefined, Numbered
  <2>2. QED
    BY <1>1, <1>2, <2>1, EndsHere
<1>3. ASSUME NEW n \in DOMAIN acts, locals.argc = 1, acts' = SubSeq(acts, 1, n),
             val' = frame_ref(stack, 0), pc' = "return", UNCHANGED <<stack, locals>>
      PROVE  RInv'
  <2>1. IsSeq(acts) /\ n \in 0 .. Len(acts) /\ Len(acts) \in Nat
    BY <1>3, IsSeqProperties DEF IInv, Frames
  <2>2. Len(acts') = n /\ \A j \in 1 .. n : acts'[j] = acts[j]
    BY <1>3, <2>1, Prefix
  <2>3. \A j \in 1 .. Len(acts') : Holds(acts'[j].at, acts'[j].height, stack', acts'[j].locals)
    BY <1>3, <2>1, <2>2 DEF Machine
  <2>4. IsObject(val', d)
    BY <1>1, <1>3, ArgumentIsObject
  <2>5. Holds("return", Len(stack), stack, locals)
    BY DEF Holds
  <2>6. Machine(d)'
    BY <1>3, <2>3, <2>4, <2>5 DEF Machine
  <2>7. QED
    BY <1>1, <2>6, StepHere
<1>4. QED
  BY <1>2, <1>3 DEF Throw
-----------------------------------------------------------------------------
(* The primitives.                                                          *)

(* What LIB_PROC_HEADER takes from the stack are objects.                   *)
LEMMA LibArgsSound ==
  ASSUME IInv, NEW d, Machine(d), pc = "apply"
  PROVE  IsSeq(LibArgs) /\ \A k \in 1 .. Len(LibArgs) : IsObject(LibArgs[k], d)
<1>1. /\ Len(stack) \in Nat /\ locals.orig \in Nat /\ locals.argc \in Nat
      /\ Len(stack) = locals.orig + 1 + locals.argc + 2
  BY AtApplication
<1>2. frame_prev(stack) = locals.orig
  <2>1. stack[Len(stack) - 1] = Fp(locals.orig)
    BY DEF IInv, Placed
  <2>2. QED
    BY <2>1 DEF frame_prev, Fp
<1> DEFINE O == {v \in Range(stack) : IsObject(v, d)}
           m == locals.orig + 2
           n == Len(stack) - 2
<1>3. m \in Int /\ n \in Int /\ m - 1 <= n /\ m \in Nat
  BY <1>1
<1>4. \A i \in m .. n : stack[i] \in O
  <2>1. \A i \in m .. n : i \in 1 .. Len(stack)
    BY <1>1
  <2>2. IsSeq(stack)
    BY StateFacts
  <2>3. QED
    BY <2>1, <2>2, IsSeqProperties DEF Machine
<1> HIDE DEF m, n
<1>5. SubSeq(stack, m, n) \in Seq(O)
  BY <1>3, <1>4, SubSeqProperties
<1>6. LibArgs = SubSeq(stack, m, n)
  BY <1>2 DEF LibArgs, m, n
<1>7. IsSeq(LibArgs) /\ \A k \in 1 .. Len(LibArgs) : LibArgs[k] \in O
  BY <1>5, <1>6, SeqIsSeq, ElementOfSeq
<1>8. QED
  BY <1>7

(* The vectors and hash tables do not change, or there is one more, or one  *)
(* has other contents.                                                      *)
LEMMA WorldKept ==
  ASSUME NEW d, World(d), UNCHANGED <<envs, store, input>>
  PROVE  World(d)'
BY DEF World, EnvsSound, StoreSound, InputSound

LEMMA StoreAppended ==
  ASSUME NEW d, World(d), NEW type \in {"vector", "dict"},
         NEW c, \A x \in DOMAIN c : IsObject(c[x], d),
         type = "vector" => \E n \in Nat : DOMAIN c = 0 .. n - 1,
         store' = Append(store, c), UNCHANGED <<envs, input>>
  PROVE  \E e : /\ Grows(d, e) /\ World(e)'
                /\ Len(store) + 1 \in e[type]
<1>1. PICK m : m = Len(store) + 1
  OBVIOUS
<1> DEFINE e == [k \in Numbered |-> IF k = type THEN d[k] \cup {m} ELSE d[k]]
<1>2. /\ IsSeq(store) /\ Len(store) \in Nat
      /\ d["vector"] \cup d["dict"] \subseteq 1 .. Len(store)
      /\ d["vector"] \cap d["dict"] = {}
      /\ \A i \in 1 .. Len(store) : \A x \in DOMAIN store[i] : IsObject(store[i][x], d)
      /\ \A i \in d["vector"] : \E n \in Nat : DOMAIN store[i] = 0 .. n - 1
  BY IsSeqProperties DEF World, StoreSound
<1>3. /\ e["environ"] = d["environ"]
      /\ e["vector"] = IF type = "vector" THEN d["vector"] \cup {m} ELSE d["vector"]
      /\ e["dict"] = IF type = "dict" THEN d["dict"] \cup {m} ELSE d["dict"]
  BY DEF Numbered
<1> HIDE DEF e
<1>4. Grows(d, e) /\ m \in e[type]
  BY <1>3 DEF Grows, Numbered
<1>5. /\ IsSeq(store') /\ Len(store') = m
      /\ (\A i \in 1 .. Len(store) : store'[i] = store[i]) /\ store'[m] = c
  BY <1>1, <1>2, PushedOne
<1>6. \A i \in 1 .. m : i = m \/ i \in 1 .. Len(store)
  BY <1>1, <1>2
<1>7. m \notin 1 .. Len(store) /\ m \in 1 .. m /\ 1 .. Len(store) \subseteq 1 .. m
  BY <1>1, <1>2
<1>8. ASSUME NEW i \in 1 .. m, NEW x \in DOMAIN store'[i]
      PROVE  IsObject(store'[i][x], e)
  <2>1. IsObject(store'[i][x], d)
    BY <1>2, <1>5, <1>6
  <2>2. QED
    BY <1>4, <2>1, ObjectStays
<1>9. ASSUME NEW i \in e["vector"] PROVE \E n \in Nat : DOMAIN store'[i] = 0 .. n - 1
  <2>1. CASE i = m
    BY <1>2, <1>3, <1>5, <1>7, <2>1
  <2>2. CASE i # m
    <3>1. i \in d["vector"] /\ i \in 1 .. Len(store)
      BY <1>2, <1>3, <2>2
    <3>2. QED
      BY <1>2, <1>5, <3>1
  <2>3. QED
    BY <2>1, <2>2
<1>10. e["vector"] \cup e["dict"] \subseteq 1 .. m /\ e["vector"] \cap e["dict"] = {}
  BY <1>2, <1>3, <1>7
<1>11. StoreSound(e)'
  BY <1>5, <1>8, <1>9, <1>10 DEF StoreSound
<1>12. EnvsSound(e)'
  <2>1. ASSUME NEW i \in 1 .. Len(envs), NEW x \in DOMAIN envs[i].table
        PROVE  IsObject(envs[i].table[x], e)
    <3>1. IsObject(envs[i].table[x], d)
      BY DEF World, EnvsSound
    <3>2. QED
      BY <1>4, <3>1, ObjectStays
  <2>2. QED
    BY <1>3, <2>1 DEF World, EnvsSound
<1>13. InputSound'
  BY DEF World, InputSound
<1>14. QED
  BY <1>1, <1>4, <1>11, <1>12, <1>13 DEF World

LEMMA StoreUpdated ==
  ASSUME NEW d, World(d), NEW i \in 1 .. Len(store),
         NEW c, \A x \in DOMAIN c : IsObject(c[x], d),
         i \in d["vector"] => \E n \in Nat : DOMAIN c = 0 .. n - 1,
         store' = [store EXCEPT ![i] = c], UNCHANGED <<envs, input>>
  PROVE  World(d)'
<1>1. IsSeq(store)
  BY DEF World, StoreSound
<1>2. IsSeq(store')
  BY <1>1, IsWritten
<1>3. Len(store') = Len(store)
  BY <1>1, IsWritten
<1>4. \A j \in 1 .. Len(store) : j # i => store'[j] = store[j]
  BY <1>1, IsWritten
<1>5. store'[i] = c
  BY <1>1, IsSeqProperties
<1>6. StoreSound(d)'
  BY <1>2, <1>3, <1>4, <1>5 DEF World, StoreSound
<1>7. QED
  BY <1>6 DEF World, EnvsSound, InputSound
(* The contents of a vector, as a list.                                     *)
LEMMA VectorLength ==
  ASSUME NEW d, World(d), NEW v, IsObject(v, d), v.t = "vector"
  PROVE  /\ v.id \in 1 .. Len(store) /\ Length(v, store) \in Nat
         /\ DOMAIN store[v.id] = 0 .. Length(v, store) - 1
<1>1. v.id \in d["vector"]
  BY NumberOf DEF Numbered
<1>2. PICK n \in Nat : DOMAIN store[v.id] = 0 .. n - 1
  BY <1>1 DEF World, StoreSound
<1>3. Cardinality(0 .. n - 1) = n
  <2>1. Cardinality(0 .. n - 1) = IF 0 > n - 1 THEN 0 ELSE n - 1 - 0 + 1
    BY FS_Interval
  <2>2. QED
    BY <2>1
<1>4. Length(v, store) = n
  BY <1>2, <1>3 DEF Length
<1>5. QED
  BY <1>1, <1>2, <1>4 DEF World, StoreSound

LEMMA Vector2ListSound ==
  ASSUME NEW d, World(d), NEW a, IsSeq(a), \A k \in 1 .. Len(a) : IsObject(a[k], d)
  PROVE  IsObject(lib_vector2list(a, store), d)
<1> DEFINE v == a[1]
           n == Length(v, store)
           s == [k \in 1 .. n |-> store[v.id][k - 1]]
<1>1. CASE Len(a) = 1 /\ v.t = "vector"
  <2>1. IsObject(v, d)
    <3>1. 1 \in 1 .. Len(a)
      BY <1>1
    <3>2. QED
      BY <3>1
  <2>2. v.id \in 1 .. Len(store) /\ n \in Nat /\ DOMAIN store[v.id] = 0 .. n - 1
    BY <1>1, <2>1, VectorLength
  <2> HIDE DEF n
  <2>3. s = [k \in 1 .. n |-> s[k]]
    OBVIOUS
  <2>4. \A k \in 1 .. n : IsObject(s[k], d)
    <3>1. \A k \in 1 .. n : s[k] = store[v.id][k - 1] /\ k - 1 \in 0 .. n - 1
      BY <2>2
    <3>2. \A x \in 0 .. n - 1 : IsObject(store[v.id][x], d)
      BY <2>2 DEF World, StoreSound
    <3>3. QED
      BY <3>1, <3>2
  <2> HIDE DEF s, v
  <2>5. IsSeq(s) /\ Len(s) = n
    BY <2>2, <2>3, FunctionIsSeq
  <2>6. IsObject(Nil, d)
    BY AtomIsObject DEF Nil, Numbered
  <2>7. IsObject(List(s, Nil), d)
    BY <2>4, <2>5, <2>6, ListIsObject
  <2>8. lib_vector2list(a, store) = List(s, Nil)
    BY <1>1 DEF lib_vector2list, s, n, v
  <2>9. QED
    BY <2>7, <2>8
<1>2. CASE ~ (Len(a) = 1 /\ v.t = "vector")
  <2>1. lib_vector2list(a, store) \in {Error, Undefined}
    BY <1>2 DEF lib_vector2list
  <2>2. IsObject(Error, d) /\ IsObject(Undefined, d)
    BY AtomIsObject DEF Error, Undefined, Numbered
  <2>3. QED
    BY <2>1, <2>2
<1>3. QED
  BY <1>1, <1>2

(* The primitives that make or take apart pairs.                            *)
LEMMA PairsSound ==
  ASSUME NEW d, NEW a, IsSeq(a), \A k \in 1 .. Len(a) : IsObject(a[k], d)
  PROVE  IsObject(lib_cons(a), d) /\ IsObject(lib_car(a), d) /\ IsObject(lib_cdr(a), d)
<1>1. IsObject(Error, d)
  BY AtomIsObject DEF Error, Numbered
<1>2. Len(a) = 1 => IsObject(a[1], d)
  BY 1 \in 1 .. 1
<1>3. Len(a) = 2 => IsObject(a[1], d) /\ IsObject(a[2], d)
  BY 1 \in 1 .. 2, 2 \in 1 .. 2
<1>4. IsObject(lib_cons(a), d)
  <2>1. CASE Len(a) = 2
    <3> DEFINE q == <<a[1]>>
    <3>1. IsSeq(q) /\ Len(q) = 1 /\ q[1] = a[1]
      <4>1. q \in Seq({a[1]})
        OBVIOUS
      <4>2. QED
        BY <4>1, SeqIsSeq
    <3> HIDE DEF q
    <3>2. \A k \in 1 .. Len(q) : IsObject(q[k], d)
      BY <1>3, <2>1, <3>1
    <3>3. IsObject(List(q, a[2]), d)
      BY <1>3, <2>1, <3>1, <3>2, ListIsObject
    <3>4. QED
      BY <2>1, <3>3 DEF lib_cons, Pair, q
  <2>2. CASE Len(a) # 2
    BY <1>1, <2>2 DEF lib_cons
  <2>3. QED
    BY <2>1, <2>2
<1>5. IsObject(lib_car(a), d)
  BY <1>1, <1>2, CarAndCdr DEF lib_car
<1>6. IsObject(lib_cdr(a), d)
  BY <1>1, <1>2, CarAndCdr DEF lib_cdr
<1>7. QED
  BY <1>4, <1>5, <1>6

(* Those that take an object out of a vector or a hash table.               *)
LEMMA ElementsSound ==
  ASSUME NEW d, World(d), NEW a, IsSeq(a), \A k \in 1 .. Len(a) : IsObject(a[k], d)
  PROVE  /\ IsObject(lib_vector_ref(a, store), d)
         /\ IsObject(lib_dict_ref(a, store), d)
         /\ IsObject(lib_dict_ref_default(a, store), d)
<1>1. IsObject(Error, d) /\ IsObject(Undefined, d)
  BY AtomIsObject DEF Error, Undefined, Numbered
<1>2. ASSUME NEW v, IsObject(v, d), v.t \in {"vector", "dict"}, NEW x \in DOMAIN store[v.id]
      PROVE  IsObject(store[v.id][x], d)
  <2>1. v.id \in 1 .. Len(store)
    BY <1>2, NumberOf DEF Numbered, World, StoreSound
  <2>2. QED
    BY <1>2, <2>1 DEF World, StoreSound
<1>3. Len(a) \in {2, 3} => IsObject(a[1], d)
  BY 1 \in 1 .. 2, 1 \in 1 .. 3
<1>4. Len(a) = 3 => IsObject(a[3], d)
  BY 3 \in 1 .. 3
<1>5. IsObject(lib_vector_ref(a, store), d)
  BY <1>1, <1>2, <1>3 DEF lib_vector_ref, InBounds
<1>6. IsObject(lib_dict_ref(a, store), d)
  BY <1>1, <1>2, <1>3 DEF lib_dict_ref, Lookup
<1>7. IsObject(lib_dict_ref_default(a, store), d)
  BY <1>1, <1>2, <1>3, <1>4 DEF lib_dict_ref_default, Lookup
<1>8. QED
  BY <1>5, <1>6, <1>7

\* The sums of the first numbers of a, as a function.
Sums(f, a, n) == f = [k \in 0 .. n |-> IF k = 0 THEN 0 ELSE f[k - 1] + a[k].n]

LEMMA SumsExist ==
  ASSUME NEW a, NEW n \in Nat
  PROVE  \E f : Sums(f, a, n)
<1> DEFINE D == {m \in Nat : ~ \E f : Sums(f, a, m)}
<1> SUFFICES ASSUME D # {} PROVE FALSE
  OBVIOUS
<1>1. PICK m \in D : \A k \in D : m <= k
  <2>1. D \in SUBSET Nat
    OBVIOUS
  <2> HIDE DEF D
  <2>2. QED
    BY <2>1, LeastMember
<1>2. CASE m = 0
  <2> DEFINE f == [k \in 0 .. 0 |-> 0]
  <2>1. f = [k \in 0 .. 0 |-> IF k = 0 THEN 0 ELSE f[k - 1] + a[k].n]
    OBVIOUS
  <2> HIDE DEF f
  <2>2. QED
    BY <1>2, <2>1 DEF Sums
<1>3. CASE m # 0
  <2>1. m \in Nat \ {0} /\ m - 1 \in Nat /\ m - 1 \notin D
    BY <1>1, <1>3
  <2>2. PICK g : Sums(g, a, m - 1)
    BY <2>1
  <2> DEFINE f == [k \in 0 .. m |-> IF k < m THEN g[k] ELSE g[m - 1] + a[m].n]
  <2>3. ASSUME NEW k \in 0 .. m
        PROVE  f[k] = IF k = 0 THEN 0 ELSE f[k - 1] + a[k].n
    <3>1. CASE k < m
      <4>1. k \in 0 .. m - 1 /\ f[k] = g[k]
        BY <2>1, <3>1
      <4>2. g[k] = IF k = 0 THEN 0 ELSE g[k - 1] + a[k].n
        BY <2>2, <4>1 DEF Sums
      <4>3. k # 0 => k - 1 \in 0 .. m /\ k - 1 < m /\ f[k - 1] = g[k - 1]
        BY <2>1, <3>1
      <4>4. QED
        BY <4>1, <4>2, <4>3
    <3>2. CASE ~ k < m
      <4>1. k = m /\ m - 1 \in 0 .. m /\ m - 1 < m /\ ~ m < m
        BY <2>1, <3>2
      <4>2. f[m] = g[m - 1] + a[m].n /\ f[m - 1] = g[m - 1]
        BY <2>1, <4>1
      <4>3. QED
        BY <2>1, <4>1, <4>2
    <3>3. QED
      BY <3>1, <3>2
  <2>4. f = [k \in 0 .. m |-> f[k]]
    OBVIOUS
  <2> HIDE DEF f
  <2>5. f = [k \in 0 .. m |-> IF k = 0 THEN 0 ELSE f[k - 1] + a[k].n]
    BY <2>3, <2>4
  <2>6. QED
    BY <2>5 DEF Sums
<1>4. QED
  BY <1>2, <1>3

(* A sum of fixnums is a number.                                            *)
LEMMA TotalIsInt ==
  ASSUME NEW a, IsSeq(a), \A k \in 1 .. Len(a) : a[k].n \in Int
  PROVE  Total(a) \in Int
<1>1. Len(a) \in Nat
  BY IsSeqProperties
<1>2. PICK f : Sums(f, a, Len(a)) /\ Total(a) = f[Len(a)]
  <2> DEFINE f == CHOOSE f : Sums(f, a, Len(a))
  <2>1. Sums(f, a, Len(a))
    BY <1>1, SumsExist
  <2>2. Total(a) = f[Len(a)]
    BY DEF Total, Sums
  <2>3. QED
    BY <2>1, <2>2
<1>3. \A k \in 0 .. Len(a) : f[k] = IF k = 0 THEN 0 ELSE f[k - 1] + a[k].n
  BY <1>2 DEF Sums
<1> DEFINE D == {k \in 0 .. Len(a) : f[k] \notin Int}
<1>4. D = {}
  <2> SUFFICES ASSUME D # {} PROVE FALSE
    OBVIOUS
  <2>1. PICK m \in D : \A k \in D : m <= k
    <3>1. D \in SUBSET Nat
      BY <1>1
    <3> HIDE DEF D
    <3>2. QED
      BY <3>1, LeastMember
  <2>2. m \in 1 .. Len(a) /\ m - 1 \in 0 .. Len(a)
    BY <1>1, <1>3
  <2>3. f[m] = f[m - 1] + a[m].n
    BY <1>3, <2>2
  <2>4. m - 1 \notin D
    BY <1>1, <2>1, <2>2
  <2>5. QED
    BY <2>2, <2>3, <2>4
<1>5. QED
  BY <1>1, <1>2, <1>4

(* The primitives that calculate.                                           *)
LEMMA NumbersSound ==
  ASSUME NEW d, World(d), NEW a, IsSeq(a), \A k \in 1 .. Len(a) : IsObject(a[k], d)
  PROVE  /\ IsObject(lib_add(a), d) /\ IsObject(lib_minus(a), d)
         /\ IsObject(lib_vector_length(a, store), d)
<1>1. IsObject(Error, d) /\ IsObject(Undefined, d)
  BY AtomIsObject DEF Error, Undefined, Numbered
<1>2. DOMAIN a = 1 .. Len(a) /\ Len(a) \in Nat /\ (a = <<>> <=> Len(a) = 0)
  BY IsSeqProperties
<1>3. AllNumbers(a) => \A k \in 1 .. Len(a) : a[k].n \in Int
  BY <1>2, NumberIsInt DEF AllNumbers
<1>4. IsObject(lib_add(a), d)
  BY <1>1, <1>3, TotalIsInt, NumIsObject DEF lib_add
<1>5. IsObject(lib_minus(a), d)
  <2>1. CASE a = <<>> \/ ~ AllNumbers(a)
    BY <1>1, <2>1 DEF lib_minus
  <2>2. CASE a # <<>> /\ AllNumbers(a)
    <3>1. 1 \in 1 .. Len(a) /\ a[1].n \in Int
      BY <1>2, <1>3, <2>2
    <3> DEFINE r == Tail(a)
    <3>2. /\ IsSeq(r) /\ Len(r) = Len(a) - 1
          /\ \A i \in 1 .. Len(a) - 1 : r[i] = a[i + 1]
      BY <2>2, TailOf
    <3> HIDE DEF r
    <3>3. \A i \in 1 .. Len(r) : r[i].n \in Int
      <4>1. \A i \in 1 .. Len(r) : i + 1 \in 1 .. Len(a) /\ r[i] = a[i + 1]
        BY <1>2, <3>2
      <4>2. QED
        BY <1>3, <2>2, <4>1
    <3>4. Total(r) \in Int
      BY <3>2, <3>3, TotalIsInt
    <3>5. IsObject(Num(-a[1].n), d) /\ IsObject(Num(a[1].n - Total(r)), d)
      <4>1. -a[1].n \in Int /\ a[1].n - Total(r) \in Int
        BY <3>1, <3>4
      <4>2. QED
        BY <4>1, NumIsObject
    <3>6. QED
      BY <2>2, <3>5 DEF lib_minus, r
  <2>3. QED
    BY <2>1, <2>2
<1>6. IsObject(lib_vector_length(a, store), d)
  <2>1. CASE Len(a) = 1 /\ a[1].t = "vector"
    <3>1. IsObject(a[1], d)
      BY <2>1, 1 \in 1 .. 1
    <3>2. Length(a[1], store) \in Int
      BY <2>1, <3>1, VectorLength
    <3>3. QED
      BY <2>1, <3>2, NumIsObject DEF lib_vector_length
  <2>2. CASE ~ (Len(a) = 1 /\ a[1].t = "vector")
    BY <1>1, <2>2 DEF lib_vector_length
  <2>3. QED
    BY <2>1, <2>2
<1>7. QED
  BY <1>4, <1>5, <1>6

(* All others make something without parts.                                 *)
LEMMA AtomsSound ==
  ASSUME NEW d, NEW a, NEW st
  PROVE  \A v \in {lib_lessthan(a), lib_nullp(a), lib_pairp(a),
                   lib_symbolp(a), lib_integerp(a), lib_vectorp(a), lib_dictp(a), lib_booleanp(a),
                   lib_unspecp(a), lib_eofobjp(a), lib_procedurep(a), lib_error(a),
                   lib_set_backtrace_base(a), lib_rl_setprompt(a),
                   lib_dict_exists(a, st)} : IsObject(v, d)
<1> DEFINE A == {"boolean", "unspecified", "error", "undefined"}
<1>1. /\ \A n : Bool(n).t \in A
      /\ Error.t \in A /\ Undefined.t \in A /\ Unspec.t \in A
  BY DEF Bool, Error, Undefined, Unspec
<1> HIDE DEF A
<1>2. lib_lessthan(a).t \in A
  BY <1>1 DEF lib_lessthan
<1>3. \A types : IsOfType(a, types).t \in A
  BY <1>1 DEF IsOfType
<1>4. /\ lib_nullp(a).t \in A /\ lib_pairp(a).t \in A /\ lib_symbolp(a).t \in A
      /\ lib_integerp(a).t \in A /\ lib_vectorp(a).t \in A /\ lib_dictp(a).t \in A
      /\ lib_booleanp(a).t \in A /\ lib_unspecp(a).t \in A /\ lib_eofobjp(a).t \in A
      /\ lib_procedurep(a).t \in A
  BY <1>3 DEF lib_nullp, lib_pairp, lib_symbolp, lib_integerp, lib_vectorp, lib_dictp,
              lib_booleanp, lib_unspecp, lib_eofobjp, lib_procedurep
<1>5. lib_error(a).t \in A /\ lib_set_backtrace_base(a).t \in A /\ lib_rl_setprompt(a).t \in A
  BY <1>1 DEF lib_error, lib_set_backtrace_base, lib_rl_setprompt
<1>6. lib_dict_exists(a, st).t \in A
  BY <1>1 DEF lib_dict_exists, Lookup
<1>7. \A v : v.t \in A => IsObject(v, d)
  BY AtomIsObject DEF A, Numbered
<1>8. QED
  BY <1>2, <1>4, <1>5, <1>6, <1>7

\* The primitives that write to a vector or a hash table or make one.
Changing == {"make-vector", "list->vector", "vector-set!", "make-hash", "hash-set!", "hash-delete!"}

LEMMA LooksSound ==
  ASSUME NEW d, World(d), NEW a, IsSeq(a), \A k \in 1 .. Len(a) : IsObject(a[k], d),
         NEW f \in LibraryProcs \ Changing
  PROVE  IsObject(Looks(f, a, store), d)
<1>1. \A v \in {lib_add(a), lib_minus(a), lib_lessthan(a), lib_nullp(a), lib_pairp(a),
                lib_symbolp(a), lib_integerp(a), lib_vectorp(a), lib_dictp(a), lib_booleanp(a),
                lib_unspecp(a), lib_eofobjp(a), lib_procedurep(a), lib_error(a),
                lib_set_backtrace_base(a), lib_rl_setprompt(a), lib_vector_length(a, store),
                lib_dict_exists(a, store), lib_cons(a), lib_car(a), lib_cdr(a),
                lib_vector2list(a, store), lib_vector_ref(a, store), lib_dict_ref(a, store),
                lib_dict_ref_default(a, store)} : IsObject(v, d)
  BY AtomsSound, NumbersSound, PairsSound, Vector2ListSound, ElementsSound
<1>2. Looks(f, a, store) \in
               {lib_add(a), lib_minus(a), lib_lessthan(a), lib_nullp(a), lib_pairp(a),
                lib_symbolp(a), lib_integerp(a), lib_vectorp(a), lib_dictp(a), lib_booleanp(a),
                lib_unspecp(a), lib_eofobjp(a), lib_procedurep(a), lib_error(a),
                lib_set_backtrace_base(a), lib_rl_setprompt(a), lib_vector_length(a, store),
                lib_dict_exists(a, store), lib_cons(a), lib_car(a), lib_cdr(a),
                lib_vector2list(a, store), lib_vector_ref(a, store), lib_dict_ref(a, store),
                lib_dict_ref_default(a, store)}
  BY DEF Looks, LibraryProcs, Changing
<1>3. QED
  BY <1>1, <1>2
(* The vectors and hash tables stay as they are, or there is one more.      *)
LEMMA KeepsSound ==
  ASSUME NEW d, World(d), NEW v, IsObject(v, d), store' = Keeps(store, v).store,
         UNCHANGED <<envs, input>>
  PROVE  \E e : Grows(d, e) /\ World(e)' /\ IsObject(Keeps(store, v).val, e)
<1>1. store' = store /\ Keeps(store, v).val = v
  BY DEF Keeps
<1>2. Grows(d, d) /\ World(d)'
  BY <1>1, WorldKept DEF Grows
<1>3. QED
  BY <1>1, <1>2

LEMMA KeepsError ==
  ASSUME NEW d, World(d), NEW v \in {Error, Undefined}, NEW r, r = Keeps(store, v),
         store' = r.store, UNCHANGED <<envs, input>>
  PROVE  \E e : Grows(d, e) /\ World(e)' /\ IsObject(r.val, e)
<1>1. IsObject(v, d)
  BY AtomIsObject DEF Error, Undefined, Numbered
<1>2. QED
  BY <1>1, KeepsSound

LEMMA MakesSound ==
  ASSUME NEW d, World(d), NEW type \in {"vector", "dict"},
         NEW v, v.t = type, v.id = Len(store) + 1,
         NEW c, \A x \in DOMAIN c : IsObject(c[x], d),
         type = "vector" => \E n \in Nat : DOMAIN c = 0 .. n - 1,
         NEW r, r = Makes(store, v, c), store' = r.store, UNCHANGED <<envs, input>>
  PROVE  \E e : Grows(d, e) /\ World(e)' /\ IsObject(r.val, e)
<1>1. store' = Append(store, c) /\ r.val = v
  BY DEF Makes
<1>2. PICK e : Grows(d, e) /\ World(e)' /\ Len(store) + 1 \in e[type]
  BY <1>1, StoreAppended
<1>3. IsObject(v, e)
  BY <1>2, NumberedIsObject DEF Numbered
<1>4. QED
  BY <1>1, <1>2, <1>3

LEMMA MakeVectorSound ==
  ASSUME NEW d, World(d), NEW a, IsSeq(a), \A k \in 1 .. Len(a) : IsObject(a[k], d),
         NEW r, r = lib_make_vector(a, store), store' = r.store, UNCHANGED <<envs, input>>
  PROVE  \E e : Grows(d, e) /\ World(e)' /\ IsObject(r.val, e)
<1> DEFINE n == a[1].n
           x == IF Len(a) = 2 THEN a[2] ELSE Unspec
           c == [i \in 0 .. n - 1 |-> x]
           v == Vector(Len(store) + 1)
<1>1. CASE r = Keeps(store, Error) \/ r = Keeps(store, Undefined)
  BY <1>1, KeepsError
<1>2. CASE Len(a) \in 1 .. 2 /\ a[1].t = "fixnum" /\ ~ n < 0 /\ r = Makes(store, v, c)
  <2>1. n \in Nat
    <3>1. 1 \in 1 .. Len(a)
      BY <1>2
    <3>2. n \in Int
      BY <1>2, <3>1, NumberIsInt
    <3>3. QED
      BY <1>2, <3>2
  <2>2. IsObject(x, d)
    <3>1. IsObject(Unspec, d)
      BY AtomIsObject DEF Unspec, Numbered
    <3>2. QED
      BY <3>1, 2 \in 1 .. 2
  <2>3. DOMAIN c = 0 .. n - 1 /\ \A i \in DOMAIN c : c[i] = x
    OBVIOUS
  <2>4. v.t = "vector" /\ v.id = Len(store) + 1
    BY DEF Vector
  <2>5. r = Makes(store, v, c)
    BY <1>2
  <2> HIDE DEF c, v, x, n
  <2>6. \A i \in DOMAIN c : IsObject(c[i], d)
    BY <2>2, <2>3
  <2>7. QED
    BY <2>1, <2>3, <2>4, <2>5, <2>6, MakesSound
<1>3. QED
  BY <1>1, <1>2 DEF lib_make_vector

LEMMA List2VectorSound ==
  ASSUME NEW d, World(d), NEW a, IsSeq(a), \A k \in 1 .. Len(a) : IsObject(a[k], d),
         NEW r, r = lib_list2vector(a, store), store' = r.store, UNCHANGED <<envs, input>>
  PROVE  \E e : Grows(d, e) /\ World(e)' /\ IsObject(r.val, e)
<1> DEFINE n == Len(Items(a[1]))
           c == [i \in 0 .. n - 1 |-> a[1].items[i + 1]]
           v == Vector(Len(store) + 1)
<1>1. CASE r = Keeps(store, Error)
  BY <1>1, KeepsError
<1>2. CASE Len(a) = 1 /\ IsList(a[1]) /\ r = Makes(store, v, c)
  <2>1. IsObject(a[1], d)
    BY <1>2, 1 \in 1 .. 1
  <2>2. n \in Nat /\ \A k \in 1 .. n : IsObject(a[1].items[k], d)
    <3>1. CASE a[1].t = "pair"
      BY <2>1, <3>1, PartsOfPair DEF Items
    <3>2. CASE a[1].t # "pair"
      <4>1. n = 0
        BY <3>2, EmptySeq DEF Items
      <4>2. QED
        BY <4>1
    <3>3. QED
      BY <3>1, <3>2
  <2>3. DOMAIN c = 0 .. n - 1 /\ \A i \in 0 .. n - 1 : c[i] = a[1].items[i + 1]
    OBVIOUS
  <2>4. v.t = "vector" /\ v.id = Len(store) + 1
    BY DEF Vector
  <2>5. r = Makes(store, v, c)
    BY <1>2
  <2> HIDE DEF c, v, n
  <2>6. \A i \in DOMAIN c : IsObject(c[i], d)
    <3>1. \A i \in 0 .. n - 1 : i + 1 \in 1 .. n
      BY <2>2
    <3>2. QED
      BY <2>2, <2>3, <3>1
  <2>7. QED
    BY <2>2, <2>3, <2>4, <2>5, <2>6, MakesSound
<1>3. QED
  BY <1>1, <1>2 DEF lib_list2vector

LEMMA MakeDictSound ==
  ASSUME NEW d, World(d), NEW a, NEW r, r = lib_make_dict(a, store),
         store' = r.store, UNCHANGED <<envs, input>>
  PROVE  \E e : Grows(d, e) /\ World(e)' /\ IsObject(r.val, e)
<1> DEFINE v == HashTable(Len(store) + 1)
<1>1. CASE r = Keeps(store, Error)
  BY <1>1, KeepsError
<1>2. CASE r = Makes(store, v, <<>>)
  <2>1. v.t = "dict" /\ v.id = Len(store) + 1
    BY DEF HashTable
  <2>2. DOMAIN <<>> = {}
    OBVIOUS
  <2> HIDE DEF v
  <2>3. \A x \in DOMAIN <<>> : IsObject(<<>>[x], d)
    BY <2>2
  <2> DEFINE c == <<>>
  <2>4. r = Makes(store, v, c) /\ \A x \in DOMAIN c : IsObject(c[x], d)
    BY <1>2, <2>3
  <2> HIDE DEF c
  <2>5. QED
    BY <2>1, <2>4, MakesSound
<1>3. QED
  BY <1>1, <1>2 DEF lib_make_dict

(* One has other contents.                                                  *)
LEMMA ChangesSound ==
  ASSUME NEW d, World(d), NEW i \in 1 .. Len(store),
         NEW c, \A x \in DOMAIN c : IsObject(c[x], d),
         i \in d["vector"] => DOMAIN c = DOMAIN store[i],
         NEW r, r.val = Unspec, r.store = [store EXCEPT ![i] = c],
         store' = r.store, UNCHANGED <<envs, input>>
  PROVE  \E e : Grows(d, e) /\ World(e)' /\ IsObject(r.val, e)
<1>1. i \in d["vector"] => \E n \in Nat : DOMAIN c = 0 .. n - 1
  BY DEF World, StoreSound
<1>2. World(d)'
  BY <1>1, StoreUpdated
<1>3. Grows(d, d) /\ IsObject(Unspec, d)
  BY AtomIsObject DEF Grows, Unspec, Numbered
<1>4. QED
  BY <1>2, <1>3

LEMMA VectorSetSound ==
  ASSUME NEW d, World(d), NEW a, IsSeq(a), \A k \in 1 .. Len(a) : IsObject(a[k], d),
         NEW r, r = lib_vector_set(a, store), store' = r.store, UNCHANGED <<envs, input>>
  PROVE  \E e : Grows(d, e) /\ World(e)' /\ IsObject(r.val, e)
<1> DEFINE i == a[1].id
           b == store[i]
           c == [b EXCEPT ![a[2].n] = a[3]]
<1>1. CASE r = Keeps(store, Error) \/ r = Keeps(store, Undefined)
  BY <1>1, KeepsError
<1>2. CASE /\ Len(a) = 3 /\ InBounds(a[1], a[2], store)
           /\ r = [val |-> Unspec, store |-> [store EXCEPT ![i][a[2].n] = a[3]]]
  <2>1. IsObject(a[1], d) /\ IsObject(a[3], d)
    BY <1>2, 1 \in 1 .. 3, 3 \in 1 .. 3
  <2>2. i \in 1 .. Len(store)
    BY <1>2, <2>1, VectorLength DEF InBounds
  <2>3. r.val = Unspec /\ r.store = [store EXCEPT ![i] = c]
    BY <1>2
  <2>4. DOMAIN c = DOMAIN b /\ \A x \in DOMAIN c : c[x] = a[3] \/ c[x] = b[x]
    OBVIOUS
  <2>5. \A x \in DOMAIN b : IsObject(b[x], d)
    BY <2>2 DEF World, StoreSound
  <2> HIDE DEF c
  <2>6. \A x \in DOMAIN c : IsObject(c[x], d)
    BY <2>1, <2>4, <2>5
  <2> HIDE DEF i
  <2>7. QED
    BY <2>2, <2>3, <2>4, <2>6, ChangesSound
<1>3. QED
  BY <1>1, <1>2 DEF lib_vector_set

LEMMA DictSound ==
  ASSUME NEW d, World(d), NEW a, IsSeq(a), \A k \in 1 .. Len(a) : IsObject(a[k], d),
         NEW r, r = lib_dict_set(a, store) \/ r = lib_dict_delete(a, store),
         store' = r.store, UNCHANGED <<envs, input>>
  PROVE  \E e : Grows(d, e) /\ World(e)' /\ IsObject(r.val, e)
<1> DEFINE i == a[1].id
           b == store[i]
<1>1. ASSUME NEW n \in {2, 3}, NEW c, r = Update(a, n, store, c),
             (\A x \in DOMAIN b : IsObject(b[x], d)) /\ Len(a) = n => \A x \in DOMAIN c : IsObject(c[x], d)
      PROVE  \E e : Grows(d, e) /\ World(e)' /\ IsObject(r.val, e)
  <2>1. Error # Unspec /\ Undefined # Unspec
    BY DEF Error, Undefined, Unspec
  <2>2. CASE r = Keeps(store, Error) \/ r = Keeps(store, Undefined)
    BY <2>2, KeepsError
  <2>3. CASE Len(a) = n /\ a[1].t = "dict" /\ r = [val |-> Unspec, store |-> [store EXCEPT ![i] = c]]
    <3>1. IsObject(a[1], d)
      BY <2>3, 1 \in 1 .. 2, 1 \in 1 .. 3
    <3>2. i \in d["dict"] /\ i \in 1 .. Len(store) /\ i \notin d["vector"]
      BY <2>3, <3>1, NumberOf DEF Numbered, World, StoreSound
    <3>3. \A x \in DOMAIN c : IsObject(c[x], d)
      BY <1>1, <2>3, <3>2 DEF World, StoreSound
    <3>4. r.val = Unspec /\ r.store = [store EXCEPT ![i] = c]
      BY <2>3
    <3> HIDE DEF i
    <3>5. QED
      BY <3>2, <3>3, <3>4, ChangesSound
  <2>4. QED
    BY <1>1, <2>1, <2>2, <2>3 DEF Update, Lookup
<1>2. CASE r = lib_dict_set(a, store)
  <2> DEFINE c == With(b, a[2].name, a[3])
  <2>1. \A x \in DOMAIN c : c[x] = a[3] \/ (x \in DOMAIN b /\ c[x] = b[x])
    BY DEF With
  <2>2. Len(a) = 3 => IsObject(a[3], d)
    BY 3 \in 1 .. 3
  <2>3. r = Update(a, 3, store, c)
    BY <1>2 DEF lib_dict_set
  <2> HIDE DEF c
  <2>4. QED
    BY <1>1, <2>1, <2>2, <2>3
<1>3. CASE r = lib_dict_delete(a, store)
  <2> DEFINE c == [x \in DOMAIN b \ {a[2].name} |-> b[x]]
  <2>1. \A x \in DOMAIN c : x \in DOMAIN b /\ c[x] = b[x]
    OBVIOUS
  <2>2. r = Update(a, 2, store, c)
    BY <1>3 DEF lib_dict_delete
  <2> HIDE DEF c
  <2>3. QED
    BY <1>1, <2>1, <2>2
<1>4. QED
  BY <1>2, <1>3
(* The primitives that look at and change nothing but objects.              *)
LEMMA ApplyLibraryRoots ==
  ASSUME IInv, NEW d, World(d), Machine(d), ApplyLibrary
  PROVE  RInv'
<1> DEFINE f == Callee.func
           a == LibArgs
           r == Library(f, a, store)
<1>1. /\ pc = "apply" /\ f \in LibraryProcs /\ Result(r.val) /\ store' = r.store
      /\ UNCHANGED <<envs, input>>
  BY DEF ApplyLibrary, IsPrimitive, Applies
<1>2. IsSeq(a) /\ \A k \in 1 .. Len(a) : IsObject(a[k], d)
  BY <1>1, LibArgsSound
<1>3. \/ r = lib_make_vector(a, store) \/ r = lib_list2vector(a, store)
      \/ r = lib_vector_set(a, store) \/ r = lib_make_dict(a, store)
      \/ r = lib_dict_set(a, store) \/ r = lib_dict_delete(a, store)
      \/ f \in LibraryProcs \ Changing /\ r = Keeps(store, Looks(f, a, store))
  BY <1>1 DEF Library, Changing
<1> HIDE DEF f, a, r
<1>4. PICK e : Grows(d, e) /\ World(e)' /\ IsObject(r.val, e)
  <2>1. CASE f \in LibraryProcs \ Changing /\ r = Keeps(store, Looks(f, a, store))
    <3> DEFINE v == Looks(f, a, store)
    <3>1. IsObject(v, d)
      BY <1>2, <2>1, LooksSound
    <3>2. store' = Keeps(store, v).store /\ r.val = Keeps(store, v).val
      BY <1>1, <2>1
    <3> HIDE DEF v
    <3>3. QED
      BY <1>1, <3>1, <3>2, KeepsSound
  <2>2. CASE r = lib_make_vector(a, store)
    BY <1>1, <1>2, <2>2, MakeVectorSound
  <2>3. CASE r = lib_list2vector(a, store)
    BY <1>1, <1>2, <2>3, List2VectorSound
  <2>4. CASE r = lib_vector_set(a, store)
    BY <1>1, <1>2, <2>4, VectorSetSound
  <2>5. CASE r = lib_make_dict(a, store)
    BY <1>1, <2>5, MakeDictSound
  <2>6. CASE r = lib_dict_set(a, store) \/ r = lib_dict_delete(a, store)
    BY <1>1, <1>2, <2>6, DictSound
  <2>7. QED
    BY <1>3, <2>1, <2>2, <2>3, <2>4, <2>5, <2>6
<1>5. Machine(e)'
  BY <1>1, <1>4, MachineEnds
<1>6. QED
  BY <1>4, <1>5 DEF RInv

LEMMA PrintRoots ==
  ASSUME IInv, NEW d, World(d), Machine(d), lib_display \/ lib_newline
  PROVE  RInv'
<1>1. UNCHANGED <<envs, store, input>> /\ (Fatal \/ Ret(Unspec))
  BY DEF lib_display, lib_newline
<1>2. IsObject(Unspec, d)
  BY AtomIsObject DEF Unspec, Numbered
<1>3. QED
  BY <1>1, <1>2, EndsHere

(* What bison makes of a text are objects.                                  *)
LEMMA TextIsObject ==
  ASSUME NEW v \in Expressions, NEW d
  PROVE  IsObject(v, d)
<1>1. \A w \in Expressions :
        /\ w.t \in {"pair", "symbol", "fixnum", "string", "boolean", "nil"}
        /\ w.t = "pair" => /\ w.items \in Seq(Expressions) \ {<<>>}
                           /\ w.end \in Expressions /\ w.end.t # "pair"
        /\ w.t = "fixnum" => w.n \in Int
  BY TextAssumption
<1>2. IsClosed(Expressions, d)
  BY <1>1 DEF IsClosed, Numbered
<1>3. QED
  BY <1>2 DEF IsObject

LEMMA lib_readRoots ==
  ASSUME IInv, NEW d, World(d), Machine(d), lib_read
  PROVE  RInv'
<1> DEFINE S == Expressions \cup {Error}
<1>1. UNCHANGED <<envs, store>>
  BY DEF lib_read
<1>2. input \in Seq(Seq(S))
  BY DEF World, InputSound
<1>3. IsObject(EofObj, d) /\ \A v \in S : IsObject(v, d)
  <2>1. IsObject(EofObj, d) /\ IsObject(Error, d)
    BY AtomIsObject DEF EofObj, Error, Numbered
  <2>2. QED
    BY <2>1, TextIsObject
<1>4. InputSound' /\ (Fatal \/ \E v : IsObject(v, d) /\ (Ret(v) \/ Result(v)))
  <2>1. CASE Fatal /\ UNCHANGED input
    BY <1>2, <2>1 DEF InputSound
  <2>2. CASE Ret(EofObj) /\ input' = <<>>
    <3>1. <<>> \in Seq(Seq(S))
      OBVIOUS
    <3>2. QED
      BY <1>3, <2>2, <3>1 DEF InputSound
  <2>3. ASSUME NEW k \in DOMAIN input, input[k] # <<>>, Result(Head(input[k])),
               input' = SubSeq(input, k + 1, Len(input))
        PROVE  InputSound' /\ \E v : IsObject(v, d) /\ Result(v)
    <3>1. Len(input) \in Nat /\ k \in 1 .. Len(input) /\ input[k] \in Seq(S)
      BY <1>2, <2>3
    <3>2. Head(input[k]) \in S
      BY <2>3, <3>1
    <3>3. input' \in Seq(Seq(S))
      <4> DEFINE T == Seq(S)
      <4>1. \A i \in k + 1 .. Len(input) : input[i] \in T
        BY <1>2, <3>1
      <4>2. k + 1 \in Int /\ Len(input) \in Int
        BY <3>1
      <4> HIDE DEF T
      <4>3. SubSeq(input, k + 1, Len(input)) \in Seq(T)
        BY <4>1, <4>2, SubSeqProperties
      <4>4. QED
        BY <2>3, <4>3 DEF T
    <3>4. QED
      BY <1>3, <2>3, <3>2, <3>3 DEF InputSound
  <2>4. QED
    BY <2>1, <2>2, <2>3 DEF lib_read
<1>5. World(d)'
  BY <1>1, <1>4 DEF World, EnvsSound, StoreSound
<1>6. Machine(d)'
  <2>1. Grows(d, d)
    BY DEF Grows
  <2>2. QED
    BY <1>4, <2>1, MachineEnds
<1>7. QED
  BY <1>5, <1>6 DEF RInv

(* The environment of the first frame.                                      *)
LEMMA FirstEnviron ==
  ASSUME IInv, NEW d, World(d), Machine(d), pc = "apply"
  PROVE  IsObject(stack[2], d) /\ stack[2].id \in 0 .. Len(envs)
<1>1. 2 \in 1 .. Len(stack)
  <2>1. 0 \in 0 .. Len(acts) /\ Below(acts, 0) <= Top(acts)
    BY FramesUnderTop DEF IInv
  <2>2. QED
    BY <2>1, StateFacts DEF Below
<1>2. IsObject(stack[2], d) /\ stack[2].t = "environ"
  BY <1>1 DEF Machine
<1>3. stack[2].id \in d["environ"]
  BY <1>2, NumberOf DEF Numbered
<1>4. QED
  BY <1>2, <1>3 DEF World, EnvsSound

LEMMA lib_report_environRoots ==
  ASSUME IInv, NEW d, World(d), Machine(d), lib_report_environ
  PROVE  RInv'
<1>1. pc = "apply" /\ UNCHANGED <<envs, store, input>> /\ (Fatal \/ Ret(stack[2]))
  BY DEF lib_report_environ, Applying, IsPrimitive, Applies, world
<1>2. IsObject(stack[2], d)
  BY <1>1, FirstEnviron
<1>3. QED
  BY <1>1, <1>2, EndsHere

LEMMA lib_null_environRoots ==
  ASSUME IInv, NEW d, World(d), Machine(d), lib_null_environ
  PROVE  RInv'
<1> DEFINE t == <<>>
           v == Environ(Len(envs) + 1)
<1>1. pc = "apply" /\ UNCHANGED <<store, input>>
  BY DEF lib_null_environ, Applying, IsPrimitive, Applies
<1>2. CASE Fatal /\ UNCHANGED envs
  BY <1>1, <1>2, EndsHere
<1>3. CASE /\ envs' = Append(envs, [outer |-> stack[2].id, table |-> t])
           /\ Ret(v)
  <2>1. stack[2].id \in 0 .. Len(envs)
    BY <1>1, FirstEnviron
  <2>2. DOMAIN t = {}
    OBVIOUS
  <2> HIDE DEF t
  <2>3. PICK e : Grows(d, e) /\ World(e)' /\ Len(envs) + 1 \in e["environ"]
    BY <1>1, <1>3, <2>1, <2>2, NewEnvSound
  <2>4. v.t = "environ" /\ v.id = Len(envs) + 1
    BY DEF Environ
  <2> HIDE DEF v
  <2>5. IsObject(v, e)
    BY <2>3, <2>4, NumberedIsObject DEF Numbered
  <2>6. Machine(e)'
    BY <1>3, <2>3, <2>5, MachineEnds
  <2>7. QED
    BY <2>3, <2>6 DEF RInv
<1>4. QED
  BY <1>2, <1>3 DEF lib_null_environ
(* The primitives that evaluate.                                            *)

(* Where a primitive is called.                                             *)
LEMMA AtPrimitive ==
  ASSUME IInv, NEW d, World(d), Machine(d), pc = "apply"
  PROVE  /\ IsStack(stack, d) /\ Len(stack) \in Nat /\ Len(stack) >= 6 + 3
         /\ Top(acts) \in Nat /\ Top(acts) + 3 <= Len(stack)
         /\ locals.orig + 1 \in 1 .. Len(stack) /\ stack[locals.orig + 1] = locals.proc
<1>1. /\ IsSeq(stack) /\ Len(stack) \in Nat /\ Top(acts) \in Nat /\ locals.orig \in Nat
      /\ locals.argc \in Nat /\ acts # <<>>
      /\ Top(acts) + 3 <= locals.orig /\ locals.orig + 1 <= Len(stack)
      /\ stack[locals.orig + 1] = locals.proc
  BY AtApplication
<1>2. Top(acts) >= 5
  <2>1. 0 \in 0 .. Len(acts) /\ Below(acts, 0) <= Top(acts)
    BY FramesUnderTop DEF IInv
  <2>2. QED
    BY <1>1, <2>1 DEF Below
<1>3. IsStack(stack, d)
  BY <1>1 DEF IsStack, Machine, Holds
<1>4. QED
  BY <1>1, <1>2, <1>3

LEMMA lib_call_ecRoots ==
  ASSUME IInv, NEW d, World(d), Machine(d), lib_call_ec
  PROVE  RInv'
<1> DEFINE k == Econt(Len(jmp) + 1)
           s == <<LibArgs[1], k>>
           x == List(s, Nil)
           held == <<k>>
<1>1. pc = "apply" /\ UNCHANGED <<envs, store, input>>
  BY DEF lib_call_ec, Applying, IsPrimitive, Applies
<1>2. CASE Fatal
  BY <1>1, <1>2, EndsHere
<1>3. CASE Len(LibArgs) = 1 /\ Call(CallEcName, Len(stack), held, Frame(stack, x))
  <2>1. IsObject(LibArgs[1], d)
    BY <1>1, <1>3, LibArgsSound, 1 \in 1 .. 1
  <2>2. IsObject(k, d) /\ IsObject(Nil, d)
    BY AtomIsObject DEF Econt, Nil, Numbered
  <2>3. IsSeq(s) /\ Len(s) = 2 /\ s[1] = LibArgs[1] /\ s[2] = k
    BY Tuples
  <2> HIDE DEF s, k
  <2>4. \A i \in 1 .. Len(s) : IsObject(s[i], d)
    <3>1. \A i \in 1 .. 2 : i = 1 \/ i = 2
      OBVIOUS
    <3>2. QED
      BY <2>1, <2>2, <2>3, <3>1
  <2>5. IsObject(x, d)
    BY <2>2, <2>3, <2>4, ListIsObject
  <2>6. \A u, l : Holds(CallEcName, Len(stack), u, l)
    BY DEF Holds, CallEcName
  <2>7. IsStack(stack, d) /\ Len(stack) >= 6
    <3>1. Len(stack) \in Nat /\ Len(stack) >= 6 + 3 /\ IsStack(stack, d)
      BY <1>1, AtPrimitive
    <3>2. QED
      BY <3>1
  <2> HIDE DEF x, held
  <2>8. QED
    BY <1>1, <1>3, <2>5, <2>6, <2>7, CallsRoots
<1>4. QED
  BY <1>2, <1>3 DEF lib_call_ec

LEMMA CallEcDoneRoots ==
  ASSUME IInv, NEW d, World(d), Machine(d), CallEcDone
  PROVE  RInv'
<1>1. Ret(val) /\ UNCHANGED <<envs, store, input>> /\ IsObject(val, d)
  BY DEF CallEcDone, Machine
<1>2. QED
  BY <1>1, EndsHere

(* The loop of execute_expr_list holds what is left of the expressions in   *)
(* the slot of its frame, which it writes to before each of them.           *)
LEMMA RunExpressionsRoots ==
  ASSUME IInv, NEW d, World(d), Machine(d), UNCHANGED <<envs, store, input>>,
         NEW p, IsStack(p, d), Top(acts) + 3 <= Len(p), \A i \in 1 .. Top(acts) : p[i] = stack[i],
         \/ locals.proc = Null
         \/ locals.orig + 1 \in 1 .. Len(p) - 3 /\ p[locals.orig + 1] = locals.proc,
         NEW expr, IsObject(expr, d), expr.t = "pair", expr.end = Nil, RunExpressions(p, expr)
  PROVE  RInv'
<1> DEFINE q == SetSlot(p, expr)
           s == Frame(q, Car(expr))
           held == <<expr>>
           l == [locals EXCEPT !.held = held]
           h == Len(p)
<1>1. h \in Nat /\ Top(acts) \in Nat /\ h >= 3 /\ IsSeq(p)
  <2>1. h \in Nat /\ IsSeq(p)
    BY IsSeqProperties DEF IsStack
  <2>2. QED
    BY <2>1, StateFacts
<1>2. IsStack(q, d) /\ Len(q) = h /\ q[h - 2] = expr
  BY <1>1, SlotHolds
<1>3. \A i \in 1 .. h - 3 : q[i] = p[i]
  BY <1>1, SlotWritten
<1>4. Call("load", h, held, s)
  BY DEF RunExpressions
<1>5. IsObject(Car(expr), d)
  BY CarAndCdr
<1> HIDE DEF q
<1>6. IsStack(s, d) /\ Len(s) = h + 3 /\ \A i \in 1 .. h : s[i] = q[i]
  BY <1>1, <1>2, <1>5, FrameHolds
<1>7. l.held = held /\ l.proc = locals.proc /\ l.orig = locals.orig
  <2>1. IsLocals(locals)
    BY StateFacts
  <2>2. QED
    BY <2>1 DEF IsLocals
<1>8. held = <<held[1]>> /\ held[1] = expr
  OBVIOUS
<1> HIDE DEF s, held, l, h
<1>9. Has(s, stack, Top(acts))
  <2>1. \A i \in 1 .. Top(acts) : i \in 1 .. h - 3 /\ i \in 1 .. h
    BY <1>1 DEF h
  <2>2. \A i \in 1 .. Top(acts) : s[i] = stack[i]
    BY <1>3, <1>6, <2>1
  <2>3. IsSeq(s) /\ Top(acts) <= Len(s)
    BY <1>1, <1>6 DEF IsStack, h
  <2>4. QED
    BY <2>2, <2>3 DEF Has
<1>10. Holds("load", h, s, l)
  <2>1. h \in 1 .. h /\ h - 2 \in 1 .. h /\ \A i \in 1 .. h - 3 : i \in 1 .. h
    BY <1>1
  <2>2. s[h].t = "environ" /\ s[h - 2] = expr
    BY <1>2, <1>6, <2>1 DEF IsStack
  <2>3. l.proc = Null \/ (l.orig + 1 \in 1 .. h - 3 /\ s[l.orig + 1] = l.proc)
    BY <1>3, <1>6, <1>7, <2>1 DEF h
  <2>4. Suffix(l.held[1], s[h - 2]) /\ l.held = <<l.held[1]>> /\ l.held[1] = expr
    BY <1>7, <1>8, <2>2 DEF Suffix
  <2>5. QED
    BY <2>2, <2>3, <2>4 DEF Holds
<1>11. Machine(d)'
  BY <1>4, <1>6, <1>9, <1>10, MachineCalls DEF l
<1>12. QED
  BY <1>11, StepHere

LEMMA lib_loadRoots ==
  ASSUME IInv, NEW d, World(d), Machine(d), lib_load
  PROVE  RInv'
<1> DEFINE name == LibArgs[1].s
           s == Files[name]
           expr == List(s, Nil)
           p == Frame(stack, Null)
<1>1. pc = "apply" /\ UNCHANGED <<envs, store, input>>
  BY DEF lib_load, Applying, IsPrimitive, Applies, world
<1>2. CASE Fatal \/ Result(Undefined)
  <2>1. IsObject(Undefined, d)
    BY AtomIsObject DEF Undefined, Numbered
  <2>2. QED
    BY <1>1, <1>2, <2>1, EndsHere
<1>3. CASE name \in DOMAIN Files /\ RunExpressions(p, expr)
  <2>1. s \in Seq(Expressions) /\ s # <<>>
    BY <1>3, TextAssumption
  <2>2. IsSeq(s) /\ \A k \in 1 .. Len(s) : IsObject(s[k], d)
    <3>1. \A k \in 1 .. Len(s) : s[k] \in Expressions
      BY <2>1, ElementOfSeq
    <3>2. QED
      BY <2>1, <3>1, SeqIsSeq, TextIsObject
  <2>3. expr.t = "pair" /\ expr.end = Nil /\ IsObject(expr, d)
    <3>1. IsObject(Nil, d) /\ Nil.t # "pair"
      BY AtomIsObject DEF Nil, Numbered
    <3>2. expr = [t |-> "pair", items |-> s, end |-> Nil]
      BY <2>1, <3>1 DEF List
    <3>3. IsObject(expr, d)
      BY <2>2, <3>1, ListIsObject
    <3>4. QED
      BY <3>2, <3>3
  <2> HIDE DEF s, expr
  <2>4. /\ IsStack(stack, d) /\ Len(stack) \in Nat /\ Len(stack) >= 1
        /\ Top(acts) \in Nat /\ Top(acts) + 3 <= Len(stack)
        /\ locals.orig + 1 \in 1 .. Len(stack) /\ stack[locals.orig + 1] = locals.proc
    <3>1. /\ IsStack(stack, d) /\ Len(stack) \in Nat /\ Len(stack) >= 6 + 3
          /\ Top(acts) \in Nat /\ Top(acts) + 3 <= Len(stack)
          /\ locals.orig + 1 \in 1 .. Len(stack) /\ stack[locals.orig + 1] = locals.proc
      BY <1>1, AtPrimitive
    <3>2. QED
      BY <3>1
  <2>5. IsObject(Null, d)
    BY AtomIsObject DEF Null, Numbered
  <2>6. /\ IsStack(p, d) /\ Len(p) = Len(stack) + 3
        /\ \A i \in 1 .. Len(stack) : p[i] = stack[i]
    BY <2>4, <2>5, FrameHolds
  <2> HIDE DEF p
  <2>7. /\ Top(acts) + 3 <= Len(p) /\ \A i \in 1 .. Top(acts) : p[i] = stack[i]
        /\ locals.orig + 1 \in 1 .. Len(p) - 3 /\ p[locals.orig + 1] = locals.proc
    BY <2>4, <2>6
  <2>8. QED
    BY <1>1, <1>3, <2>3, <2>6, <2>7, RunExpressionsRoots
<1>4. QED
  BY <1>2, <1>3 DEF lib_load

LEMMA LoadNextRoots ==
  ASSUME IInv, NEW d, World(d), Machine(d), LoadNext
  PROVE  RInv'
<1> DEFINE iter == locals.held[1]
           expr == Cdr(iter)
<1>1. pc = "load" /\ UNCHANGED <<envs, store, input>>
  BY DEF LoadNext, world
<1>2. /\ stack[Len(stack)].t = "environ" /\ Suffix(iter, stack[Len(stack) - 2])
      /\ \/ locals.proc = Null
         \/ locals.orig + 1 \in 1 .. Len(stack) - 3 /\ stack[locals.orig + 1] = locals.proc
      /\ iter.t = "pair" /\ iter.end = Nil
  BY <1>1 DEF Machine, Holds
<1>3. IsSeq(stack) /\ Len(stack) \in Nat /\ Top(acts) \in Nat /\ Top(acts) + 3 <= Len(stack)
  <2>1. Placed("load", Top(acts), Len(stack), stack, locals)
    BY <1>1 DEF IInv
  <2>2. Len(stack) >= Top(acts) + 3
    BY <2>1 DEF Placed
  <2>3. QED
    BY <2>2, StateFacts
<1>4. IsStack(stack, d)
  BY <1>2, <1>3 DEF IsStack, Machine
<1>5. IsObject(iter, d)
  <2>1. Len(stack) - 2 \in 1 .. Len(stack)
    BY <1>3
  <2>2. IsObject(stack[Len(stack) - 2], d)
    BY <2>1 DEF Machine
  <2>3. QED
    BY <1>2, <2>2, SuffixIsPiece, PieceIsObject
<1>6. CASE expr # Nil /\ RunExpressions(stack, expr)
  <2>1. IsObject(expr, d) /\ expr.t = "pair" /\ expr.end = Nil
    <3>1. IsObject(expr, d) /\ (expr.t = "pair" => expr.end = iter.end) /\ (expr.t # "pair" => expr = iter.end)
      BY <1>2, <1>5, CarAndCdr
    <3>2. QED
      BY <1>2, <1>6, <3>1
  <2> HIDE DEF expr
  <2>2. \A i \in 1 .. Top(acts) : stack[i] = stack[i]
    OBVIOUS
  <2>3. QED
    BY <1>1, <1>2, <1>3, <1>4, <1>6, <2>1, <2>2, RunExpressionsRoots
<1>7. CASE Ret(Unspec)
  <2>1. IsObject(Unspec, d)
    BY AtomIsObject DEF Unspec, Numbered
  <2>2. QED
    BY <1>1, <1>7, <2>1, EndsHere
<1>8. CASE pc' = "exit" /\ UNCHANGED <<stack, acts, locals, val>>
  <2>1. Holds("exit", Len(stack), stack, locals)
    BY DEF Holds
  <2>2. Machine(d)'
    BY <1>8, <2>1 DEF Machine
  <2>3. QED
    BY <1>1, <2>2, StepHere
<1>9. QED
  BY <1>6, <1>7, <1>8 DEF LoadNext
-----------------------------------------------------------------------------
(* The theorems.                                                            *)

(* The function that called eval_frame goes on with what it relied on.      *)
LEMMA ReturnRoots ==
  ASSUME IInv, NEW d, World(d), Machine(d), Return
  PROVE  RInv'
<1> DEFINE n == Len(acts)
           a == acts[n]
<1>1. Frames(acts, stack) /\ acts # <<>> /\ val' = val /\ UNCHANGED <<envs, store, input>>
  BY DEF IInv, Return, world
<1>2. /\ n \in Nat /\ n \in 1 .. n /\ n - 1 \in 0 .. n /\ IsSeq(acts)
      /\ IsSeq(stack) /\ Len(stack) \in Nat /\ Top(acts) <= Len(stack) /\ Top(acts) \in Nat
  <2>1. /\ IsSeq(acts) /\ IsSeq(stack) /\ Top(acts) <= Len(stack)
        /\ n \in Nat /\ Len(stack) \in Nat /\ Top(acts) \in Nat
    BY <1>1, FramesUnderTop DEF Frames
  <2>2. n # 0
    BY <1>1, <2>1, IsSeqProperties
  <2> HIDE DEF n
  <2>3. QED
    BY <2>1, <2>2
<1>3. /\ acts' = SubSeq(acts, 1, n - 1) /\ stack' = Down(a.height)
      /\ locals' = a.locals /\ pc' = a.at
  BY DEF Return, Last, Front
<1>4. Top(acts) = a.height /\ a.at \in Waiting
  <2>1. n # 0 /\ IsAct(a)
    BY <1>1, <1>2 DEF Frames
  <2>2. QED
    BY <2>1 DEF Top, Below, IsAct
<1> HIDE DEF a
<1>5. /\ IsSeq(stack') /\ Len(stack') = a.height
      /\ \A i \in 1 .. a.height : stack'[i] = stack[i] /\ i \in 1 .. Len(stack)
  <2>1. a.height \in 0 .. Len(stack)
    BY <1>2, <1>4
  <2>2. /\ IsSeq(Down(a.height)) /\ Len(Down(a.height)) = a.height
        /\ \A i \in 1 .. a.height : Down(a.height)[i] = stack[i]
    BY <1>2, <2>1, Prefix DEF Down
  <2>3. QED
    BY <1>2, <1>3, <1>4, <2>2
<1>6. Has(stack', stack, Top(acts))
  BY <1>2, <1>4, <1>5 DEF Has
<1>7. /\ \A j \in 1 .. n : Holds(acts[j].at, acts[j].height, stack', acts[j].locals)
      /\ stack'[2].t = "environ"
  BY <1>6, WaitingHold
<1>8. Len(acts') = n - 1 /\ \A j \in 1 .. n - 1 : acts'[j] = acts[j] /\ j \in 1 .. n
  <2>1. /\ Len(SubSeq(acts, 1, n - 1)) = n - 1
        /\ \A j \in 1 .. n - 1 : SubSeq(acts, 1, n - 1)[j] = acts[j]
    BY <1>2, Prefix
  <2>2. \A j \in 1 .. n - 1 : j \in 1 .. n
    BY <1>2
  <2>3. QED
    BY <1>3, <2>1, <2>2
<1>9. Holds(pc', Len(stack'), stack', locals')
  BY <1>2, <1>3, <1>5, <1>7 DEF a
<1>10. \A j \in 1 .. Len(acts') : Holds(acts'[j].at, acts'[j].height, stack', acts'[j].locals)
  BY <1>7, <1>8
<1>11. \A i \in 1 .. Len(stack') : IsObject(stack'[i], d)
  BY <1>5 DEF Machine
<1>12. IsObject(val', d) /\ pc' # "push"
  BY <1>1, <1>3, <1>4 DEF Machine, Waiting, CallEcName
<1>13. Machine(d)'
  BY <1>7, <1>9, <1>10, <1>11, <1>12 DEF Machine
<1>14. QED
  BY <1>1, <1>13, StepHere

\* u is s with a frame for x.
Framed(u, s, x, d) ==
  /\ IsStack(u, d) /\ Len(u) = Len(s) + 3
  /\ \A i \in 1 .. Len(s) : u[i] = s[i]
  /\ u[Len(s) + 1] = x /\ u[Len(s) + 3].t = "environ"

LEMMA FrameOn ==
  ASSUME NEW d, NEW s, IsStack(s, d), Len(s) >= 1, NEW x, IsObject(x, d),
         NEW u, u = Frame(s, x)
  PROVE  Framed(u, s, x, d)
BY FrameHolds DEF Framed

(* The program starts with the expressions of its file.                     *)
LEMMA InitRoots == Init => RInv
<1> SUFFICES ASSUME Init PROVE RInv
  OBVIOUS
<1> DEFINE d == [k \in Numbered |-> IF k = "environ" THEN 1 .. 1 ELSE {}]
           s == program.text
           text == List(s, Nil)
           base == <<Null, Environ(1)>>
           main == Frame(base, Null)
           prog == Frame(main, text)
           l == [NoLocals EXCEPT !.held = <<text>>]
           r == [outer |-> 0, table |-> Prelude]
<1>1. /\ stack = Frame(prog, Head(s))
      /\ acts = <<[at |-> "load", height |-> Len(prog), locals |-> l]>>
      /\ locals = NoLocals /\ pc = "eval" /\ val = Null
      /\ envs = <<r>> /\ store = <<>> /\ input = program.input /\ program \in Programs
  BY DEF Init
<1>2. d["environ"] = 1 .. 1 /\ d["vector"] = {} /\ d["dict"] = {}
  BY DEF Numbered
<1> HIDE DEF d
<1>3. s \in Seq(Expressions) /\ s # <<>> /\ input \in Seq(Seq(Expressions \cup {Error}))
  BY <1>1, TextAssumption
<1>4. IsSeq(s) /\ (\A k \in 1 .. Len(s) : IsObject(s[k], d)) /\ IsObject(Head(s), d)
  <2>1. \A k \in 1 .. Len(s) : s[k] \in Expressions
    BY <1>3, ElementOfSeq
  <2>2. IsSeq(s) /\ Head(s) \in Expressions
    BY <1>3, SeqIsSeq
  <2>3. QED
    BY <2>1, <2>2, TextIsObject
<1>5. IsObject(text, d) /\ text.t = "pair" /\ text.end = Nil
  <2>1. IsObject(Nil, d) /\ Nil.t # "pair"
    BY AtomIsObject DEF Nil, Numbered
  <2>2. text = [t |-> "pair", items |-> s, end |-> Nil]
    BY <1>3, <2>1 DEF List
  <2>3. IsObject(text, d)
    BY <1>4, <2>1, ListIsObject
  <2>4. QED
    BY <2>2, <2>3
<1>6. IsObject(Null, d) /\ IsObject(Environ(1), d) /\ Environ(1).t = "environ"
  <2>1. IsObject(Null, d)
    BY AtomIsObject DEF Null, Numbered
  <2> DEFINE v == Environ(1)
  <2>2. v.t = "environ" /\ v.id = 1
    BY DEF Environ
  <2> HIDE DEF v
  <2>3. IsObject(v, d)
    BY <1>2, <2>2, NumberedIsObject DEF Numbered
  <2>4. QED
    BY <2>1, <2>2, <2>3 DEF v
<1> HIDE DEF text, s
<1>7. IsStack(base, d) /\ Len(base) = 2 /\ base[2].t = "environ"
  <2>1. IsSeq(base) /\ Len(base) = 2 /\ base[1] = Null /\ base[2] = Environ(1)
    BY Tuples
  <2> HIDE DEF base
  <2>2. \A i \in 1 .. 2 : i = 1 \/ i = 2
    OBVIOUS
  <2>3. QED
    BY <1>6, <2>1, <2>2 DEF IsStack
<1> HIDE DEF base
<1>8. main = Frame(base, Null) /\ prog = Frame(main, text)
  OBVIOUS
<1> HIDE DEF main, prog
<1>9. IsStack(main, d) /\ Len(main) = 5 /\ main[2].t = "environ"
  <2>1. Len(base) >= 1 /\ 2 \in 1 .. 2
    BY <1>7
  <2>2. Framed(main, base, Null, d)
    BY <1>6, <1>7, <1>8, <2>1, FrameOn
  <2>3. QED
    BY <1>7, <2>1, <2>2 DEF Framed
<1>10. /\ IsStack(stack, d) /\ Len(stack) = 11 /\ stack[2].t = "environ"
       /\ stack[6] = text /\ stack[8].t = "environ" /\ Len(prog) = 8
  <2>1. Len(main) >= 1 /\ 2 \in 1 .. 5
    BY <1>9
  <2>2. Framed(prog, main, text, d)
    BY <1>5, <1>8, <1>9, <2>1, FrameOn
  <2>3. /\ IsStack(prog, d) /\ Len(prog) = 8 /\ prog[2].t = "environ"
        /\ prog[6] = text /\ prog[8].t = "environ"
    BY <1>9, <2>1, <2>2 DEF Framed
  <2>4. Len(prog) >= 1 /\ 2 \in 1 .. 8 /\ 6 \in 1 .. 8 /\ 8 \in 1 .. 8
    BY <2>3
  <2>5. Framed(stack, prog, Head(s), d)
    BY <1>1, <1>4, <2>3, <2>4, FrameOn
  <2>6. QED
    BY <2>3, <2>4, <2>5 DEF Framed
<1>11. Holds("load", 8, stack, l)
  <2>1. l.proc = Null /\ l.held = <<text>>
    BY DEF NoLocals
  <2>2. l.held = <<l.held[1]>> /\ l.held[1] = text
    BY <2>1
  <2> HIDE DEF l
  <2>3. Suffix(l.held[1], stack[8 - 2])
    BY <1>10, <2>2 DEF Suffix
  <2>4. QED
    BY <1>5, <1>10, <2>1, <2>2, <2>3 DEF Holds
<1>12. ASSUME NEW j \in 1 .. Len(acts)
       PROVE  Holds(acts[j].at, acts[j].height, stack, acts[j].locals)
  <2> DEFINE a == [at |-> "load", height |-> 8, locals |-> l]
  <2>1. a.at = "load" /\ a.height = 8 /\ a.locals = l /\ acts = <<a>>
    BY <1>1, <1>10
  <2> HIDE DEF a, l
  <2>2. j = 1 /\ acts[j] = a
    BY <2>1
  <2>3. QED
    BY <1>11, <2>1, <2>2
<1>13. Holds("eval", Len(stack), stack, locals)
  BY <1>1, <1>10 DEF Holds, NoLocals, IsStack
<1>14. Machine(d)
  BY <1>1, <1>6, <1>10, <1>12, <1>13 DEF Machine, IsStack
<1>15. EnvsSound(d)
  <2>1. \A x \in DOMAIN Prelude : IsObject(Prelude[x], d)
    <3>1. \A x : IsObject(SpecForm(x), d) /\ IsObject(Proc(x), d)
      BY AtomIsObject DEF SpecForm, Proc, Numbered
    <3>2. \A x \in DOMAIN Prelude : Prelude[x] = SpecForm(x) \/ Prelude[x] = Proc(x)
      BY DEF Prelude
    <3>3. QED
      BY <3>1, <3>2
  <2>2. r.outer = 0 /\ r.table = Prelude /\ r = [outer |-> r.outer, table |-> r.table]
    OBVIOUS
  <2> HIDE DEF r
  <2>3. IsSeq(envs) /\ Len(envs) = 1 /\ envs[1] = r
    <3>1. <<r>> \in Seq({r})
      OBVIOUS
    <3>2. QED
      BY <1>1, <3>1, SeqIsSeq
  <2>4. \A i \in 1 .. 1 : i = 1 /\ 0 \in 0 .. i - 1
    OBVIOUS
  <2>5. QED
    BY <1>2, <2>1, <2>2, <2>3, <2>4 DEF EnvsSound
<1>16. StoreSound(d)
  <2>1. IsSeq(store) /\ Len(store) = 0
    <3>1. <<>> \in Seq({})
      OBVIOUS
    <3>2. QED
      BY <1>1, <3>1, SeqIsSeq
  <2>2. QED
    BY <1>2, <2>1 DEF StoreSound
<1>17. QED
  BY <1>3, <1>14, <1>15, <1>16 DEF RInv, World, InputSound

(* Every step computes objects and keeps what the functions rely on.        *)
LEMMA StepRoots ==
  ASSUME IInv, RInv, [Next]_vars
  PROVE  RInv'
<1>1. PICK d : World(d) /\ Machine(d)
  BY DEF RInv
<1>2. CASE UNCHANGED vars
  <2>1. Machine(d)'
    BY <1>1, <1>2 DEF Machine, vars, machine
  <2>2. QED
    BY <1>1, <1>2, <2>1, StepHere DEF vars, world
<1>3. CASE Eval
  BY <1>1, <1>3, EvalSelfRoots, RefusedRoots, EvalSymbolRoots, EvalMacroRoots, EvalOperatorRoots
  DEF Eval
<1>4. CASE Lang
  BY <1>1, <1>4, LangIfRoots, LangQuoteRoots, LangLambdaRoots, LangBeginRoots,
     LangAssignRoots, LangDefineProcedureRoots, RefusedRoots
  DEF Lang
<1>5. CASE Resume
  BY <1>1, <1>5, IfDoneRoots, DefineDoneRoots, SetDoneRoots, BeginNextRoots, MacroDoneRoots,
     OperatorDoneRoots, ArgumentDoneRoots, CallEcDoneRoots, LoadNextRoots
  DEF Resume
<1>6. CASE Apply
  BY <1>1, <1>6, PushArgumentRoots, ArgumentsPushedRoots, EvalArgumentRoots, ArgumentsDoneRoots,
     ApplyEvalRoots, ApplyApplyRoots, ApplyClosureRoots, ThrowRoots, RefusedRoots
  DEF Apply
<1>7. CASE Lib
  BY <1>1, <1>7, ApplyLibraryRoots, PrintRoots, lib_readRoots, lib_report_environRoots,
     lib_null_environRoots, lib_call_ecRoots, lib_loadRoots
  DEF Lib
<1>8. CASE Return
  BY <1>1, <1>8, ReturnRoots
<1>9. QED
  BY <1>2, <1>3, <1>4, <1>5, <1>6, <1>7, <1>8 DEF Next, Stopped

(* All that a program computes with, in the slots of the stack, the         *)
(* environments, the vectors and hash tables, are objects whose parts are   *)
(* objects: no primitive leaves a dangling number or a malformed pair.      *)
THEOREM ObjectsHold == Spec => []RInv
<1>1. IInv /\ RInv /\ [Next]_vars => RInv'
  BY StepRoots
<1>2. QED
  BY <1>1, InitRoots, InvariantHolds, PTL DEF Spec

(* Whenever eval_frame runs, what the C functions that wait for it will     *)
(* read from their locals is in the slots of their frames, or part of what  *)
(* is there, so a collection in between cannot free it.                     *)
THEOREM RootsHold == Spec => []LocalsRooted
<1>1. ASSUME IInv, NEW d, Machine(d)
      PROVE  LocalsRooted
  <2> SUFFICES ASSUME NEW j \in 1 .. Len(acts), acts[j].at # CallEcName,
                      NEW v \in Range(acts[j].locals.held) \cup {acts[j].locals.proc}
               PROVE  NeverFreed(v) \/ \E n \in 1 .. acts[j].height : v \in Pieces(stack[n])
    BY DEF LocalsRooted
  <2> DEFINE at == acts[j].at
             h == acts[j].height
             l == acts[j].locals
  <2>1. /\ at \in Waiting \ {CallEcName} /\ h \in Nat /\ IsLocals(l)
        /\ Placed(at, Below(acts, j - 1), h, stack, l)
    BY <1>1 DEF IInv, Frames, IsAct
  <2>2. Below(acts, j - 1) \in Nat
    <3>1. Frames(acts, stack)
      BY <1>1 DEF IInv
    <3>2. Len(acts) \in Nat
      BY <3>1, FramesUnderTop
    <3>3. j - 1 \in 0 .. Len(acts)
      BY <3>2
    <3>4. QED
      BY <3>1, <3>3, FramesUnderTop
  <2>3. Holds(at, h, stack, l)
    BY <1>1 DEF Machine
  <2> HIDE DEF at, h, l
  <2>4. at # "argument" => h - 2 \in 1 .. h
    BY <2>1, <2>2 DEF Placed, Waiting, Base, IsLocals, CallEcName
  <2>5. v \in Range(l.held) \/ v = l.proc
    BY DEF l
  <2>6. NeverFreed(Null)
    BY DEF NeverFreed, Null
  <2>7. CASE v = l.proc
    <3>1. CASE at \notin {"argument", "load"}
      BY <2>1, <2>3, <2>6, <2>7, <3>1 DEF Holds, Waiting
    <3>2. ASSUME NEW n \in 1 .. h, stack[n] = v
          PROVE  v \in Pieces(stack[n])
      BY <3>2 DEF Pieces
    <3>3. CASE at = "argument"
      <4>1. LaidOut(stack, h, l)
        BY <2>1, <3>3 DEF Placed
      <4>2. l.orig + 1 \in 1 .. h /\ stack[l.orig + 1] = v
        BY <2>1, <2>7, <4>1 DEF LaidOut, IsLocals
      <4>3. QED
        BY <3>2, <4>2 DEF h
    <3>4. CASE at = "load"
      <4>1. l.proc = Null \/ (l.orig + 1 \in 1 .. h - 3 /\ stack[l.orig + 1] = l.proc)
        BY <2>3, <3>4 DEF Holds
      <4>2. 1 .. h - 3 \subseteq 1 .. h
        BY <2>1
      <4>3. QED
        BY <2>6, <2>7, <3>2, <4>1, <4>2 DEF h
    <3>5. QED
      BY <3>1, <3>3, <3>4
  <2>8. CASE v \in Range(l.held)
    <3>1. CASE at \in {"macro", "argument"}
      <4>1. l.held = <<>>
        BY <2>3, <3>1 DEF Holds
      <4>2. QED
        BY <2>8, <4>1 DEF Range
    <3>2. CASE at = "if"
      <4>1. /\ l.held = <<l.held[1], l.held[2]>>
            /\ RootedIn(l.held[1], stack[h - 2]) /\ RootedIn(l.held[2], stack[h - 2])
        BY <2>3, <3>2 DEF Holds
      <4>2. v = l.held[1] \/ v = l.held[2]
        BY <2>8, <4>1 DEF Range
      <4>3. QED
        BY <2>4, <3>2, <4>1, <4>2 DEF RootedIn, h
    <3>3. CASE at \in {"define", "set!", "begin", "operator", "load"}
      <4>1. l.held = <<l.held[1]>>
        BY <2>3, <3>3 DEF Holds
      <4>2. v = l.held[1]
        BY <2>8, <4>1 DEF Range
      <4>3. CASE at \in {"define", "set!"}
        BY <2>3, <4>2, <4>3 DEF Holds, NeverFreed
      <4>4. CASE at \in {"begin", "operator", "load"}
        <5>1. Suffix(v, stack[h - 2])
          BY <2>3, <4>2, <4>4 DEF Holds
        <5>2. v \in Pieces(stack[h - 2])
          BY <5>1, SuffixIsPiece
        <5>3. QED
          BY <2>4, <4>4, <5>2 DEF h
      <4>5. QED
        BY <3>3, <4>3, <4>4
    <3>4. QED
      BY <2>1, <3>1, <3>2, <3>3 DEF Waiting
  <2>9. QED
    BY <2>5, <2>7, <2>8
<1>2. IInv /\ RInv => LocalsRooted
  BY <1>1 DEF RInv
<1>3. QED
  BY <1>2, InvariantHolds, ObjectsHold, PTL
=============================================================================
