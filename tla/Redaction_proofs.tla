-------------------------- MODULE Redaction_proofs --------------------------
(***************************************************************************)
(* What redact_pii makes of a number of any length in any surroundings: a  *)
(* number that fits a pattern goes whole and leaves one placeholder.  The  *)
(* loop of pattern.sub comes first, then the patterns, then the passes.    *)
(***************************************************************************)
EXTENDS Redaction, FiniteSetTheorems, SequenceTheorems, WellFoundedInduction,
        TLAPS

LEMMA LeastNumber ==
  ASSUME NEW S, S \subseteq Nat, S # {}
  PROVE  \E n \in S : \A m \in S : ~(m < n)
<1> DEFINE less == OpToRel(<, Nat)
<1>1. IsWellFoundedOn(less, Nat)
  BY NatLessThanWellFounded
<1>2. \A m, n \in Nat : <<m, n>> \in less <=> m < n
  BY DEF OpToRel
<1> HIDE DEF less
<1>3. PICK n \in S : \A m \in S : ~(<<m, n>> \in less)
  BY <1>1, WFMin
<1> QED
  BY <1>2, <1>3
-----------------------------------------------------------------------------
(* The loop of pattern.sub.                                                *)

(* The longest match at a place is one of those there.                     *)
LEMMA LongestMatch ==
  ASSUME NEW n, NEW t \in Seq(Chars), NEW i \in 1 .. Len(t), Ends(n, t, i) # {}
  PROVE  /\ Max(Ends(n, t, i)) \in Ends(n, t, i)
         /\ Max(Ends(n, t, i)) \in i .. Len(t)
         /\ \A j \in Ends(n, t, i) : j <= Max(Ends(n, t, i))
<1> DEFINE ends == Ends(n, t, i)
           left == {Len(t) - j : j \in ends}
<1>1. ends \subseteq i .. Len(t) /\ Len(t) \in Nat /\ i \in Nat
  BY DEF Ends
<1> HIDE DEF ends
<1>2. left \subseteq Nat /\ left # {}
  BY <1>1 DEF ends
<1>3. PICK l \in left : \A m \in left : ~(m < l)
  BY <1>2, LeastNumber
<1>4. PICK k \in ends : l = Len(t) - k
  OBVIOUS
<1>5. ASSUME NEW j \in ends PROVE k >= j
  <2>1. ~(Len(t) - j < Len(t) - k)
    BY <1>3, <1>4
  <2> QED
    BY <1>1, <2>1
<1>6. Max(ends) \in ends /\ \A j \in ends : Max(ends) >= j
  BY <1>4, <1>5 DEF Max
<1> QED
  BY <1>1, <1>6 DEF ends

(* One turn of the loop, from what the later ones make of the rest.        *)
Turn(rest, n, t, i) ==
  IF i > Len(t) THEN <<>>
  ELSE IF Ends(n, t, i) = {} THEN <<t[i]>> \o rest[i + 1]
  ELSE <<"#">> \o rest[Max(Ends(n, t, i)) + 1]

Turns(rest, n, t, i) == \A k \in i .. Len(t) + 1 : rest[k] = Turn(rest, n, t, k)

LEMMA LoopRuns ==
  ASSUME NEW n, NEW t \in Seq(Chars)
  PROVE  \E rest : /\ rest = [k \in 1 .. Len(t) + 1 |-> rest[k]]
                   /\ Turns(rest, n, t, 1)
<1> DEFINE Runs(l) == \E rest : Turns(rest, n, t, Len(t) + 1 - l)
           Fails   == {l \in 0 .. Len(t) : ~Runs(l)}
<1>0. Len(t) \in Nat
  OBVIOUS
<1>1. Fails = {}
  <2> SUFFICES ASSUME Fails # {} PROVE FALSE
    OBVIOUS
  <2>0. /\ \A l \in Fails : l \in Nat /\ l <= Len(t) /\ ~Runs(l)
        /\ \A l \in 0 .. Len(t) : l \notin Fails => Runs(l)
    BY <1>0
  <2> HIDE DEF Fails
  <2>1. PICK l \in Fails : \A m \in Fails : ~(m < l)
    BY <2>0, LeastNumber
  <2>2. l \in Nat /\ l <= Len(t) /\ ~Runs(l)
    BY <2>0
  <2> DEFINE i == Len(t) + 1 - l
  <2>3. i \in 1 .. Len(t) + 1
    BY <1>0, <2>2
  <2>4. PICK old : Turns(old, n, t, i + 1)
    <3>1. CASE l = 0
      <4>1. i + 1 .. Len(t) + 1 = {}
        BY <1>0, <3>1
      <4> QED
        BY <4>1 DEF Turns
    <3>2. CASE l # 0
      <4>1. l - 1 \in 0 .. Len(t) /\ l - 1 < l /\ Len(t) + 1 - (l - 1) = i + 1
        BY <1>0, <2>2, <3>2
      <4>2. l - 1 \notin Fails
        BY <2>1, <4>1
      <4>3. Runs(l - 1)
        BY <2>0, <4>1, <4>2
      <4> QED
        BY <4>1, <4>3
    <3> QED
      BY <3>1, <3>2
  <2> DEFINE new == [k \in i .. Len(t) + 1 |-> IF k = i THEN Turn(old, n, t, i) ELSE old[k]]
  <2>5. ASSUME NEW k \in i .. Len(t) + 1 PROVE new[k] = Turn(new, n, t, k)
    <3>1. new[k] = Turn(old, n, t, k)
      BY <1>0, <2>3, <2>4 DEF Turns
    <3>2. \A m \in k + 1 .. Len(t) + 1 : new[m] = old[m]
      BY <1>0, <2>3
    <3> HIDE DEF new
    <3>3. CASE k > Len(t)
      BY <3>1, <3>3 DEF Turn
    <3>4. CASE k <= Len(t)
      <4>1. k \in 1 .. Len(t) /\ ~(k > Len(t)) /\ k + 1 \in k + 1 .. Len(t) + 1
        BY <1>0, <2>3, <3>4
      <4>2. CASE Ends(n, t, k) = {}
        BY <3>1, <3>2, <4>1, <4>2 DEF Turn
      <4>3. CASE Ends(n, t, k) # {}
        <5>1. Max(Ends(n, t, k)) + 1 \in k + 1 .. Len(t) + 1
          BY <1>0, <4>1, <4>3, LongestMatch
        <5> QED
          BY <3>1, <3>2, <4>1, <4>3, <5>1 DEF Turn
      <4> QED
        BY <4>2, <4>3
    <3> QED
      BY <1>0, <2>3, <3>3, <3>4
  <2> HIDE DEF new
  <2>6. Runs(l)
    BY <2>5 DEF Turns
  <2> QED
    BY <2>2, <2>6
<1>2. Runs(Len(t))
  BY <1>0, <1>1
<1>3. PICK rest : Turns(rest, n, t, 1)
  BY <1>0, <1>2
<1> DEFINE loop == [k \in 1 .. Len(t) + 1 |-> rest[k]]
<1>4. ASSUME NEW k \in 1 .. Len(t) + 1 PROVE loop[k] = Turn(loop, n, t, k)
  <2>1. loop[k] = Turn(rest, n, t, k)
    BY <1>3 DEF Turns
  <2>2. \A m \in 1 .. Len(t) + 1 : loop[m] = rest[m]
    OBVIOUS
  <2> HIDE DEF loop
  <2>3. CASE k > Len(t)
    BY <2>1, <2>3 DEF Turn
  <2>4. CASE k <= Len(t)
    <3>1. k \in 1 .. Len(t) /\ ~(k > Len(t)) /\ k + 1 \in 1 .. Len(t) + 1
      BY <1>0, <2>4
    <3>2. CASE Ends(n, t, k) = {}
      BY <2>1, <2>2, <3>1, <3>2 DEF Turn
    <3>3. CASE Ends(n, t, k) # {}
      <4>1. Max(Ends(n, t, k)) + 1 \in 1 .. Len(t) + 1
        BY <1>0, <3>1, <3>3, LongestMatch
      <4> QED
        BY <2>1, <2>2, <3>1, <3>3, <4>1 DEF Turn
    <3> QED
      BY <3>2, <3>3
  <2> QED
    BY <1>0, <2>3, <2>4
<1>5. loop = [k \in 1 .. Len(t) + 1 |-> loop[k]]
  OBVIOUS
<1> HIDE DEF loop
<1> QED
  BY <1>4, <1>5 DEF Turns

LEMMA SubTakesTurns ==
  ASSUME NEW n, NEW t \in Seq(Chars)
  PROVE  \E rest : Sub(n, t) = rest[1] /\ Turns(rest, n, t, 1)
<1> DEFINE loop == CHOOSE rest : rest = [i \in 1 .. Len(t) + 1 |->
             LET ends == Ends(n, t, i)
             IN  IF i > Len(t) THEN <<>>
                 ELSE IF ends = {} THEN <<t[i]>> \o rest[i + 1]
                 ELSE <<"#">> \o rest[Max(ends) + 1]]
<1>1. \E rest : rest = [i \in 1 .. Len(t) + 1 |-> Turn(rest, n, t, i)]
  <2>1. PICK rest : /\ rest = [k \in 1 .. Len(t) + 1 |-> rest[k]]
                    /\ Turns(rest, n, t, 1)
    BY LoopRuns
  <2>2. \A k \in 1 .. Len(t) + 1 : rest[k] = Turn(rest, n, t, k)
    BY <2>1 DEF Turns
  <2>3. [k \in 1 .. Len(t) + 1 |-> rest[k]] = [k \in 1 .. Len(t) + 1 |-> Turn(rest, n, t, k)]
    BY <2>2
  <2> QED
    BY <2>1, <2>3
<1>2. loop = [i \in 1 .. Len(t) + 1 |-> Turn(loop, n, t, i)]
  BY <1>1 DEF Turn
<1>3. Sub(n, t) = loop[1]
  BY DEF Sub
<1> HIDE DEF loop
<1>4. Turns(loop, n, t, 1)
  BY <1>2 DEF Turns
<1> QED
  BY <1>3, <1>4

NoneFits(n, t, K) == \A k \in K : Ends(n, t, k) = {}

(* Where nothing fits any more, the rest is kept.                          *)
LEMMA NothingFits ==
  ASSUME NEW n, NEW t \in Seq(Chars), NEW rest, Turns(rest, n, t, 1),
         NEW i \in 1 .. Len(t) + 1, NoneFits(n, t, i .. Len(t))
  PROVE  rest[i] = SubSeq(t, i, Len(t))
<1> DEFINE Kept(k) == rest[k] = SubSeq(t, k, Len(t))
           Fails   == {l \in 0 .. Len(t) + 1 - i : ~Kept(Len(t) + 1 - l)}
<1>0. Len(t) \in Nat /\ Fails \subseteq Nat
  OBVIOUS
<1>1. \A l \in 0 .. Len(t) + 1 - i : l \notin Fails => Kept(Len(t) + 1 - l)
  OBVIOUS
<1>2. \A l \in Fails : l \in 0 .. Len(t) + 1 - i /\ ~Kept(Len(t) + 1 - l)
  OBVIOUS
<1> HIDE DEF Fails
<1>3. ASSUME Fails # {} PROVE FALSE
  <2>1. PICK l \in Fails : \A m \in Fails : ~(m < l)
    BY <1>0, <1>3, LeastNumber
  <2> DEFINE k == Len(t) + 1 - l
  <2>2. l \in 0 .. Len(t) + 1 - i /\ ~Kept(k)
    BY <1>2
  <2>3. k \in i .. Len(t) + 1 /\ k \in 1 .. Len(t) + 1
    BY <1>0, <2>2
  <2>4. rest[k] = Turn(rest, n, t, k)
    BY <2>3 DEF Turns
  <2>5. CASE l = 0
    <3>1. k > Len(t) /\ k = Len(t) + 1
      BY <1>0, <2>5
    <3>2. rest[k] = <<>>
      BY <2>4, <3>1 DEF Turn
    <3>3. SubSeq(t, k, Len(t)) = <<>>
      BY <1>0, <3>1, SubSeqEmpty
    <3> QED
      BY <2>2, <3>2, <3>3
  <2>6. CASE l # 0
    <3>1. k \in i .. Len(t) /\ k \in 1 .. Len(t) /\ ~(k > Len(t))
      BY <1>0, <2>2, <2>6
    <3>2. l - 1 \in 0 .. Len(t) + 1 - i /\ l - 1 < l /\ Len(t) + 1 - (l - 1) = k + 1
      BY <1>0, <2>2, <2>6
    <3>3. Kept(Len(t) + 1 - (l - 1))
      BY <1>1, <2>1, <3>2
    <3>4. Kept(k + 1)
      BY <3>2, <3>3
    <3>5. Ends(n, t, k) = {}
      BY <3>1 DEF NoneFits
    <3> HIDE DEF k
    <3>6. rest[k] = <<t[k]>> \o rest[k + 1]
      BY <2>4, <3>1, <3>5 DEF Turn
    <3>7. SubSeq(t, k, Len(t)) = <<t[k]>> \o SubSeq(t, k + 1, Len(t))
      BY <1>0, <3>1, SubSeqRecursiveFirst
    <3> QED
      BY <2>2, <3>4, <3>6, <3>7
  <2> QED
    BY <2>5, <2>6
<1>4. /\ Len(t) + 1 - i \in 0 .. Len(t) + 1 - i
      /\ Len(t) + 1 - (Len(t) + 1 - i) = i
  BY <1>0
<1>5. Kept(Len(t) + 1 - (Len(t) + 1 - i))
  BY <1>1, <1>3, <1>4
<1> QED
  BY <1>4, <1>5

(* A part of the text, and something after it.                             *)
Then(t, k, i, v) == SubSeq(t, k, i - 1) \o v

LEMMA OneMore ==
  ASSUME NEW t \in Seq(Chars), NEW i \in 1 .. Len(t) + 1, NEW v \in Seq(Chars),
         NEW k \in 1 .. i - 1
  PROVE  <<t[k]>> \o Then(t, k + 1, i, v) = Then(t, k, i, v)
<1> DEFINE c == <<t[k]>>
           u == SubSeq(t, k + 1, i - 1)
<1>1. /\ k \in 1 .. Len(t) /\ i - 1 \in k .. Len(t) /\ k + 1 \in Int /\ i - 1 \in Int
      /\ \A m \in k + 1 .. i - 1 : t[m] \in Chars
  OBVIOUS
<1>2. SubSeq(t, k, i - 1) = c \o u
  BY <1>1, SubSeqRecursiveFirst
<1>3. c \in Seq(Chars) /\ u \in Seq(Chars)
  BY <1>1, SubSeqProperties
<1> HIDE DEF c, u
<1>4. (c \o u) \o v = c \o (u \o v)
  BY <1>3, ConcatAssociative
<1> QED
  BY <1>2, <1>4 DEF Then, c, u

(* Up to the first match, what is there is kept.                           *)
LEMMA FirstFit ==
  ASSUME NEW n, NEW t \in Seq(Chars), NEW rest, Turns(rest, n, t, 1),
         NEW i \in 1 .. Len(t) + 1, NoneFits(n, t, 1 .. i - 1),
         rest[i] \in Seq(Chars)
  PROVE  rest[1] = Then(t, 1, i, rest[i])
<1> DEFINE v       == rest[i]
           Kept(k) == rest[k] = Then(t, k, i, v)
           Fails   == {l \in 0 .. i - 1 : ~Kept(i - l)}
<1> HIDE DEF Kept, v
<1>0. Len(t) \in Nat /\ i \in Nat /\ Fails \subseteq Nat
  OBVIOUS
<1>1. \A l \in 0 .. i - 1 : l \notin Fails => Kept(i - l)
  OBVIOUS
<1>2. \A l \in Fails : l \in 0 .. i - 1 /\ ~Kept(i - l)
  OBVIOUS
<1> HIDE DEF Fails
<1>3. ASSUME Fails # {} PROVE FALSE
  <2>1. PICK l \in Fails : \A m \in Fails : ~(m < l)
    BY <1>0, <1>3, LeastNumber
  <2> DEFINE k == i - l
  <2>2. l \in 0 .. i - 1 /\ ~Kept(k)
    BY <1>2
  <2>3. k \in 1 .. Len(t) + 1
    BY <1>0, <2>2
  <2>4. rest[k] = Turn(rest, n, t, k)
    BY <2>3 DEF Turns
  <2>5. CASE l = 0
    <3>1. k = i /\ i - 1 < i
      BY <1>0, <2>5
    <3>2. SubSeq(t, i, i - 1) = <<>>
      BY <1>0, <3>1, SubSeqEmpty
    <3>3. v \in Seq(Chars)
      BY DEF v
    <3>4. <<>> \o v = v
      BY <3>3, ConcatEmptySeq
    <3> QED
      BY <2>2, <3>1, <3>2, <3>4 DEF Kept, Then, v
  <2>6. CASE l # 0
    <3>1. /\ k \in 1 .. i - 1 /\ k \in 1 .. Len(t) /\ i - 1 \in k .. Len(t)
          /\ ~(k > Len(t))
      BY <1>0, <2>2, <2>6
    <3>2. l - 1 \in 0 .. i - 1 /\ l - 1 < l /\ i - (l - 1) = k + 1
      BY <1>0, <2>2, <2>6
    <3>3. Kept(i - (l - 1))
      BY <1>1, <2>1, <3>2
    <3>4. Kept(k + 1)
      BY <3>2, <3>3
    <3>5. Ends(n, t, k) = {}
      BY <3>1 DEF NoneFits
    <3> HIDE DEF k
    <3>6. rest[k] = <<t[k]>> \o rest[k + 1]
      BY <2>4, <3>1, <3>5 DEF Turn
    <3>7. v \in Seq(Chars)
      BY DEF v
    <3>8. <<t[k]>> \o Then(t, k + 1, i, v) = Then(t, k, i, v)
      BY <3>1, <3>7, OneMore
    <3> QED
      BY <2>2, <3>4, <3>6, <3>8 DEF Kept
  <2> QED
    BY <2>5, <2>6
<1>4. i - 1 \in 0 .. i - 1 /\ i - (i - 1) = 1
  BY <1>0
<1>5. Kept(i - (i - 1))
  BY <1>1, <1>3, <1>4
<1> QED
  BY <1>4, <1>5 DEF Kept, v

(* A pattern that fits nowhere changes nothing.                            *)
LEMMA NoMatchNoChange ==
  ASSUME NEW n, NEW t \in Seq(Chars), NoneFits(n, t, 1 .. Len(t))
  PROVE  Sub(n, t) = t
<1>1. PICK rest : Sub(n, t) = rest[1] /\ Turns(rest, n, t, 1)
  BY SubTakesTurns
<1>2. 1 \in 1 .. Len(t) + 1
  OBVIOUS
<1>3. rest[1] = SubSeq(t, 1, Len(t))
  BY <1>1, <1>2, NothingFits
<1> QED
  BY <1>1, <1>3, SubSeqFull

(* A single match leaves a placeholder in its place.                       *)
LEMMA OneMatchOneTag ==
  ASSUME NEW n, NEW t \in Seq(Chars), NEW i \in 1 .. Len(t), NEW q \in i .. Len(t),
         Ends(n, t, i) # {}, q = Max(Ends(n, t, i)),
         NoneFits(n, t, 1 .. i - 1), NoneFits(n, t, q + 1 .. Len(t))
  PROVE  Sub(n, t) = SubSeq(t, 1, i - 1) \o (<<"#">> \o SubSeq(t, q + 1, Len(t)))
<1>1. PICK rest : Sub(n, t) = rest[1] /\ Turns(rest, n, t, 1)
  BY SubTakesTurns
<1>2. Len(t) \in Nat /\ q + 1 \in 1 .. Len(t) + 1 /\ i \in 1 .. Len(t) + 1
  OBVIOUS
<1>3. rest[q + 1] = SubSeq(t, q + 1, Len(t))
  BY <1>1, <1>2, NothingFits
<1> DEFINE u == SubSeq(t, q + 1, Len(t))
           v == <<"#">> \o u
<1>4. rest[i] = v
  <2>1. rest[i] = Turn(rest, n, t, i) /\ ~(i > Len(t))
    BY <1>1, <1>2 DEF Turns
  <2> QED
    BY <1>3, <2>1 DEF Turn
<1>5. v \in Seq(Chars)
  <2>1. \A m \in q + 1 .. Len(t) : t[m] \in Chars
    BY <1>2
  <2>2. u \in Seq(Chars)
    BY <1>2, <2>1, SubSeqProperties
  <2>3. <<"#">> \in Seq(Chars)
    BY DEF Chars
  <2> HIDE DEF u
  <2> QED
    BY <2>2, <2>3, ConcatProperties
<1> HIDE DEF v
<1>6. rest[1] = Then(t, 1, i, rest[i])
  <2>1. i \in 1 .. Len(t) + 1 /\ rest[i] \in Seq(Chars) /\ Turns(rest, n, t, 1)
    BY <1>1, <1>2, <1>4, <1>5
  <2> QED
    BY <2>1, FirstFit, Zenon
<1> QED
  BY <1>1, <1>4, <1>6 DEF v, Then

(* What comes of a text is a text.                                         *)
LEMMA SubType ==
  ASSUME NEW n, NEW t \in Seq(Chars)
  PROVE  Sub(n, t) \in Seq(Chars)
<1>1. PICK rest : Sub(n, t) = rest[1] /\ Turns(rest, n, t, 1)
  BY SubTakesTurns
<1> DEFINE Typed(k) == rest[k] \in Seq(Chars)
           Fails    == {l \in 0 .. Len(t) : ~Typed(Len(t) + 1 - l)}
<1>2. Len(t) \in Nat /\ Fails \subseteq Nat
  OBVIOUS
<1>3. \A l \in 0 .. Len(t) : l \notin Fails => Typed(Len(t) + 1 - l)
  OBVIOUS
<1>4. \A l \in Fails : l \in 0 .. Len(t) /\ ~Typed(Len(t) + 1 - l)
  OBVIOUS
<1> HIDE DEF Fails
<1>5. ASSUME Fails # {} PROVE FALSE
  <2>1. PICK l \in Fails : \A m \in Fails : ~(m < l)
    BY <1>2, <1>5, LeastNumber
  <2> DEFINE k == Len(t) + 1 - l
  <2>2. l \in 0 .. Len(t) /\ ~Typed(k)
    BY <1>4
  <2>3. k \in 1 .. Len(t) + 1
    BY <1>2, <2>2
  <2>4. rest[k] = Turn(rest, n, t, k)
    BY <1>1, <2>3 DEF Turns
  <2>5. ASSUME NEW i \in k + 1 .. Len(t) + 1 PROVE Typed(i)
    <3>1. /\ Len(t) + 1 - i \in 0 .. Len(t) /\ Len(t) + 1 - i < l
          /\ Len(t) + 1 - (Len(t) + 1 - i) = i
      BY <1>2, <2>2, <2>3
    <3>2. Typed(Len(t) + 1 - (Len(t) + 1 - i))
      BY <1>3, <2>1, <3>1
    <3> QED
      BY <3>1, <3>2
  <2> HIDE DEF k
  <2>6. CASE k > Len(t)
    <3>1. rest[k] = <<>>
      BY <2>4, <2>6 DEF Turn
    <3> QED
      BY <2>2, <3>1
  <2>7. CASE ~(k > Len(t))
    <3>1. k \in 1 .. Len(t) /\ t[k] \in Chars /\ "#" \in Chars
      BY <1>2, <2>3, <2>7 DEF Chars
    <3>2. PICK i \in k + 1 .. Len(t) + 1, c \in Chars : rest[k] = <<c>> \o rest[i]
      <4>1. CASE Ends(n, t, k) = {}
        <5>1. rest[k] = <<t[k]>> \o rest[k + 1]
          BY <2>4, <2>7, <4>1 DEF Turn
        <5>2. k + 1 \in k + 1 .. Len(t) + 1
          BY <1>2, <3>1
        <5> QED
          BY <3>1, <5>1, <5>2
      <4>2. CASE Ends(n, t, k) # {}
        <5>1. rest[k] = <<"#">> \o rest[Max(Ends(n, t, k)) + 1]
          BY <2>4, <2>7, <4>2 DEF Turn
        <5>2. Max(Ends(n, t, k)) + 1 \in k + 1 .. Len(t) + 1
          BY <1>2, <3>1, <4>2, LongestMatch
        <5> QED
          BY <3>1, <5>1, <5>2
      <4> QED
        BY <4>1, <4>2
    <3>3. rest[i] \in Seq(Chars) /\ <<c>> \in Seq(Chars)
      BY <2>5
    <3>4. <<c>> \o rest[i] \in Seq(Chars)
      BY <3>3, ConcatProperties
    <3> QED
      BY <2>2, <3>2, <3>4
  <2> QED
    BY <2>6, <2>7
<1>6. Len(t) \in 0 .. Len(t) /\ Len(t) + 1 - Len(t) = 1
  BY <1>2
<1>7. Typed(Len(t) + 1 - Len(t))
  BY <1>3, <1>5, <1>6
<1> QED
  BY <1>1, <1>6, <1>7

(* A placeholder in the place of all digits is the only one.               *)
LEMMA TagCounts ==
  ASSUME NEW t \in Seq(Chars), NEW i \in 1 .. Len(t), NEW q \in i .. Len(t),
         \A k \in 1 .. Len(t) : t[k] # "#" /\ (t[k] = "d" => k \in i .. q)
  PROVE  LET u == Then(t, 1, i, <<"#">> \o SubSeq(t, q + 1, Len(t)))
         IN  Count(u, "d") = 0 /\ Count(u, "#") = 1
<1> DEFINE l == Len(t)
           w == SubSeq(t, 1, i - 1)
           v == SubSeq(t, q + 1, l)
           h == <<"#">>
           x == h \o v
           u == w \o x
<1>1. /\ l \in Nat /\ i - 1 \in Int /\ q + 1 \in Int
      /\ \A k \in (1 .. i - 1) \cup (q + 1 .. l) : t[k] \in Chars
  OBVIOUS
<1>2. w \in Seq(Chars) /\ Len(w) = i - 1 /\ \A k \in 1 .. i - 1 : w[k] = t[k]
  BY <1>1, SubSeqProperties
<1>3. v \in Seq(Chars) /\ Len(v) = l - q /\ \A k \in 1 .. l - q : v[k] = t[q + k]
  BY <1>1, SubSeqProperties
<1>4. h \in Seq(Chars) /\ Len(h) = 1 /\ h[1] = "#"
  BY DEF Chars
<1> HIDE DEF w, v, h
<1>5. x \in Seq(Chars) /\ Len(x) = l - q + 1
  <2>1. x \in Seq(Chars) /\ Len(x) = Len(h) + Len(v)
    BY <1>3, <1>4, ConcatProperties
  <2> QED
    BY <1>1, <1>3, <1>4, <2>1
<1>6. \A k \in 1 .. Len(h) + Len(v) : x[k] = IF k <= Len(h) THEN h[k] ELSE v[k - Len(h)]
  BY <1>3, <1>4, ConcatProperties
<1> HIDE DEF x
<1>7. u \in Seq(Chars) /\ Len(u) = i + l - q
  <2>1. u \in Seq(Chars) /\ Len(u) = Len(w) + Len(x)
    BY <1>2, <1>5, ConcatProperties
  <2> QED
    BY <1>1, <1>2, <1>5, <2>1
<1>8. \A k \in 1 .. Len(w) + Len(x) : u[k] = IF k <= Len(w) THEN w[k] ELSE x[k - Len(w)]
  BY <1>2, <1>5, ConcatProperties
<1> HIDE DEF u
<1>9. ASSUME NEW k \in 1 .. i + l - q
      PROVE  u[k] # "d" /\ (u[k] = "#" <=> k = i)
  <2>0. k \in 1 .. Len(w) + Len(x)
    BY <1>1, <1>2, <1>5
  <2>1. CASE k < i
    <3>1. k \in 1 .. i - 1 /\ k \in 1 .. l /\ k <= Len(w)
      BY <1>1, <1>2, <2>1
    <3>2. u[k] = t[k]
      BY <1>2, <1>8, <2>0, <3>1
    <3> QED
      BY <2>1, <3>1, <3>2
  <2>2. CASE k = i
    <3>1. ~(k <= Len(w)) /\ k - Len(w) = 1 /\ 1 <= Len(h) /\ 1 \in 1 .. Len(h) + Len(v)
      BY <1>1, <1>2, <1>3, <1>4, <2>2
    <3>2. u[k] = x[1]
      BY <1>8, <2>0, <3>1
    <3>3. x[1] = h[1]
      BY <1>6, <3>1
    <3> QED
      BY <1>4, <2>2, <3>2, <3>3
  <2>3. CASE k > i
    <3> DEFINE m == k - i
    <3>1. ~(k <= Len(w)) /\ k - Len(w) = m + 1
      BY <1>1, <1>2, <2>3
    <3>2. /\ m \in 1 .. l - q /\ m + 1 \in 1 .. Len(h) + Len(v)
          /\ ~(m + 1 <= Len(h)) /\ m + 1 - Len(h) = m
      BY <1>1, <1>3, <1>4, <2>3
    <3> HIDE DEF m
    <3>3. u[k] = x[m + 1]
      BY <1>8, <2>0, <3>1
    <3>4. x[m + 1] = v[m + 1 - Len(h)]
      BY <1>6, <3>2
    <3>5. v[m] = t[q + m]
      BY <1>3, <3>2
    <3>6. u[k] = t[q + m]
      BY <3>2, <3>3, <3>4, <3>5
    <3>7. q + m \in 1 .. l /\ q + m > q
      BY <1>1, <3>2
    <3> QED
      BY <1>1, <2>3, <3>6, <3>7
  <2> QED
    BY <1>1, <2>1, <2>2, <2>3
<1>10. DOMAIN u = 1 .. i + l - q /\ i \in 1 .. i + l - q
  BY <1>1, <1>7
<1>11. {k \in DOMAIN u : u[k] = "d"} = {} /\ {k \in DOMAIN u : u[k] = "#"} = {i}
  BY <1>9, <1>10
<1>12. Count(u, "d") = 0 /\ Count(u, "#") = 1
  BY <1>11, FS_EmptySet, FS_Singleton DEF Count
<1> QED
  BY <1>12 DEF Then, u, x, w, v, h
-----------------------------------------------------------------------------
(* The patterns.                                                           *)

(* k digits and, maybe, a separator.                                       *)
Shaped(g, k) ==
  /\ g \in Seq({"d", "-"}) /\ Len(g) \in k .. k + 1
  /\ \A i \in 1 .. Len(g) : g[i] = "d" <=> i <= k

Starting(w) == w \in Seq({"d", "-"}) /\ (w # <<>> => w[1] = "d")

LEMMA DigitsShape ==
  ASSUME NEW k \in Nat
  PROVE  Shaped(Digits(k), k) /\ Len(Digits(k)) = k /\ Starting(Digits(k))
<1>1. Digits(k) \in Seq({"d", "-"}) /\ Len(Digits(k)) = k
  BY DEF Digits
<1>2. \A i \in 1 .. k : Digits(k)[i] = "d"
  BY DEF Digits
<1>3. Digits(k) # <<>> => Digits(k)[1] = "d"
  <2>1. CASE k = 0
    BY <1>1, <2>1, EmptySeq
  <2>2. CASE k # 0
    BY <1>2, <2>2
  <2> QED
    BY <2>1, <2>2
<1> QED
  BY <1>1, <1>2, <1>3 DEF Shaped, Starting

LEMMA GroupShape ==
  ASSUME NEW lo \in Nat \ {0}, NEW hi \in Nat, NEW g \in Group(lo, hi)
  PROVE  (\E k \in lo .. hi : Shaped(g, k)) /\ Starting(g)
<1>1. PICK k \in lo .. hi, sep \in {<<>>, <<"-">>} : g = Digits(k) \o sep
  BY DEF Group
<1> DEFINE ds == Digits(k)
<1>2. k \in Nat /\ k >= 1
  OBVIOUS
<1>3. ds \in Seq({"d", "-"}) /\ Len(ds) = k /\ \A i \in 1 .. k : ds[i] = "d"
  <2>1. Shaped(ds, k) /\ Len(ds) = k
    BY <1>2, DigitsShape
  <2> QED
    BY <1>2, <2>1 DEF Shaped
<1> HIDE DEF ds
<1>4. CASE sep = <<>>
  <2>1. g = ds
    BY <1>1, <1>3, <1>4, ConcatEmptySeq DEF ds
  <2>2. Shaped(g, k)
    BY <1>2, <1>3, <2>1 DEF Shaped
  <2>3. Starting(g)
    BY <1>2, <1>3, <2>1 DEF Starting
  <2> QED
    BY <2>2, <2>3
<1>5. CASE sep = <<"-">>
  <2>1. sep \in Seq({"d", "-"}) /\ Len(sep) = 1 /\ sep[1] = "-"
    BY <1>5
  <2>2. g \in Seq({"d", "-"}) /\ Len(g) = Len(ds) + Len(sep)
    BY <1>1, <1>3, <2>1, ConcatProperties DEF ds
  <2>3. \A i \in 1 .. Len(ds) + Len(sep) :
          g[i] = IF i <= Len(ds) THEN ds[i] ELSE sep[i - Len(ds)]
    BY <1>1, <1>3, <2>1, ConcatProperties DEF ds
  <2>4. Len(g) = k + 1
    BY <1>3, <2>1, <2>2
  <2>5. \A i \in 1 .. k : g[i] = "d"
    BY <1>2, <1>3, <2>1, <2>3
  <2>6. g[k + 1] = "-"
    BY <1>2, <1>3, <2>1, <2>3
  <2>7. Shaped(g, k)
    <3>1. \A i \in 1 .. Len(g) : i \in 1 .. k \/ i = k + 1
      BY <1>2, <2>4
    <3> QED
      BY <1>2, <2>2, <2>4, <2>5, <2>6, <3>1 DEF Shaped
  <2>8. Starting(g)
    BY <1>2, <2>2, <2>5 DEF Starting
  <2> QED
    BY <2>7, <2>8
<1> QED
  BY <1>1, <1>4, <1>5

LEMMA MaybeGroupShape ==
  ASSUME NEW lo \in Nat \ {0}, NEW hi \in Nat, NEW g \in Maybe(Group(lo, hi))
  PROVE  (\E k \in 0 .. hi : Shaped(g, k)) /\ Starting(g)
<1>1. CASE g \in Group(lo, hi)
  BY <1>1, GroupShape
<1>2. CASE g = <<>>
  <2>1. g \in Seq({"d", "-"}) /\ Len(g) = 0
    BY <1>2
  <2> QED
    BY <1>2, <2>1 DEF Shaped, Starting
<1> QED
  BY <1>1, <1>2 DEF Maybe

LEMMA StartingConcat ==
  ASSUME NEW u, NEW v, Starting(u), Starting(v)
  PROVE  Starting(u \o v)
<1>1. u \in Seq({"d", "-"}) /\ v \in Seq({"d", "-"})
  BY DEF Starting
<1>2. CASE u = <<>>
  BY <1>1, <1>2, ConcatEmptySeq
<1>3. CASE u # <<>>
  <2>1. Len(u) \in Nat /\ Len(v) \in Nat /\ Len(u) >= 1 /\ u[1] = "d"
    BY <1>1, <1>3, EmptySeq DEF Starting
  <2>2. 1 \in 1 .. Len(u) + Len(v) /\ 1 <= Len(u)
    BY <2>1
  <2>3. u \o v \in Seq({"d", "-"}) /\ (u \o v)[1] = u[1]
    BY <1>1, <2>2, ConcatProperties
  <2> QED
    BY <2>1, <2>3 DEF Starting
<1> QED
  BY <1>2, <1>3

(* Where the digits and the separators of a phone number are: x, y and z   *)
(* are where its first three groups end.                                   *)
Parts(w, x, y, z) ==
  /\ w \in Seq({"d", "-"}) /\ x \in Nat /\ y \in Nat /\ z \in Nat
  /\ x <= y /\ y <= z /\ z < Len(w) /\ w[1] = "d" /\ w[Len(w)] = "d"
  /\ \A k \in 1 .. Len(w) : w[k] = "d" => \/ k <= x /\ k <= 4
                                          \/ k > x /\ k <= y /\ k <= x + 4
                                          \/ k > y /\ k <= z /\ k <= y + 4
                                          \/ k > z /\ k <= z + 4
  /\ \A k \in 1 .. Len(w) : w[k] = "-" => k \in {x, y, z}

(* A group behind what stands before it.                                   *)
LEMMA Appended ==
  ASSUME NEW u \in Seq({"d", "-"}), NEW v \in Seq({"d", "-"})
  PROVE  /\ u \o v \in Seq({"d", "-"}) /\ Len(u \o v) = Len(u) + Len(v)
         /\ \A k \in 1 .. Len(u) : (u \o v)[k] = u[k]
         /\ \A k \in Len(u) + 1 .. Len(u) + Len(v) : (u \o v)[k] = v[k - Len(u)]
<1>1. /\ u \o v \in Seq({"d", "-"}) /\ Len(u \o v) = Len(u) + Len(v)
      /\ \A k \in 1 .. Len(u) + Len(v) :
           (u \o v)[k] = IF k <= Len(u) THEN u[k] ELSE v[k - Len(u)]
  BY ConcatProperties
<1>2. Len(u) \in Nat /\ Len(v) \in Nat
  OBVIOUS
<1>3. \A k \in 1 .. Len(u) : k \in 1 .. Len(u) + Len(v) /\ k <= Len(u)
  BY <1>2
<1>4. \A k \in Len(u) + 1 .. Len(u) + Len(v) :
        k \in 1 .. Len(u) + Len(v) /\ ~(k <= Len(u))
  BY <1>2
<1> QED
  BY <1>1, <1>3, <1>4

LEMMA PhoneParts ==
  ASSUME NEW w \in _PHONE
  PROVE  \E x, y, z : Parts(w, x, y, z)
<1> DEFINE S == {"d", "-"}
<1>1. PICK a \in Maybe(Group(1, 3)), b \in Maybe(Group(2, 4)), c \in Group(3, 4),
           d \in {Digits(3), Digits(4)} : w = a \o b \o c \o d
  BY DEF _PHONE
<1> DEFINE ab  == a \o b
           abc == ab \o c
<1>2. PICK ka \in 0 .. 4 : Shaped(a, ka)
  BY MaybeGroupShape
<1>3. PICK kb \in 0 .. 4 : Shaped(b, kb)
  BY MaybeGroupShape
<1>4. PICK kc \in 0 .. 4 : Shaped(c, kc)
  BY GroupShape
<1>5. PICK kd \in {3, 4} : Shaped(d, kd) /\ Len(d) = kd /\ Starting(d)
  BY DigitsShape
<1>6. Starting(a) /\ Starting(b) /\ Starting(c)
  BY GroupShape, MaybeGroupShape
<1>7. a \in Seq(S) /\ b \in Seq(S) /\ c \in Seq(S) /\ d \in Seq(S)
  BY <1>2, <1>3, <1>4, <1>5 DEF Shaped
<1>8. w = abc \o d
  BY <1>1
<1>9. Starting(w)
  <2>1. Starting(ab)
    BY <1>6, StartingConcat
  <2>2. Starting(abc)
    BY <1>6, <2>1, StartingConcat
  <2> QED
    BY <1>5, <1>8, <2>2, StartingConcat
<1>10. /\ ab \in Seq(S) /\ Len(ab) = Len(a) + Len(b)
       /\ \A k \in 1 .. Len(a) : ab[k] = a[k]
       /\ \A k \in Len(a) + 1 .. Len(a) + Len(b) : ab[k] = b[k - Len(a)]
  BY <1>7, Appended
<1> HIDE DEF ab
<1>11. /\ abc \in Seq(S) /\ Len(abc) = Len(ab) + Len(c)
       /\ \A k \in 1 .. Len(ab) : abc[k] = ab[k]
       /\ \A k \in Len(ab) + 1 .. Len(ab) + Len(c) : abc[k] = c[k - Len(ab)]
  BY <1>7, <1>10, Appended
<1> HIDE DEF abc
<1>12. /\ w \in Seq(S) /\ Len(w) = Len(abc) + Len(d)
       /\ \A k \in 1 .. Len(abc) : w[k] = abc[k]
       /\ \A k \in Len(abc) + 1 .. Len(abc) + Len(d) : w[k] = d[k - Len(abc)]
  <2> DEFINE v == abc \o d
  <2>1. /\ v \in Seq(S) /\ Len(v) = Len(abc) + Len(d)
        /\ \A k \in 1 .. Len(abc) : v[k] = abc[k]
        /\ \A k \in Len(abc) + 1 .. Len(abc) + Len(d) : v[k] = d[k - Len(abc)]
    BY <1>7, <1>11, Appended
  <2> HIDE DEF v
  <2>2. w = v
    BY <1>8 DEF v
  <2> QED
    BY <2>1, <2>2
<1> DEFINE x == Len(a)
           y == Len(ab)
           z == Len(abc)
<1>13. /\ x \in Nat /\ y \in Nat /\ z \in Nat /\ x <= y /\ y <= z /\ z < Len(w)
       /\ w[1] = "d" /\ w[Len(w)] = "d"
  <2> DEFINE lb == Len(b)
             lc == Len(c)
             ld == Len(d)
             lw == Len(w)
  <2>1. x \in Nat /\ lb \in Nat /\ lc \in Nat /\ ld \in {3, 4}
    BY <1>5, <1>7
  <2>2. y = x + lb /\ z = y + lc /\ lw = z + ld
    BY <1>10, <1>11, <1>12
  <2> HIDE DEF lb, lc, ld, lw, x, y, z
  <2>3. x \in Nat /\ y \in Nat /\ z \in Nat /\ x <= y /\ y <= z /\ z < lw
    BY <2>1, <2>2
  <2>4. w # <<>> /\ Len(w) \in z + 1 .. z + Len(d) /\ Len(w) - z = Len(d)
    <3>1. lw \in z + 1 .. z + ld /\ lw - z = ld /\ lw # 0
      BY <2>1, <2>2, <2>3
    <3> QED
      BY <3>1, EmptySeq DEF ld, lw
  <2>5. w[Len(w)] = d[Len(d)] /\ d[Len(d)] = "d"
    <3>1. Len(d) \in 1 .. Len(d) /\ Len(d) <= kd
      BY <1>5
    <3>2. d[Len(d)] = "d"
      BY <1>5, <3>1 DEF Shaped
    <3> QED
      BY <1>12, <2>4, <3>2 DEF z
  <2> QED
    BY <1>9, <2>3, <2>4, <2>5 DEF Starting, lw
<1> HIDE DEF x, y, z
<1>14. ASSUME NEW k \in 1 .. Len(w)
       PROVE  /\ w[k] = "d" => \/ k <= x /\ k <= 4
                               \/ k > x /\ k <= y /\ k <= x + 4
                               \/ k > y /\ k <= z /\ k <= y + 4
                               \/ k > z /\ k <= z + 4
              /\ w[k] = "-" => k \in {x, y, z}
  <2>1. CASE k <= x
    <3>1. k \in 1 .. x /\ k \in 1 .. y /\ k \in 1 .. z
      BY <1>13, <2>1
    <3>2. w[k] = a[k]
      BY <1>10, <1>11, <1>12, <3>1 DEF x, y, z
    <3>3. (a[k] = "d" <=> k <= ka) /\ x \in ka .. ka + 1 /\ k \in Nat /\ ka \in 0 .. 4
      BY <1>2, <3>1 DEF Shaped, x
    <3> QED
      BY <1>13, <2>1, <3>2, <3>3
  <2>2. CASE k > x /\ k <= y
    <3>1. k \in x + 1 .. x + Len(b) /\ k \in 1 .. y /\ k \in 1 .. z
      BY <1>10, <1>13, <2>2 DEF x, y
    <3>2. w[k] = b[k - x] /\ k - x \in 1 .. Len(b)
      BY <1>7, <1>10, <1>11, <1>12, <1>13, <3>1 DEF x, y, z
    <3>3. (b[k - x] = "d" <=> k - x <= kb) /\ Len(b) \in kb .. kb + 1 /\ kb \in 0 .. 4
      BY <1>3, <3>2 DEF Shaped
    <3>4. y = x + Len(b)
      BY <1>10 DEF x, y
    <3> QED
      BY <1>13, <2>2, <3>2, <3>3, <3>4
  <2>3. CASE k > y /\ k <= z
    <3>1. k \in y + 1 .. y + Len(c) /\ k \in 1 .. z
      BY <1>11, <1>13, <2>3 DEF y, z
    <3>2. w[k] = c[k - y] /\ k - y \in 1 .. Len(c)
      BY <1>7, <1>11, <1>12, <1>13, <3>1 DEF y, z
    <3>3. (c[k - y] = "d" <=> k - y <= kc) /\ Len(c) \in kc .. kc + 1 /\ kc \in 0 .. 4
      BY <1>4, <3>2 DEF Shaped
    <3>4. z = y + Len(c)
      BY <1>11 DEF y, z
    <3> QED
      BY <1>13, <2>3, <3>2, <3>3, <3>4
  <2>4. CASE k > z
    <3>1. k \in z + 1 .. z + Len(d)
      BY <1>12, <1>13, <2>4 DEF z
    <3>2. w[k] = d[k - z] /\ k - z \in 1 .. Len(d)
      BY <1>7, <1>12, <1>13, <3>1 DEF z
    <3>3. d[k - z] = "d" /\ k - z <= 4
      BY <1>5, <3>2 DEF Shaped
    <3> QED
      BY <1>13, <2>4, <3>2, <3>3
  <2> QED
    BY <1>13, <2>1, <2>2, <2>3, <2>4
<1> QED
  BY <1>12, <1>13, <1>14 DEF Parts

(* What the Aadhaar and the phone pattern fit starts and ends in a digit.  *)
Bounded(w) ==
  w \in Seq({"d", "-"}) /\ w # <<>> /\ w[1] = "d" /\ w[Len(w)] = "d"

LEMMA AadhaarBounded ==
  ASSUME NEW w \in _AADHAAR
  PROVE  Bounded(w)
<1>1. PICK a \in Group(4, 4), b \in Group(4, 4), c \in {Digits(4)} : w = a \o b \o c
  BY DEF _AADHAAR
<1> DEFINE ab == a \o b
<1>2. Starting(a) /\ Starting(b)
  BY GroupShape
<1>3. Shaped(c, 4) /\ Len(c) = 4 /\ Starting(c)
  BY DigitsShape
<1>4. c \in Seq({"d", "-"}) /\ c[4] = "d"
  BY <1>3 DEF Shaped
<1>5. Starting(ab)
  BY <1>2, StartingConcat
<1>6. w = ab \o c
  BY <1>1
<1>7. Starting(ab \o c)
  <2>1. Starting(c)
    BY <1>3
  <2> QED
    BY <1>5, <2>1, StartingConcat
<1> HIDE DEF ab
<1>8. ab \in Seq({"d", "-"})
  BY <1>5 DEF Starting
<1> DEFINE v == ab \o c
           l == Len(ab)
           m == Len(c)
<1>9. Len(v) = l + m /\ \A k \in l + 1 .. l + m : v[k] = c[k - l]
  BY <1>4, <1>8, Appended
<1>10. l \in Nat /\ m = 4
  BY <1>3, <1>8
<1>11. v = w
  BY <1>6
<1> HIDE DEF v, l, m
<1>12. l + m \in l + 1 .. l + m /\ (l + m) - l = 4 /\ l + m # 0
  BY <1>10
<1>13. v[Len(v)] = "d" /\ Len(v) # 0
  <2>1. v[l + m] = c[(l + m) - l]
    BY <1>9, <1>12
  <2>2. v[l + m] = "d"
    BY <1>4, <1>12, <2>1
  <2> QED
    BY <1>9, <1>12, <2>2, Zenon
<1>14. v # <<>>
  BY <1>13, EmptySeq
<1> QED
  <2>1. Starting(v)
    BY <1>7 DEF v
  <2> QED
    BY <1>11, <1>13, <1>14, <2>1 DEF Bounded, Starting

LEMMA PhoneBounded ==
  ASSUME NEW w \in _PHONE
  PROVE  Bounded(w)
<1>1. PICK x, y, z : Parts(w, x, y, z)
  BY PhoneParts
<1>2. w # <<>>
  BY <1>1, EmptySeq DEF Parts
<1> QED
  BY <1>1, <1>2 DEF Parts, Bounded

InFours(D, x, y, z) == D \subseteq (x .. x + 3) \cup (y .. y + 3) \cup (z .. z + 3)

LEMMA ThreeFours ==
  ASSUME NEW x \in Int, NEW y \in Int, NEW z \in Int, NEW D,
         InFours(D, x, y, z)
  PROVE  Cardinality(D) \in 0 .. 12
<1> DEFINE X == x .. x + 3
           Y == y .. y + 3
           Z == z .. z + 3
<1>1. /\ IsFiniteSet(X) /\ Cardinality(X) = 4
      /\ IsFiniteSet(Y) /\ Cardinality(Y) = 4
      /\ IsFiniteSet(Z) /\ Cardinality(Z) = 4
  BY FS_Interval
<1> HIDE DEF X, Y, Z
<1>2. /\ IsFiniteSet(X \cup Y)
      /\ Cardinality(X \cup Y) = Cardinality(X) + Cardinality(Y) - Cardinality(X \cap Y)
      /\ Cardinality(X \cap Y) \in Nat
  BY <1>1, FS_Union, FS_Intersection, FS_CardinalityType
<1> DEFINE XY == X \cup Y
<1>3. IsFiniteSet(XY) /\ Cardinality(XY) \in Nat /\ Cardinality(XY) <= 8
  BY <1>1, <1>2, FS_CardinalityType
<1> HIDE DEF XY
<1>4. /\ IsFiniteSet(XY \cup Z)
      /\ Cardinality(XY \cup Z) = Cardinality(XY) + Cardinality(Z) - Cardinality(XY \cap Z)
      /\ Cardinality(XY \cap Z) \in Nat
  BY <1>1, <1>3, FS_Union, FS_Intersection, FS_CardinalityType
<1>5. Cardinality(XY \cup Z) \in Nat /\ Cardinality(XY \cup Z) <= 12
  BY <1>1, <1>3, <1>4, FS_CardinalityType
<1>6. D \in SUBSET (XY \cup Z)
  BY DEF XY, X, Y, Z, InFours
<1>7. IsFiniteSet(D) /\ Cardinality(D) <= Cardinality(XY \cup Z)
  BY <1>4, <1>6, FS_Subset
<1>8. Cardinality(D) \in Nat
  BY <1>7, FS_CardinalityType
<1> QED
  BY <1>5, <1>7, <1>8

(* No card number hides in a phone number: at a word boundary inside a     *)
(* phone number one of its groups starts or ends, and the digits of three  *)
(* groups are not enough.                                                  *)
LEMMA PhoneHoldsNoCard ==
  ASSUME NEW n, IsPhone(n, 1, Len(n)), n \in Seq({"d", "-"}),
         NEW i \in 1 .. Len(n), NEW j \in i .. Len(n), IsCard(n, i, j)
  PROVE  i = 1 /\ j = Len(n)
<1>1. n \in _PHONE
  <2>1. SubSeq(n, 1, Len(n)) = n
    BY SubSeqFull
  <2> QED
    BY <2>1 DEF IsPhone
<1>2. PICK x, y, z : Parts(n, x, y, z)
  BY <1>1, PhoneParts
<1> DEFINE s == SubSeq(n, i, j)
           m == Len(n)
           D == {k \in DOMAIN s : s[k] = "d"}
<1>3. PICK count \in 13 .. 19 : count = Cardinality(D)
  BY DEF IsCard, Count
<1>4. m \in Nat /\ i \in Int /\ j \in Int /\ i >= 1 /\ j <= m /\ i <= j
  OBVIOUS
<1>5. D \subseteq {k \in 1 .. j - i + 1 : n[i + k - 1] = "d"}
  <2>1. s \in Seq({"d", "-"}) /\ Len(s) = j - i + 1
        /\ \A k \in 1 .. j - i + 1 : s[k] = n[i + k - 1]
    <3>1. \A k \in i .. j : n[k] \in {"d", "-"}
      BY <1>4
    <3> QED
      BY <1>4, <3>1, SubSeqProperties
  <2> HIDE DEF s
  <2>2. DOMAIN s = 1 .. j - i + 1
    BY <2>1
  <2> QED
    BY <2>1, <2>2
<1> HIDE DEF D, s
<1>6. /\ x \in Nat /\ y \in Nat /\ z \in Nat /\ x <= y /\ y <= z /\ z < m
      /\ \A k \in 1 .. m : n[k] = "d" => \/ k <= x /\ k <= 4
                                         \/ k > x /\ k <= y /\ k <= x + 4
                                         \/ k > y /\ k <= z /\ k <= y + 4
                                         \/ k > z /\ k <= z + 4
      /\ \A k \in 1 .. m : n[k] = "-" => k \in {x, y, z}
  BY <1>2 DEF Parts
<1>7. \A k \in 1 .. m : n[k] = "d" \/ n[k] = "-"
  BY <1>4
<1>8. ASSUME NEW k \in 2 .. m, Edge(n, k) PROVE k - 1 \in {x, y, z} \/ k \in {x, y, z}
  <2>1. k \in 1 .. m /\ k - 1 \in 1 .. m
    BY <1>4
  <2>2. n[k] = "-" \/ n[k - 1] = "-"
    BY <1>7, <1>8, <2>1 DEF Edge, Word
  <2> QED
    BY <1>6, <2>1, <2>2
<1>9. n[i] = "d" /\ Edge(n, i) /\ Edge(n, j + 1)
  BY <1>4 DEF IsCard
<1>10. CASE i # 1
  <2>1. i - 1 >= x
    <3>1. i \in 2 .. m /\ i \in 1 .. m /\ i - 1 \in 1 .. m
      BY <1>4, <1>10
    <3>2. n[i - 1] = "-"
      BY <1>7, <1>9, <3>1 DEF Edge, Word
    <3> QED
      BY <1>6, <3>1, <3>2
  <2> DEFINE X == x + 2 - i
             Y == y + 2 - i
             Z == z + 2 - i
  <2>2. InFours(D, X, Y, Z)
    <3> SUFFICES ASSUME NEW k \in D
                 PROVE  k \in X .. X + 3 \/ k \in Y .. Y + 3 \/ k \in Z .. Z + 3
      BY DEF InFours
    <3>1. k \in 1 .. j - i + 1 /\ n[i + k - 1] = "d"
      BY <1>5
    <3>2. i + k - 1 \in 1 .. m /\ i + k - 1 > x
      BY <1>4, <1>6, <2>1, <3>1
    <3> DEFINE r == i + k - 1
    <3>3. \/ r > x /\ r <= x + 4
          \/ r > y /\ r <= y + 4
          \/ r > z /\ r <= z + 4
      BY <1>6, <3>1, <3>2
    <3> QED
      BY <1>4, <1>6, <3>1, <3>2, <3>3
  <2>3. X \in Int /\ Y \in Int /\ Z \in Int
    BY <1>4, <1>6
  <2> HIDE DEF X, Y, Z
  <2>4. count \in 0 .. 12
    BY <1>3, <2>2, <2>3, ThreeFours
  <2> QED
    BY <2>4
<1>11. CASE i = 1 /\ j # m
  <2>1. j <= z
    <3>1. j + 1 \in 2 .. m
      BY <1>4, <1>11
    <3>2. j \in {x, y, z} \/ j + 1 \in {x, y, z}
      BY <1>4, <1>8, <1>9, <3>1
    <3> QED
      BY <1>4, <1>6, <3>2
  <2> DEFINE X == 1
             Y == x + 1
             Z == y + 1
  <2>2. InFours(D, X, Y, Z)
    <3> SUFFICES ASSUME NEW k \in D
                 PROVE  k \in X .. X + 3 \/ k \in Y .. Y + 3 \/ k \in Z .. Z + 3
      BY DEF InFours
    <3>1. k \in 1 .. j - i + 1 /\ n[i + k - 1] = "d"
      BY <1>5
    <3>2. k \in 1 .. m /\ k <= z /\ i + k - 1 = k
      BY <1>4, <1>6, <1>11, <2>1, <3>1
    <3>3. \/ k <= 4
          \/ k > x /\ k <= x + 4
          \/ k > y /\ k <= y + 4
      BY <1>6, <3>1, <3>2
    <3> QED
      BY <1>6, <3>2, <3>3
  <2>3. X \in Int /\ Y \in Int /\ Z \in Int
    BY <1>6
  <2> HIDE DEF X, Y, Z
  <2>4. count \in 0 .. 12
    BY <1>3, <2>2, <2>3, ThreeFours
  <2> QED
    BY <2>4
<1> QED
  BY <1>10, <1>11
-----------------------------------------------------------------------------
(* A number in a text.                                                     *)

(* The number n stands in t by itself, behind p characters.                *)
Stands(t, n, p) ==
  /\ t \in Seq(Chars) /\ n \in Seq({"d", "-"}) /\ p \in Nat /\ p + Len(n) <= Len(t)
  /\ \A k \in 1 .. Len(n) : t[p + k] = n[k]
  /\ \A k \in 1 .. Len(t) : k \notin p + 1 .. p + Len(n) => t[k] \in {"x", "-"}
  /\ ~Word(t, p) /\ ~Word(t, p + Len(n) + 1)

LEMMA NumberStands ==
  ASSUME NEW b \in Before, NEW n \in Numbers, NEW a \in After
  PROVE  Stands(b \o n \o a, n, Len(b))
<1> DEFINE v == b \o n
           t == v \o a
           p == Len(b)
           m == Len(n)
           l == Len(a)
<1>1. /\ b \in Seq({"x", "-"}) /\ b \in Seq(Chars) /\ (b # <<>> => b[p] # "x")
      /\ a \in Seq({"x", "-"}) /\ a \in Seq(Chars) /\ (a # <<>> => a[1] # "x")
      /\ n \in Seq({"d", "-"}) /\ n \in Seq(Chars)
  <2>1. {"x", "-"} \subseteq Chars /\ {"d", "-"} \subseteq Chars
    BY DEF Chars
  <2>2. b \in Seq({"x", "-"}) /\ a \in Seq({"x", "-"}) /\ n \in Seq({"d", "-"})
    BY NumbersAssumption, BeforeAssumption, AfterAssumption
  <2>3. b \in Seq(Chars) /\ a \in Seq(Chars) /\ n \in Seq(Chars)
    BY <2>1, <2>2, SeqMonotonic
  <2> QED
    BY <2>2, <2>3, BeforeAssumption, AfterAssumption
<1>2. p \in Nat /\ m \in Nat /\ l \in Nat
  BY <1>1
<1>3. v \in Seq(Chars) /\ Len(v) = p + m
  BY <1>1, ConcatProperties
<1>4. \A k \in 1 .. p + m : v[k] = IF k <= p THEN b[k] ELSE n[k - p]
  BY <1>1, ConcatProperties
<1> HIDE DEF v
<1>5. t \in Seq(Chars) /\ Len(t) = Len(v) + l
  BY <1>1, <1>3, ConcatProperties
<1>6. \A k \in 1 .. Len(v) + l : t[k] = IF k <= Len(v) THEN v[k] ELSE a[k - Len(v)]
  BY <1>1, <1>3, ConcatProperties
<1> HIDE DEF t
<1>7. DOMAIN t = 1 .. p + m + l /\ Len(t) = p + m + l
  BY <1>2, <1>3, <1>5
<1>8. \A k \in 1 .. p + m + l :
        t[k] = IF k <= p THEN b[k] ELSE IF k <= p + m THEN n[k - p] ELSE a[k - (p + m)]
  <2>1. \A k \in 1 .. p + m + l : k <= p + m => k \in 1 .. p + m
    BY <1>2
  <2>2. \A k \in 1 .. p + m + l : k <= p => k <= p + m
    BY <1>2
  <2> QED
    BY <1>2, <1>3, <1>4, <1>6, <2>1, <2>2
<1>9. \A k \in 1 .. p : b[k] \in {"x", "-"}
  BY <1>1
<1>10. \A k \in 1 .. l : a[k] \in {"x", "-"}
  BY <1>1
<1>11. (p # 0 => b[p] = "-") /\ (l # 0 => a[1] = "-")
  <2>1. p # 0 => b # <<>> /\ p \in 1 .. p
    BY <1>1, <1>2, EmptySeq
  <2>2. l # 0 => a # <<>> /\ 1 \in 1 .. l
    BY <1>1, <1>2, EmptySeq
  <2> QED
    BY <1>1, <1>9, <1>10, <2>1, <2>2
<1> HIDE DEF p, m, l
<1>12. \A k \in 1 .. m : t[p + k] = n[k]
  <2> SUFFICES ASSUME NEW k \in 1 .. m PROVE t[p + k] = n[k]
    OBVIOUS
  <2>1. p + k \in 1 .. p + m + l /\ ~(p + k <= p) /\ p + k <= p + m /\ (p + k) - p = k
    BY <1>2
  <2> QED
    BY <1>8, <2>1
<1>13. \A k \in 1 .. p + m + l : k \notin p + 1 .. p + m => t[k] \in {"x", "-"}
  <2> SUFFICES ASSUME NEW k \in 1 .. p + m + l, k \notin p + 1 .. p + m
               PROVE  t[k] \in {"x", "-"}
    OBVIOUS
  <2>1. CASE k <= p
    BY <1>2, <1>8, <1>9, <2>1
  <2>2. CASE ~(k <= p)
    <3>1. ~(k <= p + m) /\ k - (p + m) \in 1 .. l
      BY <1>2, <2>2
    <3>2. t[k] = a[k - (p + m)]
      BY <1>8, <2>2, <3>1
    <3> QED
      BY <1>10, <3>1, <3>2
  <2> QED
    BY <2>1, <2>2
<1>14. ~Word(t, p)
  <2>1. CASE p = 0
    BY <1>2, <1>7, <2>1 DEF Word
  <2>2. CASE p # 0
    <3>1. p \in 1 .. p + m + l /\ p <= p
      BY <1>2, <2>2
    <3> QED
      BY <1>8, <1>11, <2>2, <3>1 DEF Word
  <2> QED
    BY <2>1, <2>2
<1>15. ~Word(t, p + m + 1)
  <2>1. CASE l = 0
    BY <1>2, <1>7, <2>1 DEF Word
  <2>2. CASE l # 0
    <3> DEFINE k == p + m + 1
    <3>1. k \in 1 .. p + m + l /\ ~(k <= p) /\ ~(k <= p + m) /\ k - (p + m) = 1
      BY <1>2, <2>2
    <3>2. t[k] = a[1]
      BY <1>8, <3>1
    <3> QED
      BY <1>11, <2>2, <3>2 DEF Word
  <2> QED
    BY <2>1, <2>2
<1>16. p + m <= Len(t)
  BY <1>2, <1>7
<1> QED
  BY <1>1, <1>2, <1>5, <1>7, <1>12, <1>13, <1>14, <1>15, <1>16 DEF Stands, t, v, p, m

(* Its word boundaries are those it has by itself.                         *)
LEMMA EdgesInside ==
  ASSUME NEW t, NEW n, NEW p, Stands(t, n, p), NEW k \in 1 .. Len(n) + 1
  PROVE  Edge(t, p + k) <=> Edge(n, k)
<1> DEFINE m == Len(n)
<1>1. /\ p \in Nat /\ m \in Nat /\ Len(t) \in Nat /\ p + m <= Len(t)
      /\ DOMAIN t = 1 .. Len(t) /\ DOMAIN n = 1 .. m
      /\ \A i \in 1 .. m : t[p + i] = n[i]
  BY DEF Stands
<1>2. ~Word(t, p) /\ ~Word(t, p + m + 1) /\ ~Word(n, 0) /\ ~Word(n, m + 1)
  BY <1>1 DEF Stands, Word
<1> HIDE DEF m
<1>3. ASSUME NEW i \in 0 .. m + 1 PROVE Word(t, p + i) <=> Word(n, i)
  <2>1. CASE i \in 1 .. m
    <3>1. p + i \in 1 .. Len(t)
      BY <1>1, <2>1
    <3> QED
      BY <1>1, <2>1, <3>1 DEF Word
  <2>2. CASE i = 0
    BY <1>1, <1>2, <2>2
  <2>3. CASE i = m + 1
    <3>1. p + i = p + m + 1
      BY <1>1, <2>3
    <3> QED
      BY <1>2, <2>3, <3>1
  <2> QED
    BY <1>1, <2>1, <2>2, <2>3
<1>4. k \in 0 .. m + 1 /\ k - 1 \in 0 .. m + 1 /\ (p + k) - 1 = p + (k - 1)
  BY <1>1 DEF m
<1>5. /\ Word(t, p + k) <=> Word(n, k)
      /\ Word(t, (p + k) - 1) <=> Word(n, k - 1)
  BY <1>3, <1>4
<1>6. \A u, i : Word(u, i) \in BOOLEAN
  BY DEF Word
<1> QED
  BY <1>5, <1>6 DEF Edge

(* What a pattern fits inside the number, it fits in the number by itself. *)
LEMMA FitsInside ==
  ASSUME NEW t, NEW n, NEW p, Stands(t, n, p), NEW f \in 1 .. 3,
         NEW i \in 1 .. Len(n), NEW j \in i .. Len(n)
  PROVE  Fits(f, t, p + i, p + j) <=> Fits(f, n, i, j)
<1> DEFINE m == Len(n)
<1>1. /\ p \in Nat /\ m \in Nat
      /\ (p + j) + 1 = p + (j + 1) /\ i \in 1 .. m + 1 /\ j + 1 \in 1 .. m + 1
      /\ \A l \in 1 .. m : t[p + l] = n[l]
  BY DEF Stands
<1>2. ASSUME NEW l \in 1 .. m + 1 PROVE Edge(t, p + l) <=> Edge(n, l)
  BY EdgesInside, Zenon
<1>3. /\ Edge(t, p + i) <=> Edge(n, i)
      /\ Edge(t, (p + j) + 1) <=> Edge(n, j + 1)
  BY <1>1, <1>2
<1>4. SubSeq(t, p + i, p + j) = SubSeq(n, i, j)
  <2> DEFINE u == SubSeq(t, p + i, p + j)
             w == SubSeq(n, i, j)
  <2>1. /\ p \in Nat /\ m \in Nat /\ Len(t) \in Nat /\ p + m <= Len(t)
        /\ t \in Seq(Chars) /\ n \in Seq(Chars) /\ \A k \in 1 .. m : t[p + k] = n[k]
    <3>1. {"d", "-"} \subseteq Chars
      BY DEF Chars
    <3>2. n \in Seq({"d", "-"})
      BY DEF Stands
    <3>3. n \in Seq(Chars)
      BY <3>1, <3>2, SeqMonotonic
    <3> QED
      BY <3>3 DEF Stands
  <2>2. /\ p + i \in Int /\ p + j \in Int /\ p + i <= p + j /\ (p + j) - (p + i) = j - i
        /\ \A k \in p + i .. p + j : t[k] \in Chars
    BY <2>1
  <2>3. u \in Seq(Chars) /\ Len(u) = j - i + 1
        /\ \A k \in 1 .. j - i + 1 : u[k] = t[p + i + k - 1]
    <3>1. /\ u \in Seq(Chars) /\ Len(u) = (p + j) - (p + i) + 1
          /\ \A k \in 1 .. (p + j) - (p + i) + 1 : u[k] = t[p + i + k - 1]
      BY <2>2, SubSeqProperties
    <3> QED
      BY <2>2, <3>1
  <2>4. w \in Seq(Chars) /\ Len(w) = j - i + 1
        /\ \A k \in 1 .. j - i + 1 : w[k] = n[i + k - 1]
    <3>1. i \in Int /\ j \in Int /\ i <= j /\ \A k \in i .. j : n[k] \in Chars
      BY <2>1
    <3> QED
      BY <3>1, SubSeqProperties
  <2> HIDE DEF u, w
  <2>5. ASSUME NEW k \in 1 .. j - i + 1 PROVE u[k] = w[k]
    <3>1. i + k - 1 \in 1 .. m /\ p + (i + k - 1) = p + i + k - 1
      BY <2>1
    <3> QED
      BY <2>1, <2>3, <2>4, <3>1
  <2> QED
    BY <2>3, <2>4, <2>5, SeqEqual DEF u, w
<1>5. IsAadhaar(t, p + i, p + j) <=> IsAadhaar(n, i, j)
  BY <1>3, <1>4 DEF IsAadhaar
<1>6. IsPhone(t, p + i, p + j) <=> IsPhone(n, i, j)
  BY <1>3, <1>4 DEF IsPhone
<1>7. IsCard(t, p + i, p + j) <=> IsCard(n, i, j)
  <2> DEFINE Alt(u, from, l) == u[l] = "d" \/ (u[l] = "-" /\ l > from /\ u[l - 1] = "d")
  <2>1. ASSUME NEW l \in i .. j PROVE Alt(t, p + i, p + l) <=> Alt(n, i, l)
    <3>1. l \in 1 .. m /\ t[p + l] = n[l] /\ (p + l > p + i <=> l > i)
      BY <1>1
    <3>2. l > i => l - 1 \in 1 .. m /\ (p + l) - 1 = p + (l - 1)
      BY <1>1
    <3>3. l > i => t[(p + l) - 1] = n[l - 1]
      BY <1>1, <3>2
    <3> QED
      BY <3>1, <3>3
  <2>2. (\A l \in p + i .. p + j : Alt(t, p + i, l)) <=> \A l \in i .. j : Alt(n, i, l)
    <3> HIDE DEF Alt
    <3>1. \A l \in p + i .. p + j : l - p \in i .. j /\ p + (l - p) = l
      BY <1>1
    <3>2. \A l \in i .. j : p + l \in p + i .. p + j
      BY <1>1
    <3> QED
      BY <2>1, <3>1, <3>2
  <2> QED
    BY <1>3, <1>4, <2>2 DEF IsCard
<1> QED
  BY <1>5, <1>6, <1>7 DEF Fits

(* Every match starts at a digit and all but those of a card end at one.   *)
LEMMA MatchBounded ==
  ASSUME NEW t \in Seq(Chars), NEW k \in 1 .. 3, NEW i \in 1 .. Len(t),
         NEW j \in Ends(k, t, i)
  PROVE  t[i] = "d" /\ (k # 2 => t[j] = "d")
<1> DEFINE w == SubSeq(t, i, j)
<1>1. /\ i \in Int /\ j \in Int /\ i <= j /\ i \in 1 .. Len(t) /\ j \in i .. Len(t)
      /\ \A l \in i .. j : t[l] \in Chars
  BY DEF Ends
<1>2. Len(w) = j - i + 1 /\ \A l \in 1 .. j - i + 1 : w[l] = t[i + l - 1]
  BY <1>1, SubSeqProperties
<1>3. Fits(k, t, i, j)
  BY DEF Ends
<1>4. CASE k = 2
  <2>1. t[i] = "d"
    BY <1>1, <1>3, <1>4 DEF Fits, IsCard
  <2> QED
    BY <1>4, <2>1
<1>5. CASE k # 2
  <2>1. w \in _AADHAAR \/ w \in _PHONE
    <3>1. CASE k = 1
      BY <1>3, <3>1 DEF Fits, IsAadhaar
    <3>2. CASE k = 3
      BY <1>3, <3>2 DEF Fits, IsPhone
    <3> QED
      BY <1>5, <3>1, <3>2
  <2>2. Bounded(w)
    BY <2>1, AadhaarBounded, PhoneBounded
  <2> HIDE DEF w
  <2>3. /\ 1 \in 1 .. j - i + 1 /\ j - i + 1 \in 1 .. j - i + 1
        /\ i + 1 - 1 = i /\ i + (j - i + 1) - 1 = j
    BY <1>1
  <2>4. w[1] = t[i] /\ w[j - i + 1] = t[j]
    BY <1>2, <2>3
  <2>5. w[1] = "d" /\ w[Len(w)] = "d"
    BY <2>2 DEF Bounded
  <2>6. Len(w) = j - i + 1
    BY <1>2
  <2> QED
    BY <2>4, <2>5, <2>6, Zenon
<1> QED
  BY <1>4, <1>5

(* So they start inside the number, and all but those of a card end there. *)
LEMMA MatchInside ==
  ASSUME NEW t, NEW n, NEW p, Stands(t, n, p), NEW k \in 1 .. 3,
         NEW i \in 1 .. Len(t), NEW j \in Ends(k, t, i)
  PROVE  i \in p + 1 .. p + Len(n) /\ (k # 2 => j \in p + 1 .. p + Len(n))
<1>1. t \in Seq(Chars)
  BY DEF Stands
<1>2. t[i] = "d" /\ (k # 2 => t[j] = "d")
  BY <1>1, MatchBounded
<1>3. j \in 1 .. Len(t)
  BY <1>1 DEF Ends
<1> QED
  BY <1>2, <1>3 DEF Stands

LEMMA NoDigitNoMatch ==
  ASSUME NEW t \in Seq(Chars), NEW k \in 1 .. 3, NEW i \in 1 .. Len(t), t[i] # "d"
  PROVE  Ends(k, t, i) = {}
BY MatchBounded

(* A card's match may take one separator behind the number with it, and    *)
(* fits the number by itself.                                              *)
LEMMA CardReaches ==
  ASSUME NEW t, NEW n, NEW p, Stands(t, n, p),
         NEW i \in 1 .. Len(n), NEW j \in Ends(2, t, p + i)
  PROVE  \/ j \in p + i .. p + Len(n) /\ IsCard(n, i, j - p)
         \/ j = p + Len(n) + 1 /\ IsCard(n, i, Len(n))
<1> DEFINE m == Len(n)
<1>1. /\ p \in Nat /\ m \in Nat /\ p + m <= Len(t) /\ t \in Seq(Chars) /\ Len(t) \in Nat
      /\ \A k \in 1 .. m : t[p + k] = n[k]
      /\ \A k \in 1 .. Len(t) : k \notin p + 1 .. p + m => t[k] # "d"
      /\ DOMAIN t = 1 .. Len(t)
  BY DEF Stands
<1>2. j \in p + i .. Len(t) /\ IsCard(t, p + i, j)
  BY DEF Ends, Fits
<1>3. CASE j <= p + m
  <2>1. j - p \in i .. m /\ p + (j - p) = j
    BY <1>1, <1>2, <1>3
  <2>2. Fits(2, t, p + i, p + (j - p)) <=> Fits(2, n, i, j - p)
    BY <2>1, FitsInside
  <2>3. IsCard(n, i, j - p)
    BY <1>2, <2>1, <2>2 DEF Fits
  <2> QED
    BY <1>1, <1>2, <1>3, <2>3
<1>4. CASE j > p + m
  <2>1. \A k \in p + i .. j : t[k] = "d" \/ (t[k] = "-" /\ k > p + i /\ t[k - 1] = "d")
    BY <1>2 DEF IsCard
  <2> DEFINE e == p + m + 1
  <2>2. e \in p + i .. j /\ e \in 1 .. Len(t) /\ e - 1 = p + m /\ p + m \in p + i .. j
    BY <1>1, <1>2, <1>4
  <2>3. t[e] = "-" /\ t[p + m] = "d"
    BY <1>1, <2>1, <2>2
  <2>4. j = e
    <3> SUFFICES ASSUME j # e PROVE FALSE
      OBVIOUS
    <3>1. e + 1 \in p + i .. j /\ e + 1 \in 1 .. Len(t) /\ e + 1 \notin p + 1 .. p + m
          /\ (e + 1) - 1 = e
      BY <1>1, <1>2, <1>4
    <3>2. t[e + 1] # "d"
      BY <1>1, <3>1
    <3>3. t[e] = "d"
      BY <2>1, <3>1, <3>2
    <3> QED
      BY <2>3, <3>3
  <2>5. IsCard(t, p + i, p + m)
    <3>1. Edge(t, (p + m) + 1)
      BY <1>1, <2>2, <2>3 DEF Edge, Word
    <3>2. \A k \in p + i .. p + m : k \in p + i .. j
      BY <1>1, <1>2, <1>4
    <3> DEFINE w == SubSeq(t, p + i, p + m)
               v == SubSeq(t, p + i, j)
    <3>3. {k \in DOMAIN w : w[k] = "d"} = {k \in DOMAIN v : v[k] = "d"}
      <4>1. /\ p + i \in Int /\ p + m \in Int /\ j \in Int /\ p + i <= p + m /\ p + i <= j
            /\ \A k \in p + i .. j : t[k] \in Chars
        BY <1>1, <1>2
      <4>2. w \in Seq(Chars) /\ Len(w) = (p + m) - (p + i) + 1
            /\ \A k \in 1 .. (p + m) - (p + i) + 1 : w[k] = t[(p + i) + k - 1]
        BY <3>2, <4>1, SubSeqProperties
      <4>3. v \in Seq(Chars) /\ Len(v) = j - (p + i) + 1
            /\ \A k \in 1 .. j - (p + i) + 1 : v[k] = t[(p + i) + k - 1]
        BY <4>1, SubSeqProperties
      <4> HIDE DEF w, v
      <4> DEFINE l == m - i + 1
      <4>4. /\ l \in Nat /\ (p + m) - (p + i) + 1 = l /\ j - (p + i) + 1 = l + 1
            /\ (p + i) + (l + 1) - 1 = j
        BY <1>1, <2>4
      <4> HIDE DEF l
      <4>5. DOMAIN w = 1 .. l /\ DOMAIN v = 1 .. l + 1
        BY <4>2, <4>3, <4>4
      <4>6. \A k \in 1 .. l : k \in 1 .. l + 1 /\ w[k] = v[k]
        BY <4>2, <4>3, <4>4
      <4>7. v[l + 1] = "-"
        BY <2>3, <2>4, <4>3, <4>4
      <4>8. \A k \in 1 .. l + 1 : k \in 1 .. l \/ k = l + 1
        BY <4>4
      <4> QED
        BY <4>5, <4>6, <4>7, <4>8
    <3>4. Count(w, "d") = Count(v, "d")
      BY <3>3 DEF Count
    <3> QED
      BY <1>2, <2>1, <3>1, <3>2, <3>4 DEF IsCard
  <2>6. Fits(2, t, p + i, p + m) <=> Fits(2, n, i, m)
    BY <1>1, FitsInside
  <2> QED
    BY <2>4, <2>5, <2>6 DEF Fits
<1> QED
  BY <1>1, <1>2, <1>3, <1>4
-----------------------------------------------------------------------------
(* The passes.                                                             *)

LEMMA NumberNotEmpty ==
  ASSUME NEW n \in Seq({"d", "-"}), IsNumber(n)
  PROVE  Len(n) \in Nat /\ Len(n) >= 1
<1> SUFFICES ASSUME n = <<>> PROVE FALSE
  BY EmptySeq
<1>1. SubSeq(n, 1, Len(n)) = <<>>
  BY SubSeqFull
<1>2. Count(<<>>, "d") = 0
  <2>1. {i \in DOMAIN <<>> : <<>>[i] = "d"} = {}
    OBVIOUS
  <2> QED
    BY <2>1, FS_EmptySet DEF Count
<1>3. ~IsCard(n, 1, Len(n))
  <2>1. 0 \notin 13 .. 19
    OBVIOUS
  <2> QED
    BY <1>1, <1>2, <2>1, Zenon DEF IsCard
<1>4. <<>> \in _AADHAAR \/ <<>> \in _PHONE
  BY <1>1, <1>3 DEF IsNumber, IsAadhaar, IsPhone
<1> QED
  BY <1>4, AadhaarBounded, PhoneBounded DEF Bounded

(* A pattern that fits the whole number tags it.                           *)
LEMMA WholeIsTagged ==
  ASSUME NEW t, NEW n, NEW p, Stands(t, n, p), Len(n) >= 1,
         NEW k \in 1 .. 3, Fits(k, n, 1, Len(n))
  PROVE  Count(Sub(k, t), "d") = 0 /\ Count(Sub(k, t), "#") = 1
<1> DEFINE m == Len(n)
           i == p + 1
           q == Max(Ends(k, t, i))
           u == Then(t, 1, i, <<"#">> \o SubSeq(t, q + 1, Len(t)))
<1>1. /\ t \in Seq(Chars) /\ p \in Nat /\ m \in Nat /\ m >= 1 /\ p + m <= Len(t)
      /\ Len(t) \in Nat
  BY DEF Stands
<1>2. i \in 1 .. Len(t) /\ p + m \in i .. Len(t) /\ 1 \in 1 .. m /\ m \in 1 .. m
  BY <1>1
<1>3. p + m \in Ends(k, t, i)
  <2>1. Fits(k, t, p + 1, p + m) <=> Fits(k, n, 1, m)
    BY <1>2, FitsInside
  <2> QED
    BY <1>2, <2>1 DEF Ends
<1>4. q \in Ends(k, t, i) /\ q \in i .. Len(t) /\ p + m <= q
  BY <1>1, <1>2, <1>3, LongestMatch
<1>5. \A l \in 1 .. Len(t) : l \notin i .. p + m => Ends(k, t, l) = {} /\ t[l] \notin {"d", "#"}
  <2> SUFFICES ASSUME NEW l \in 1 .. Len(t), l \notin i .. p + m
               PROVE  Ends(k, t, l) = {} /\ t[l] \notin {"d", "#"}
    OBVIOUS
  <2>1. t[l] \notin {"d", "#"}
    BY DEF Stands
  <2> QED
    BY <1>1, <2>1, NoDigitNoMatch
<1>6. NoneFits(k, t, 1 .. i - 1) /\ NoneFits(k, t, q + 1 .. Len(t))
  <2>1. \A l \in (1 .. i - 1) \cup (q + 1 .. Len(t)) : l \in 1 .. Len(t) /\ l \notin i .. p + m
    BY <1>1, <1>2, <1>4
  <2> QED
    BY <1>5, <2>1 DEF NoneFits
<1>7. \A l \in 1 .. Len(t) : t[l] # "#" /\ (t[l] = "d" => l \in i .. q)
  <2> SUFFICES ASSUME NEW l \in 1 .. Len(t)
               PROVE  t[l] # "#" /\ (t[l] = "d" => l \in i .. q)
    OBVIOUS
  <2>1. CASE l \in i .. p + m
    <3>1. l - p \in 1 .. m /\ p + (l - p) = l /\ l \in i .. q
      BY <1>1, <1>2, <1>4, <2>1
    <3>2. n \in Seq({"d", "-"}) /\ \A r \in 1 .. m : t[p + r] = n[r]
      BY DEF Stands
    <3>3. t[p + (l - p)] = n[l - p] /\ n[l - p] \in {"d", "-"}
      BY <3>1, <3>2
    <3> QED
      BY <3>1, <3>3
  <2>2. CASE l \notin i .. p + m
    BY <1>5, <2>2
  <2> QED
    BY <2>1, <2>2
<1> HIDE DEF q, i
<1>8. Sub(k, t) = u
  <2>1. Ends(k, t, i) # {} /\ q = Max(Ends(k, t, i))
    BY <1>4 DEF q
  <2> QED
    BY <1>1, <1>2, <1>4, <1>6, <2>1, OneMatchOneTag DEF Then
<1>9. Count(u, "d") = 0 /\ Count(u, "#") = 1
  BY <1>1, <1>2, <1>4, <1>7, TagCounts
<1> QED
  BY <1>8, <1>9

(* A pattern that fits nothing in the number leaves the text alone.        *)
LEMMA NothingInside ==
  ASSUME NEW t, NEW n, NEW p, Stands(t, n, p), NEW k \in 1 .. 3,
         \A i \in 1 .. Len(n) : Ends(k, t, p + i) = {}
  PROVE  Sub(k, t) = t
<1>1. t \in Seq(Chars) /\ p \in Nat /\ Len(n) \in Nat
  BY DEF Stands
<1>2. ASSUME NEW l \in 1 .. Len(t) PROVE Ends(k, t, l) = {}
  <2>1. ASSUME NEW j \in Ends(k, t, l) PROVE FALSE
    <3>1. l \in p + 1 .. p + Len(n)
      BY <2>1, MatchInside
    <3>2. l - p \in 1 .. Len(n) /\ p + (l - p) = l
      BY <1>1, <3>1
    <3> QED
      BY <2>1, <3>2
  <2> QED
    BY <2>1
<1> QED
  BY <1>1, <1>2, NoMatchNoChange DEF NoneFits

LEMMA AadhaarOrAlone ==
  ASSUME NEW t, NEW n, NEW p, Stands(t, n, p), ~Enclosed(n), ~IsAadhaar(n, 1, Len(n))
  PROVE  Sub(1, t) = t
<1>1. p \in Nat /\ Len(n) \in Nat /\ DOMAIN n = 1 .. Len(n) /\ t \in Seq(Chars)
  BY DEF Stands
<1>2. ASSUME NEW i \in 1 .. Len(n), NEW j \in Ends(1, t, p + i) PROVE FALSE
  <2>1. p + i \in 1 .. Len(t)
    BY <1>1 DEF Stands
  <2>2. j \in p + 1 .. p + Len(n) /\ j >= p + i /\ IsAadhaar(t, p + i, j)
    <3>1. j \in p + 1 .. p + Len(n)
      BY <2>1, MatchInside
    <3> QED
      BY <3>1 DEF Ends, Fits
  <2>3. j - p \in i .. Len(n) /\ p + (j - p) = j
    BY <1>1, <2>2
  <2>4. Fits(1, t, p + i, p + (j - p)) <=> Fits(1, n, i, j - p)
    BY <2>3, FitsInside
  <2>5. IsAadhaar(n, i, j - p)
    BY <2>2, <2>3, <2>4 DEF Fits
  <2>6. i .. j - p = 1 .. Len(n)
    BY <1>1, <2>3, <2>5 DEF Enclosed
  <2>7. i = 1 /\ j - p = Len(n)
    <3>1. 1 \in 1 .. Len(n) /\ Len(n) \in 1 .. Len(n)
      BY <1>1
    <3>2. 1 \in i .. j - p /\ Len(n) \in i .. j - p
      BY <2>6, <3>1
    <3> QED
      BY <1>1, <2>3, <3>2
  <2> QED
    BY <2>5, <2>7
<1>3. \A i \in 1 .. Len(n) : Ends(1, t, p + i) = {}
  BY <1>2
<1> QED
  BY <1>3, NothingInside

LEMMA CardOrAlone ==
  ASSUME NEW t, NEW n, NEW p, Stands(t, n, p), IsPhone(n, 1, Len(n)), ~IsCard(n, 1, Len(n))
  PROVE  Sub(2, t) = t
<1>1. p \in Nat /\ Len(n) \in Nat /\ n \in Seq({"d", "-"})
  BY DEF Stands
<1>2. ASSUME NEW i \in 1 .. Len(n), NEW j \in Ends(2, t, p + i) PROVE FALSE
  <2>1. PICK e \in i .. Len(n) : IsCard(n, i, e)
    <3>1. CASE j \in p + i .. p + Len(n) /\ IsCard(n, i, j - p)
      <4>1. j - p \in i .. Len(n)
        BY <1>1, <3>1
      <4> QED
        BY <3>1, <4>1
    <3>2. CASE j = p + Len(n) + 1 /\ IsCard(n, i, Len(n))
      <4>1. Len(n) \in i .. Len(n)
        BY <1>1
      <4> QED
        BY <3>2, <4>1
    <3> QED
      BY <3>1, <3>2, CardReaches
  <2>2. i = 1 /\ e = Len(n)
    BY <1>1, <2>1, PhoneHoldsNoCard
  <2> QED
    BY <2>1, <2>2
<1>3. \A i \in 1 .. Len(n) : Ends(2, t, p + i) = {}
  BY <1>2
<1> QED
  BY <1>3, NothingInside

(* No digit, no match.                                                     *)
LEMMA TaggedStays ==
  ASSUME NEW t \in Seq(Chars), NEW k \in 1 .. 3, Count(t, "d") = 0
  PROVE  Sub(k, t) = t
<1> DEFINE D == {i \in DOMAIN t : t[i] = "d"}
<1>1. DOMAIN t = 1 .. Len(t) /\ Len(t) \in Nat
  OBVIOUS
<1>2. IsFiniteSet(1 .. Len(t))
  BY <1>1, FS_Interval
<1>3. IsFiniteSet(D)
  BY <1>1, <1>2, FS_Subset
<1>4. D = {}
  BY <1>3, FS_EmptySet DEF Count
<1>5. \A i \in 1 .. Len(t) : Ends(k, t, i) = {}
  BY <1>1, <1>4, NoDigitNoMatch
<1> QED
  BY <1>5, NoMatchNoChange DEF NoneFits
-----------------------------------------------------------------------------
LEMMA InitIInv == Init => IInv
<1> SUFFICES ASSUME Init PROVE IInv
  OBVIOUS
<1>1. PICK b \in Before, a \in After : text = b \o number \o a
  BY DEF Init
<1>2. number \in Numbers /\ pass = 1
  BY DEF Init
<1>3. Stands(b \o number \o a, number, Len(b))
  BY <1>2, NumberStands
<1>4. TypeOK
  BY <1>1, <1>2, <1>3 DEF TypeOK, Stands
<1>5. Intact /\ StillToCome
  BY <1>1, <1>2 DEF Intact, StillToCome
<1> QED
  BY <1>4, <1>5 DEF IInv, IntactOrTagged

(* The passes one after the other: the first that fits the number has not  *)
(* been kept from it by an earlier one that fits a part.                   *)
LEMMA NextIInv == IInv /\ [Next]_vars => IInv'
<1> SUFFICES ASSUME IInv, [Next]_vars PROVE IInv'
  OBVIOUS
<1> USE DEF IInv
<1>1. CASE UNCHANGED vars
  BY <1>1 DEF vars, TypeOK, IntactOrTagged, Tagged, Intact, StillToCome
<1>2. CASE Next
  <2>1. /\ pass \in 1 .. 3 /\ pass' = pass + 1 /\ text' = Sub(pass, text)
        /\ number' = number /\ number \in Numbers /\ text \in Seq(Chars)
    BY <1>2 DEF Next, TypeOK
  <2>2. TypeOK'
    BY <2>1, SubType DEF TypeOK
  <2>3. ASSUME IsNumber(number), ~Enclosed(number)
        PROVE  Tagged' \/ (Intact /\ StillToCome)'
    <3> DEFINE n == number
    <3>1. CASE Tagged
      <4>1. text' = text
        BY <2>1, <3>1, TaggedStays DEF Tagged
      <4> QED
        BY <3>1, <4>1 DEF Tagged
    <3>2. CASE Intact /\ StillToCome
      <4>1. PICK b \in Before, a \in After : text = b \o number \o a
        BY <3>2 DEF Intact
      <4> DEFINE p == Len(b)
      <4>2. Stands(text, n, p)
        BY <2>1, <4>1, NumberStands
      <4>3. n \in Seq({"d", "-"}) /\ Len(n) >= 1
        BY <2>1, <2>3, NumbersAssumption, NumberNotEmpty
      <4> HIDE DEF p
      <4>4. ASSUME Fits(pass, n, 1, Len(n)) PROVE Tagged'
        BY <2>1, <4>2, <4>3, <4>4, WholeIsTagged DEF Tagged
      <4>5. text' = text => Intact'
        BY <2>1, <3>2 DEF Intact
      <4>6. CASE pass = 1
        <5>1. CASE IsAadhaar(n, 1, Len(n))
          BY <4>4, <4>6, <5>1 DEF Fits
        <5>2. CASE ~IsAadhaar(n, 1, Len(n))
          <6>1. text' = text
            BY <2>1, <2>3, <4>2, <4>6, <5>2, AadhaarOrAlone
          <6>2. StillToCome'
            BY <2>1, <4>6, <5>2 DEF StillToCome
          <6> QED
            BY <4>5, <6>1, <6>2
        <5> QED
          BY <5>1, <5>2
      <4>7. CASE pass = 2
        <5>1. ~IsAadhaar(n, 1, Len(n))
          BY <3>2, <4>7 DEF StillToCome
        <5>2. CASE IsCard(n, 1, Len(n))
          BY <4>4, <4>7, <5>2 DEF Fits
        <5>3. CASE ~IsCard(n, 1, Len(n))
          <6>1. IsPhone(n, 1, Len(n))
            BY <2>3, <5>1, <5>3 DEF IsNumber
          <6>2. text' = text
            BY <2>1, <4>2, <4>7, <5>3, <6>1, CardOrAlone
          <6>3. StillToCome'
            BY <2>1, <4>7, <5>1, <5>3 DEF StillToCome
          <6> QED
            BY <4>5, <6>2, <6>3
        <5> QED
          BY <5>2, <5>3
      <4>8. CASE pass = 3
        <5>1. IsPhone(n, 1, Len(n))
          BY <2>3, <3>2, <4>8 DEF StillToCome, IsNumber
        <5> QED
          BY <4>4, <4>8, <5>1 DEF Fits
      <4> QED
        BY <2>1, <4>6, <4>7, <4>8
    <3> QED
      BY <2>3, <3>1, <3>2 DEF IntactOrTagged
  <2>4. IntactOrTagged'
    BY <2>1, <2>3 DEF IntactOrTagged, Tagged, Intact, StillToCome
  <2> QED
    BY <2>2, <2>4
<1> QED
  BY <1>1, <1>2

(* Until the pattern that is first to fit a number has had its pass, the   *)
(* text is as it was; from then on it has one placeholder and no digit.    *)
THEOREM NumbersIntactOrTagged == Spec => []IInv
  BY InitIInv, NextIInv, PTL DEF Spec

(* Whatever number a pattern fits, of any length, and whatever text with   *)
(* no digit stands around it: redact_pii leaves no digit of the number and *)
(* tags it once, unless an Aadhaar number is enclosed in it.               *)
THEOREM NumbersAreRedactedWhole == Spec => []NumbersGoWhole
<1>1. IInv => NumbersGoWhole
  BY DEF IInv, IntactOrTagged, NumbersGoWhole, Tagged, StillToCome
<1> QED
  BY <1>1, NumbersIntactOrTagged, PTL
=============================================================================
