---------------------------- MODULE RedisListLemmas ----------------------------
(***************************************************************************)
(* What the sequence operators that stand for RPUSH, BLMOVE, LMOVE and LREM *)
(* do to the members of a list.                                            *)
(***************************************************************************)
EXTENDS Integers, SequencesExt, SequenceTheorems, NatLemmas, TLAPS

\* RPUSH adds its element and keeps the others.
LEMMA AppendMembers ==
    ASSUME NEW S, NEW s \in Seq(S), NEW e \in S
    PROVE  /\ Append(s, e) \in Seq(S)
           /\ \A k : Contains(Append(s, e), k) <=> Contains(s, k) \/ k = e
<1>1. /\ Append(s, e) \in Seq(S)
      /\ Len(Append(s, e)) = Len(s) + 1
      /\ \A i \in 1..Len(s) : Append(s, e)[i] = s[i]
      /\ Append(s, e)[Len(s) + 1] = e
      /\ Len(s) \in Nat
  BY AppendProperties, LenProperties
<1> QED
  BY <1>1 DEF Contains

\* Taking the head leaves the rest: the source end of BLMOVE LEFT.
LEMMA HeadTailMembers ==
    ASSUME NEW S, NEW s \in Seq(S), s # <<>>
    PROVE  /\ Head(s) \in S
           /\ Tail(s) \in Seq(S)
           /\ Contains(s, Head(s))
           /\ \A k : Contains(s, k) <=> Contains(Tail(s), k) \/ k = Head(s)
<1>1. /\ Head(s) \in S
      /\ Tail(s) \in Seq(S)
      /\ Len(Tail(s)) = Len(s) - 1
      /\ \A i \in 1..Len(Tail(s)) : Tail(s)[i] = s[i + 1]
  BY HeadTailProperties
<1>2. Len(s) \in Nat \ {0} /\ Head(s) = s[1]
  BY EmptySeq
<1>3. ASSUME NEW k, Contains(s, k)
      PROVE  Contains(Tail(s), k) \/ k = Head(s)
  <2>1. PICK i \in 1..Len(s) : s[i] = k
    BY <1>3 DEF Contains
  <2>2. CASE i = 1
    BY <2>1, <2>2, <1>2
  <2>3. CASE i > 1
    <3>1. i - 1 \in 1..Len(Tail(s)) /\ Tail(s)[i - 1] = k
      BY <2>1, <2>3, <1>1, <1>2
    <3> QED
      BY <3>1 DEF Contains
  <2> QED
    BY <2>2, <2>3
<1>4. ASSUME NEW k, Contains(Tail(s), k)
      PROVE  Contains(s, k)
  <2>1. PICK i \in 1..Len(Tail(s)) : Tail(s)[i] = k
    BY <1>4 DEF Contains
  <2>2. i + 1 \in 1..Len(s) /\ s[i + 1] = k
    BY <2>1, <1>1, <1>2
  <2> QED
    BY <2>2 DEF Contains
<1>5. Contains(s, Head(s))
  BY <1>2 DEF Contains
<1> QED
  BY <1>1, <1>3, <1>4, <1>5

\* Taking the last element leaves the rest: the source end of LMOVE RIGHT.
LEMMA FrontLastMembers ==
    ASSUME NEW S, NEW s \in Seq(S), s # <<>>
    PROVE  /\ Last(s) \in S
           /\ Front(s) \in Seq(S)
           /\ Len(Front(s)) = Len(s) - 1
           /\ \A i \in 1..Len(s) - 1 : Front(s)[i] = s[i]
           /\ \A k : Contains(s, k) <=> Contains(Front(s), k) \/ k = Last(s)
<1>1. Len(s) \in Nat \ {0} /\ \A i \in 1..Len(s) : s[i] \in S
  BY EmptySeq, ElementOfSeq
<1>2. /\ Front(s) \in Seq(S)
      /\ Len(Front(s)) = Len(s) - 1
      /\ \A i \in 1..Len(s) - 1 : Front(s)[i] = s[i]
  <2>1. \A i \in 1..Len(s) - 1 : s[i] \in S
    BY <1>1
  <2>2. Len(s) - 1 \in Int /\ Len(s) - 1 \in Nat
    BY <1>1
  <2>3. /\ SubSeq(s, 1, Len(s) - 1) \in Seq(S)
        /\ Len(SubSeq(s, 1, Len(s) - 1)) =
             IF 1 <= Len(s) - 1 THEN (Len(s) - 1) - 1 + 1 ELSE 0
        /\ \A i \in 1..(Len(s) - 1) - 1 + 1 : SubSeq(s, 1, Len(s) - 1)[i] = s[1 + i - 1]
    BY <2>1, <2>2, SubSeqProperties
  <2>4. Len(SubSeq(s, 1, Len(s) - 1)) = Len(s) - 1
    <3>1. CASE 1 <= Len(s) - 1
      BY <1>1, <2>3, <3>1
    <3>2. CASE ~ (1 <= Len(s) - 1)
      <4>1. Len(s) - 1 = 0
        BY <1>1, <3>2
      <4> QED
        BY <2>3, <3>2, <4>1
    <3> QED
      BY <3>1, <3>2
  <2>5. ASSUME NEW i \in 1..Len(s) - 1
        PROVE  SubSeq(s, 1, Len(s) - 1)[i] = s[i]
    <3>1. i \in 1..(Len(s) - 1) - 1 + 1 /\ 1 + i - 1 = i
      BY <2>2
    <3> QED
      BY <2>3, <3>1
  <2> QED
    BY <2>3, <2>4, <2>5 DEF Front
<1>3. ASSUME NEW k, Contains(s, k)
      PROVE  Contains(Front(s), k) \/ k = Last(s)
  <2>1. PICK i \in 1..Len(s) : s[i] = k
    BY <1>3 DEF Contains
  <2>2. CASE i = Len(s)
    BY <2>1, <2>2 DEF Last
  <2>3. CASE i # Len(s)
    <3>1. i \in 1..Len(Front(s)) /\ Front(s)[i] = k
      BY <2>1, <2>3, <1>1, <1>2
    <3> QED
      BY <3>1 DEF Contains
  <2> QED
    BY <2>2, <2>3
<1>4. ASSUME NEW k, Contains(Front(s), k)
      PROVE  Contains(s, k)
  <2>1. PICK i \in 1..Len(Front(s)) : Front(s)[i] = k
    BY <1>4 DEF Contains
  <2>2. i \in 1..Len(s) /\ s[i] = k
    BY <2>1, <1>1, <1>2
  <2> QED
    BY <2>2 DEF Contains
<1>5. Last(s) \in S /\ Contains(s, Last(s))
  BY <1>1 DEF Last, Contains
<1> QED
  BY <1>2, <1>3, <1>4, <1>5

\* Pushing in front: the destination end of LMOVE LEFT.
LEMMA PrependMembers ==
    ASSUME NEW S, NEW s \in Seq(S), NEW e \in S
    PROVE  /\ <<e>> \o s \in Seq(S)
           /\ Len(<<e>> \o s) = Len(s) + 1
           /\ \A i \in 1..Len(s) + 1 : (<<e>> \o s)[i] = IF i = 1 THEN e ELSE s[i - 1]
           /\ \A k : Contains(<<e>> \o s, k) <=> Contains(s, k) \/ k = e
<1>1. <<e>> \in Seq(S) /\ Len(<<e>>) = 1 /\ <<e>>[1] = e /\ Len(s) \in Nat
  BY LenProperties
<1>2. /\ <<e>> \o s \in Seq(S)
      /\ Len(<<e>> \o s) = Len(s) + 1
      /\ \A i \in 1..Len(s) + 1 : (<<e>> \o s)[i] = IF i = 1 THEN e ELSE s[i - 1]
  BY <1>1, ConcatProperties
<1>3. ASSUME NEW k, Contains(s, k)
      PROVE  Contains(<<e>> \o s, k)
  <2>1. PICK i \in 1..Len(s) : s[i] = k
    BY <1>3 DEF Contains
  <2>2. i + 1 \in 1..Len(<<e>> \o s) /\ (<<e>> \o s)[i + 1] = k
    BY <2>1, <1>1, <1>2
  <2> QED
    BY <2>2 DEF Contains
<1>4. Contains(<<e>> \o s, e)
  BY <1>1, <1>2 DEF Contains
<1>5. ASSUME NEW k, Contains(<<e>> \o s, k)
      PROVE  Contains(s, k) \/ k = e
  <2>1. PICK i \in 1..Len(<<e>> \o s) : (<<e>> \o s)[i] = k
    BY <1>5 DEF Contains
  <2>2. i = 1 \/ (i - 1 \in 1..Len(s) /\ s[i - 1] = k)
    BY <2>1, <1>1, <1>2
  <2> QED
    BY <2>1, <2>2, <1>1, <1>2 DEF Contains
<1> QED
  BY <1>2, <1>3, <1>4, <1>5

\* LREM with count 1 takes one entry of its element and nothing else.
LEMMA RemoveFirstMembers ==
    ASSUME NEW S, NEW s \in Seq(S), NEW e
    PROVE  /\ RemoveFirst(s, e) \in Seq(S)
           /\ ~ Contains(s, e) => RemoveFirst(s, e) = s
           /\ Contains(s, e) => Len(RemoveFirst(s, e)) = Len(s) - 1
           /\ \A k : Contains(RemoveFirst(s, e), k) => Contains(s, k)
           /\ \A k : k # e /\ Contains(s, k) => Contains(RemoveFirst(s, e), k)
<1>1. CASE ~ Contains(s, e)
  BY <1>1 DEF Contains, RemoveFirst
<1>2. CASE Contains(s, e)
  <2> DEFINE I == {i \in 1..Len(s) : s[i] = e}
             m == Min(I)
             a == SubSeq(s, 1, m - 1)
             b == SubSeq(s, m + 1, Len(s))
  <2>1. Len(s) \in Nat /\ \A i \in 1..Len(s) : s[i] \in S
    BY LenProperties, ElementOfSeq
  <2>2. I \subseteq Nat /\ I # {}
    BY <1>2, <2>1 DEF Contains
  <2>3. m \in 1..Len(s) /\ s[m] = e
    BY <2>2, MinOfNats
  <2>4. RemoveFirst(s, e) = a \o b
    BY <1>2, <2>2 DEF RemoveFirst, RemoveAt, SelectInSeq, Contains
  <2> HIDE DEF m
  <2>5. /\ a \in Seq(S)
        /\ Len(a) = m - 1
        /\ \A i \in 1..m - 1 : a[i] = s[i]
    <3>1. m - 1 \in Int /\ \A i \in 1..m - 1 : s[i] \in S
      BY <2>1, <2>3
    <3>2. /\ a \in Seq(S)
          /\ Len(a) = IF 1 <= m - 1 THEN (m - 1) - 1 + 1 ELSE 0
          /\ \A i \in 1..(m - 1) - 1 + 1 : a[i] = s[1 + i - 1]
      BY <3>1, SubSeqProperties
    <3> QED
      BY <2>1, <2>3, <3>2
  <2>6. /\ b \in Seq(S)
        /\ Len(b) = Len(s) - m
        /\ \A i \in 1..Len(s) - m : b[i] = s[m + i]
    <3>1. m + 1 \in Int /\ Len(s) \in Int /\ \A i \in m + 1..Len(s) : s[i] \in S
      BY <2>1, <2>3
    <3>2. /\ b \in Seq(S)
          /\ Len(b) = IF m + 1 <= Len(s) THEN Len(s) - (m + 1) + 1 ELSE 0
          /\ \A i \in 1..Len(s) - (m + 1) + 1 : b[i] = s[(m + 1) + i - 1]
      BY <3>1, SubSeqProperties
    <3> QED
      BY <2>1, <2>3, <3>2
  <2> HIDE DEF a, b
  <2>7. /\ a \o b \in Seq(S)
        /\ Len(a \o b) = Len(s) - 1
        /\ \A i \in 1..Len(s) - 1 : (a \o b)[i] = IF i < m THEN s[i] ELSE s[i + 1]
    <3>1. /\ a \o b \in Seq(S)
          /\ Len(a \o b) = Len(a) + Len(b)
          /\ \A i \in 1..Len(a) + Len(b) :
               (a \o b)[i] = IF i <= Len(a) THEN a[i] ELSE b[i - Len(a)]
      BY <2>5, <2>6, ConcatProperties
    <3>2. Len(a \o b) = Len(s) - 1
      BY <2>1, <2>3, <2>5, <2>6, <3>1
    <3>3. ASSUME NEW i \in 1..Len(s) - 1, i < m
          PROVE  (a \o b)[i] = s[i]
      <4>1. i \in 1..Len(a) + Len(b) /\ i <= Len(a) /\ i \in 1..m - 1
        BY <2>1, <2>3, <2>5, <2>6, <3>3
      <4> QED
        BY <2>5, <3>1, <4>1
    <3>4. ASSUME NEW i \in 1..Len(s) - 1, ~ (i < m)
          PROVE  (a \o b)[i] = s[i + 1]
      <4>1. /\ i \in 1..Len(a) + Len(b) /\ ~ (i <= Len(a))
            /\ i - Len(a) \in 1..Len(s) - m
            /\ m + (i - Len(a)) = i + 1
        BY <2>1, <2>3, <2>5, <2>6, <3>4
      <4> QED
        BY <2>6, <3>1, <4>1
    <3> QED
      BY <3>1, <3>2, <3>3, <3>4
  <2>8. ASSUME NEW k, Contains(a \o b, k)
        PROVE  Contains(s, k)
    <3>1. PICK i \in 1..Len(s) - 1 : (a \o b)[i] = k
      BY <2>7, <2>8 DEF Contains
    <3>2. (i \in 1..Len(s) /\ s[i] = k) \/ (i + 1 \in 1..Len(s) /\ s[i + 1] = k)
      BY <2>1, <2>3, <2>7, <3>1
    <3> QED
      BY <3>2 DEF Contains
  <2>9. ASSUME NEW k, k # e, Contains(s, k)
        PROVE  Contains(a \o b, k)
    <3>1. PICK i \in 1..Len(s) : s[i] = k
      BY <2>9 DEF Contains
    <3>2. i # m
      BY <2>3, <2>9, <3>1
    <3>3. CASE i < m
      <4>1. i \in 1..Len(a \o b) /\ (a \o b)[i] = k
        <5>1. i \in 1..Len(s) - 1 /\ i \in 1..Len(a \o b)
          BY <2>1, <2>3, <2>7, <3>1, <3>3
        <5> QED
          BY <2>7, <3>1, <3>3, <5>1
      <4> QED
        BY <4>1 DEF Contains
    <3>4. CASE i > m
      <4>1. i - 1 \in 1..Len(a \o b) /\ (a \o b)[i - 1] = k
        <5>1. /\ i - 1 \in 1..Len(s) - 1 /\ i - 1 \in 1..Len(a \o b)
              /\ ~ (i - 1 < m) /\ (i - 1) + 1 = i
          BY <2>1, <2>3, <2>7, <3>1, <3>4
        <5> QED
          BY <2>7, <3>1, <5>1
      <4> QED
        BY <4>1 DEF Contains
    <3> QED
      BY <2>1, <2>3, <3>2, <3>3, <3>4
  <2> QED
    BY <1>2, <2>4, <2>7, <2>8, <2>9
<1> QED
  BY <1>1, <1>2

\* Moving the head of one list behind the last of another, as BLMOVE LEFT RIGHT
\* does, leaves their concatenation as it was.
LEMMA MoveForwardKeepsOrder ==
    ASSUME NEW S, NEW p \in Seq(S), NEW q \in Seq(S), q # <<>>
    PROVE  Append(p, Head(q)) \o Tail(q) = p \o q
<1>1. /\ Head(q) \in S /\ Tail(q) \in Seq(S) /\ Len(Tail(q)) = Len(q) - 1
      /\ \A i \in 1..Len(Tail(q)) : Tail(q)[i] = q[i + 1]
      /\ Head(q) = q[1] /\ Len(q) \in Nat \ {0} /\ Len(p) \in Nat
  BY HeadTailProperties, EmptySeq, LenProperties
<1>2. /\ <<Head(q)>> \in Seq(S) /\ Append(p, Head(q)) = p \o <<Head(q)>>
  BY <1>1, AppendIsConcat
<1>3. <<Head(q)>> \o Tail(q) = q
  <2>1. /\ <<Head(q)>> \o Tail(q) \in Seq(S)
        /\ Len(<<Head(q)>> \o Tail(q)) = Len(q)
        /\ \A i \in 1..Len(q) : (<<Head(q)>> \o Tail(q))[i] =
                                   IF i = 1 THEN Head(q) ELSE Tail(q)[i - 1]
    BY <1>1, PrependMembers
  <2>2. ASSUME NEW i \in 1..Len(q)
        PROVE  (<<Head(q)>> \o Tail(q))[i] = q[i]
    <3>1. CASE i = 1
      BY <1>1, <2>1, <3>1
    <3>2. CASE i # 1
      <4>1. i - 1 \in 1..Len(Tail(q)) /\ (i - 1) + 1 = i
        BY <1>1, <3>2
      <4> QED
        BY <1>1, <2>1, <3>2, <4>1
    <3> QED
      BY <3>1, <3>2
  <2> QED
    BY <2>1, <2>2, SeqEqual
<1> QED
  BY <1>1, <1>2, <1>3, ConcatAssociative

\* So does moving the last of one list before the head of the other, as LMOVE
\* RIGHT LEFT does.
LEMMA MoveBackKeepsOrder ==
    ASSUME NEW S, NEW p \in Seq(S), NEW q \in Seq(S), p # <<>>
    PROVE  Front(p) \o (<<Last(p)>> \o q) = p \o q
<1>1. /\ Last(p) \in S /\ Front(p) \in Seq(S) /\ Len(Front(p)) = Len(p) - 1
      /\ \A i \in 1..Len(p) - 1 : Front(p)[i] = p[i]
      /\ Len(p) \in Nat \ {0}
  BY FrontLastMembers, EmptySeq
<1>2. <<Last(p)>> \in Seq(S)
  BY <1>1
<1>3. Front(p) \o <<Last(p)>> = p
  <2>1. /\ Append(Front(p), Last(p)) \in Seq(S)
        /\ Len(Append(Front(p), Last(p))) = Len(Front(p)) + 1
        /\ \A i \in 1..Len(Front(p)) : Append(Front(p), Last(p))[i] = Front(p)[i]
        /\ Append(Front(p), Last(p))[Len(Front(p)) + 1] = Last(p)
    BY <1>1, AppendProperties
  <2>2. ASSUME NEW i \in 1..Len(p)
        PROVE  Append(Front(p), Last(p))[i] = p[i]
    BY <1>1, <2>1 DEF Last
  <2>3. Append(Front(p), Last(p)) = p
    BY <1>1, <2>1, <2>2, SeqEqual
  <2> QED
    BY <1>1, <2>3, AppendIsConcat
<1>4. (Front(p) \o <<Last(p)>>) \o q = Front(p) \o (<<Last(p)>> \o q)
  BY <1>1, <1>2, ConcatAssociative
<1> QED
  BY <1>3, <1>4
=============================================================================
