---------------------------- MODULE SequenceLemmas ----------------------------
(***************************************************************************)
(* What the operators that the queues of the kernel objects, the scheduler *)
(* and the flips are built from (insert, erase, push_back, pop_front) do   *)
(* to length, elements and order.                                          *)
(***************************************************************************)
EXTENDS Integers, Sequences, SequencesExt, SequenceTheorems, TLAPS

\* No element of s occurs twice.
Distinct(s) == \A i, j \in 1..Len(s) : s[i] = s[j] => i = j

\* Inserting e at position p shifts what was at p and behind it by one place.
LEMMA InsertAtProperties ==
    ASSUME NEW S, NEW s \in Seq(S), NEW p \in 1..(Len(s) + 1), NEW e \in S
    PROVE  /\ InsertAt(s, p, e) \in Seq(S)
           /\ Len(InsertAt(s, p, e)) = Len(s) + 1
           /\ \A i \in 1..(Len(s) + 1) : InsertAt(s, p, e)[i] =
                 IF i < p THEN s[i] ELSE IF i = p THEN e ELSE s[i - 1]
<1> DEFINE front == SubSeq(s, 1, p - 1)
           mid == front \o <<e>>
           back == SubSeq(s, p, Len(s))
<1>1. Len(s) \in Nat /\ p \in Int
  BY LenProperties
<1>2. /\ front \in Seq(S) /\ Len(front) = p - 1
      /\ \A i \in 1..(p - 1) : front[i] = s[i]
  <2>1. \A i \in 1..(p - 1) : s[i] \in S
    BY <1>1, ElementOfSeq
  <2>2. p - 1 \in Int
    BY <1>1
  <2>3. /\ SubSeq(s, 1, p - 1) \in Seq(S)
        /\ Len(SubSeq(s, 1, p - 1)) = IF 1 <= p - 1 THEN p - 1 - 1 + 1 ELSE 0
        /\ \A i \in 1..(p - 1 - 1 + 1) : SubSeq(s, 1, p - 1)[i] = s[1 + i - 1]
    BY <2>1, <2>2, SubSeqProperties
  <2>. QED  BY <1>1, <2>3
<1>3. <<e>> \in Seq(S) /\ Len(<<e>>) = 1 /\ <<e>>[1] = e
  OBVIOUS
<1>4. /\ mid \in Seq(S) /\ Len(mid) = p
      /\ \A i \in 1..p : mid[i] = IF i < p THEN s[i] ELSE e
  <2> HIDE DEF front
  <2>1. /\ front \o <<e>> \in Seq(S)
        /\ Len(front \o <<e>>) = Len(front) + Len(<<e>>)
        /\ \A i \in 1..(Len(front) + Len(<<e>>)) : (front \o <<e>>)[i] =
              IF i <= Len(front) THEN front[i] ELSE <<e>>[i - Len(front)]
    BY <1>2, <1>3, ConcatProperties
  <2>. QED  BY <1>1, <1>2, <1>3, <2>1
<1>5. /\ back \in Seq(S) /\ Len(back) = Len(s) - p + 1
      /\ \A i \in 1..(Len(s) - p + 1) : back[i] = s[p + i - 1]
  <2>1. \A i \in p..Len(s) : s[i] \in S
    BY <1>1, ElementOfSeq
  <2>2. /\ SubSeq(s, p, Len(s)) \in Seq(S)
        /\ Len(SubSeq(s, p, Len(s))) = IF p <= Len(s) THEN Len(s) - p + 1 ELSE 0
        /\ \A i \in 1..(Len(s) - p + 1) : SubSeq(s, p, Len(s))[i] = s[p + i - 1]
    BY <1>1, <2>1, SubSeqProperties
  <2>. QED  BY <1>1, <2>2
<1>6. InsertAt(s, p, e) = mid \o back
  BY DEF InsertAt
<1> HIDE DEF mid, back, front
<1>7. /\ mid \o back \in Seq(S)
      /\ Len(mid \o back) = Len(mid) + Len(back)
      /\ \A i \in 1..(Len(mid) + Len(back)) : (mid \o back)[i] =
            IF i <= Len(mid) THEN mid[i] ELSE back[i - Len(mid)]
  BY <1>4, <1>5, ConcatProperties
<1>. QED  BY <1>1, <1>4, <1>5, <1>6, <1>7

\* Removing position p shifts what was behind it by one place.
LEMMA RemoveAtProperties ==
    ASSUME NEW S, NEW s \in Seq(S), NEW p \in 1..Len(s)
    PROVE  /\ RemoveAt(s, p) \in Seq(S)
           /\ Len(RemoveAt(s, p)) = Len(s) - 1
           /\ \A i \in 1..(Len(s) - 1) :
                 RemoveAt(s, p)[i] = IF i < p THEN s[i] ELSE s[i + 1]
<1> DEFINE front == SubSeq(s, 1, p - 1)
           back == SubSeq(s, p + 1, Len(s))
<1>1. Len(s) \in Nat /\ p \in Int
  BY LenProperties
<1>2. /\ front \in Seq(S) /\ Len(front) = p - 1
      /\ \A i \in 1..(p - 1) : front[i] = s[i]
  <2>1. \A i \in 1..(p - 1) : s[i] \in S
    BY <1>1, ElementOfSeq
  <2>2. p - 1 \in Int
    BY <1>1
  <2>3. /\ SubSeq(s, 1, p - 1) \in Seq(S)
        /\ Len(SubSeq(s, 1, p - 1)) = IF 1 <= p - 1 THEN p - 1 - 1 + 1 ELSE 0
        /\ \A i \in 1..(p - 1 - 1 + 1) : SubSeq(s, 1, p - 1)[i] = s[1 + i - 1]
    BY <2>1, <2>2, SubSeqProperties
  <2>. QED  BY <1>1, <2>3
<1>3. /\ back \in Seq(S) /\ Len(back) = Len(s) - p
      /\ \A i \in 1..(Len(s) - p) : back[i] = s[p + i]
  <2>1. \A i \in (p + 1)..Len(s) : s[i] \in S
    BY <1>1, ElementOfSeq
  <2>2. p + 1 \in Int
    BY <1>1
  <2>3. /\ SubSeq(s, p + 1, Len(s)) \in Seq(S)
        /\ Len(SubSeq(s, p + 1, Len(s))) =
              IF p + 1 <= Len(s) THEN Len(s) - (p + 1) + 1 ELSE 0
        /\ \A i \in 1..(Len(s) - (p + 1) + 1) :
              SubSeq(s, p + 1, Len(s))[i] = s[(p + 1) + i - 1]
    BY <1>1, <2>1, <2>2, SubSeqProperties
  <2>. QED  BY <1>1, <2>3
<1>4. RemoveAt(s, p) = front \o back
  BY DEF RemoveAt
<1> HIDE DEF front, back
<1>5. /\ front \o back \in Seq(S)
      /\ Len(front \o back) = Len(front) + Len(back)
      /\ \A i \in 1..(Len(front) + Len(back)) : (front \o back)[i] =
            IF i <= Len(front) THEN front[i] ELSE back[i - Len(front)]
  BY <1>2, <1>3, ConcatProperties
<1>. QED  BY <1>1, <1>2, <1>3, <1>4, <1>5

\* A new element inserted into a list without repetitions leaves none.
LEMMA InsertAtDistinct ==
    ASSUME NEW S, NEW s \in Seq(S), NEW p \in 1..(Len(s) + 1), NEW e \in S,
           Distinct(s), \A i \in 1..Len(s) : s[i] # e
    PROVE  Distinct(InsertAt(s, p, e))
<1> DEFINE t == InsertAt(s, p, e)
<1>1. Len(s) \in Nat /\ p \in Int
  BY LenProperties
<1>2. /\ Len(t) = Len(s) + 1
      /\ \A i \in 1..(Len(s) + 1) :
            t[i] = IF i < p THEN s[i] ELSE IF i = p THEN e ELSE s[i - 1]
  BY InsertAtProperties
<1> HIDE DEF t
<1>3. \A i, j \in 1..Len(t) : t[i] = t[j] => i = j
  <2>1. \A i, j \in 1..Len(s) : s[i] = s[j] => i = j
    BY DEF Distinct
  <2>2. \A i \in 1..Len(t) :
           /\ i < p => i \in 1..Len(s) /\ t[i] = s[i]
           /\ i = p => t[i] = e
           /\ i > p => i - 1 \in 1..Len(s) /\ t[i] = s[i - 1]
    BY <1>1, <1>2
  <2>3. SUFFICES ASSUME NEW i \in 1..Len(t), NEW j \in 1..Len(t), t[i] = t[j]
                 PROVE  i = j
    OBVIOUS
  <2>4. CASE i = p
    BY <1>1, <2>2, <2>3, <2>4
  <2>5. CASE j = p
    BY <1>1, <2>2, <2>3, <2>5
  <2>6. CASE i < p
    BY <1>1, <1>2, <2>1, <2>2, <2>3, <2>5, <2>6
  <2>7. CASE i > p
    BY <1>1, <1>2, <2>1, <2>2, <2>3, <2>5, <2>7
  <2>. QED  BY <1>1, <1>2, <2>4, <2>6, <2>7
<1>4. Distinct(t)
  BY <1>3 DEF Distinct
<1>. QED  BY <1>4 DEF t

\* Removing a position keeps a list without repetitions so, and the element that
\* was there is gone while every other one is still there.
LEMMA RemoveAtDistinct ==
    ASSUME NEW S, NEW s \in Seq(S), NEW p \in 1..Len(s), Distinct(s)
    PROVE  /\ Distinct(RemoveAt(s, p))
           /\ \A i \in 1..(Len(s) - 1) : RemoveAt(s, p)[i] # s[p]
           /\ \A i \in 1..Len(s) : i # p =>
                 \E j \in 1..(Len(s) - 1) : RemoveAt(s, p)[j] = s[i]
<1>1. Len(s) \in Nat /\ p \in Int
  BY LenProperties
<1> DEFINE t == RemoveAt(s, p)
<1>t. /\ Len(t) = Len(s) - 1
      /\ \A i \in 1..(Len(s) - 1) : t[i] = IF i < p THEN s[i] ELSE s[i + 1]
  BY RemoveAtProperties
<1>s. \A i, j \in 1..Len(s) : s[i] = s[j] => i = j
  BY DEF Distinct
<1> HIDE DEF t
<1>2. Distinct(RemoveAt(s, p))
  <2>1. \A i, j \in 1..Len(t) : t[i] = t[j] => i = j
    BY <1>1, <1>s, <1>t
  <2>2. Distinct(t)
    BY <2>1 DEF Distinct
  <2>. QED  BY <2>2 DEF t
<1>3. \A i \in 1..(Len(s) - 1) : RemoveAt(s, p)[i] # s[p]
  <2>1. \A i \in 1..(Len(s) - 1) : t[i] # s[p]
    BY <1>1, <1>s, <1>t
  <2>. QED  BY <2>1 DEF t
<1>4. ASSUME NEW i \in 1..Len(s), i # p
      PROVE  \E j \in 1..(Len(s) - 1) : RemoveAt(s, p)[j] = s[i]
  <2>1. CASE i < p
    BY <1>1, <2>1, RemoveAtProperties
  <2>2. CASE i > p
    <3>1. i - 1 \in 1..(Len(s) - 1) /\ ~(i - 1 < p) /\ i - 1 + 1 = i
      BY <1>1, <2>2
    <3>. QED  BY <3>1, RemoveAtProperties
  <2>. QED  BY <1>1, <1>4, <2>1, <2>2
<1>. QED  BY <1>2, <1>3, <1>4

\* What is left of a queue when its first element is taken.
LEMMA WithoutFirst ==
    ASSUME NEW S, NEW s \in Seq(S), s # <<>>
    PROVE  /\ Len(s) \in Nat \ {0} /\ Head(s) = s[1] /\ s[1] \in S
           /\ Tail(s) \in Seq(S) /\ Len(Tail(s)) = Len(s) - 1
           /\ \A k \in 1 .. Len(s) - 1 : Tail(s)[k] = s[k + 1]
  OBVIOUS

\* One or two elements put before a sequence.
LEMMA OneBefore ==
    ASSUME NEW S, NEW s \in Seq(S), NEW e \in S
    PROVE  /\ <<e>> \o s \in Seq(S) /\ Len(<<e>> \o s) = Len(s) + 1
           /\ (<<e>> \o s)[1] = e
           /\ \A k \in 1 .. Len(s) : (<<e>> \o s)[k + 1] = s[k]
  OBVIOUS
LEMMA TwoBefore ==
    ASSUME NEW S, NEW s \in Seq(S), NEW e \in S, NEW f \in S
    PROVE  /\ <<e, f>> \o s \in Seq(S) /\ Len(<<e, f>> \o s) = Len(s) + 2
           /\ (<<e, f>> \o s)[1] = e /\ (<<e, f>> \o s)[2] = f
           /\ \A k \in 1 .. Len(s) : (<<e, f>> \o s)[k + 2] = s[k]
  OBVIOUS

\* One element put behind a sequence.
LEMMA OneBehind ==
    ASSUME NEW S, NEW s \in Seq(S), NEW e \in S
    PROVE  /\ Append(s, e) \in Seq(S) /\ Len(Append(s, e)) = Len(s) + 1
           /\ \A k \in 1 .. Len(s) : Append(s, e)[k] = s[k]
           /\ Append(s, e)[Len(s) + 1] = e
  OBVIOUS

\* erase of the element at a place of a list without repetitions.
LEMMA RemoveFirstAt ==
    ASSUME NEW S, NEW s \in Seq(S), Distinct(s), NEW p \in 1 .. Len(s)
    PROVE  RemoveFirst(s, s[p]) = RemoveAt(s, p)
<1> DEFINE I == {i \in 1 .. Len(s) : s[i] = s[p]}
<1>1. I = {p}
  BY DEF Distinct
<1>2. SelectInSeq(s, LAMBDA v : v = s[p]) = p
  <2>1. Min(I) = p
    BY <1>1, LenProperties DEF Min
  <2>. QED  BY <1>1, <2>1 DEF SelectInSeq
<1>. QED  BY <1>2 DEF RemoveFirst

\* erase of one element of a list without repetitions.
LEMMA RemoveFirstProperties ==
    ASSUME NEW S, NEW s \in Seq(S), NEW e \in S, Distinct(s)
    PROVE  /\ \A p \in 1 .. Len(s) : s[p] = e => RemoveFirst(s, e) = RemoveAt(s, p)
           /\ (\A p \in 1 .. Len(s) : s[p] # e) => RemoveFirst(s, e) = s
           /\ RemoveFirst(s, e) \in Seq(S)
           /\ Distinct(RemoveFirst(s, e))
           /\ ToSet(RemoveFirst(s, e)) = ToSet(s) \ {e}
<1>1. Len(s) \in Nat /\ DOMAIN s = 1 .. Len(s)
  BY LenProperties
<1>2. ASSUME NEW p \in 1 .. Len(s), s[p] = e
      PROVE  RemoveFirst(s, e) = RemoveAt(s, p)
  <2>1. RemoveFirst(s, s[p]) = RemoveAt(s, p)
    BY RemoveFirstAt
  <2>. QED  BY <1>2, <2>1
<1>3. ASSUME \A p \in 1 .. Len(s) : s[p] # e
      PROVE  RemoveFirst(s, e) = s
  BY <1>3 DEF RemoveFirst
<1>4. CASE \E p \in 1 .. Len(s) : s[p] = e
  <2>1. PICK p \in 1 .. Len(s) : s[p] = e
    BY <1>4
  <2> DEFINE r == RemoveAt(s, p)
  <2>2. RemoveFirst(s, e) = r
    BY <1>2, <2>1
  <2>3. /\ r \in Seq(S) /\ Len(r) = Len(s) - 1
        /\ \A i \in 1 .. Len(s) - 1 : r[i] = IF i < p THEN s[i] ELSE s[i + 1]
    BY RemoveAtProperties
  <2>4. /\ Distinct(r)
        /\ \A i \in 1 .. Len(s) - 1 : r[i] # s[p]
        /\ \A i \in 1 .. Len(s) : i # p => \E j \in 1 .. Len(s) - 1 : r[j] = s[i]
    BY RemoveAtDistinct
  <2>5. DOMAIN r = 1 .. Len(s) - 1
    BY <2>3, LenProperties
  <2> HIDE DEF r
  <2>6. ToSet(r) = ToSet(s) \ {e}
    <3>1. ASSUME NEW x \in ToSet(r)  PROVE x \in ToSet(s) \ {e}
      <4>1. PICK i \in 1 .. Len(s) - 1 : x = r[i]
        BY <2>5, <3>1 DEF ToSet
      <4>2. i \in 1 .. Len(s) /\ i + 1 \in 1 .. Len(s)
        BY <1>1
      <4>. QED  BY <1>1, <2>1, <2>3, <2>4, <4>1, <4>2 DEF ToSet
    <3>2. ASSUME NEW x \in ToSet(s), x # e  PROVE x \in ToSet(r)
      <4>1. PICK i \in 1 .. Len(s) : x = s[i]
        BY <1>1, <3>2 DEF ToSet
      <4>2. i # p
        BY <2>1, <3>2, <4>1
      <4>. QED  BY <2>4, <2>5, <4>1, <4>2 DEF ToSet
    <3>. QED  BY <3>1, <3>2
  <2>. QED  BY <1>2, <1>3, <2>2, <2>3, <2>4, <2>6
<1>5. CASE \A p \in 1 .. Len(s) : s[p] # e
  <2>1. e \notin ToSet(s)
    BY <1>1, <1>5 DEF ToSet
  <2>. QED  BY <1>2, <1>3, <1>5, <2>1
<1>. QED  BY <1>4, <1>5

\* What Append does to the elements.
LEMMA OneBehindElements ==
    ASSUME NEW S, NEW s \in Seq(S), NEW e \in S
    PROVE  /\ ToSet(Append(s, e)) = ToSet(s) \cup {e}
           /\ Distinct(s) /\ e \notin ToSet(s) => Distinct(Append(s, e))
<1> DEFINE t == Append(s, e)
<1>1. Len(s) \in Nat /\ DOMAIN s = 1 .. Len(s)
  BY LenProperties
<1>2. /\ t \in Seq(S) /\ Len(t) = Len(s) + 1
      /\ \A k \in 1 .. Len(s) : t[k] = s[k]
      /\ t[Len(s) + 1] = e
  BY OneBehind
<1>3. DOMAIN t = 1 .. Len(s) + 1
  BY <1>2, LenProperties
<1> HIDE DEF t
<1>4. ToSet(t) = ToSet(s) \cup {e}
  <2>1. ASSUME NEW x \in ToSet(t)  PROVE x \in ToSet(s) \cup {e}
    <3>1. PICK i \in 1 .. Len(s) + 1 : x = t[i]
      BY <1>3, <2>1 DEF ToSet
    <3>2. CASE i = Len(s) + 1
      BY <1>2, <3>1, <3>2
    <3>3. CASE i # Len(s) + 1
      <4>1. i \in 1 .. Len(s)
        BY <1>1, <3>3
      <4>. QED  BY <1>1, <1>2, <3>1, <4>1 DEF ToSet
    <3>. QED  BY <3>2, <3>3
  <2>2. ASSUME NEW x \in ToSet(s)  PROVE x \in ToSet(t)
    <3>1. PICK i \in 1 .. Len(s) : x = s[i]
      BY <1>1, <2>2 DEF ToSet
    <3>2. i \in 1 .. Len(s) + 1
      BY <1>1
    <3>. QED  BY <1>2, <1>3, <3>1, <3>2 DEF ToSet
  <2>3. e \in ToSet(t)
    <3>1. Len(s) + 1 \in 1 .. Len(s) + 1
      BY <1>1
    <3>. QED  BY <1>2, <1>3, <3>1 DEF ToSet
  <2>. QED  BY <2>1, <2>2, <2>3
<1>5. ASSUME Distinct(s), e \notin ToSet(s)  PROVE Distinct(t)
  <2>1. \A i \in 1 .. Len(s) : s[i] # e
    BY <1>1, <1>5 DEF ToSet
  <2>2. SUFFICES ASSUME NEW i \in 1 .. Len(s) + 1, NEW j \in 1 .. Len(s) + 1, t[i] = t[j], i # j
                 PROVE  FALSE
    BY <1>2 DEF Distinct
  <2>3. (i \in 1 .. Len(s) \/ i = Len(s) + 1) /\ (j \in 1 .. Len(s) \/ j = Len(s) + 1)
    BY <1>1
  <2>. QED  BY <1>2, <1>5, <2>1, <2>2, <2>3 DEF Distinct
<1>. QED  BY <1>4, <1>5 DEF t

================================================================================
