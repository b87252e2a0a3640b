--------------------------- MODULE SequenceFacts ---------------------------
(***************************************************************************)
(* Facts about lists that the proofs of this project cite: what the        *)
(* elements of a list are after one was added, taken or cut off.           *)
(***************************************************************************)
EXTENDS Integers, Sequences, WellFoundedInduction, TLAPS

\* The part of a list before or after a cut has elements of the same type.
LEMMA SubSeqType ==
    ASSUME NEW S, NEW s \in Seq(S), NEW m \in Nat \ {0}, NEW n \in 0 .. Len(s)
    PROVE  SubSeq(s, m, n) \in Seq(S)
  OBVIOUS

LEMMA ConcatType ==
    ASSUME NEW S, NEW s \in Seq(S), NEW t \in Seq(S)
    PROVE  s \o t \in Seq(S)
  OBVIOUS

LEMMA AppendType ==
    ASSUME NEW S, NEW s \in Seq(S), NEW x \in S
    PROVE  Append(s, x) \in Seq(S)
  OBVIOUS

LEMMA HeadTailType ==
    ASSUME NEW S, NEW s \in Seq(S), s # <<>>
    PROVE  Head(s) \in S /\ Tail(s) \in Seq(S)
  OBVIOUS

LEMMA ElementType ==
    ASSUME NEW S, NEW s \in Seq(S), NEW i \in 1 .. Len(s)
    PROVE  s[i] \in S
  OBVIOUS

LEMMA SameSeq ==
    ASSUME NEW S, NEW s \in Seq(S), NEW t \in Seq(S), Len(s) = Len(t),
           \A i \in 1 .. Len(s) : s[i] = t[i]
    PROVE  s = t
  OBVIOUS

\* How a list grows.
LEMMA AppendFacts ==
    ASSUME NEW S, NEW s \in Seq(S), NEW x \in S
    PROVE  /\ Len(Append(s, x)) = Len(s) + 1
           /\ \A i \in 1 .. Len(s) : Append(s, x)[i] = s[i]
           /\ Append(s, x)[Len(s) + 1] = x
           /\ \A i \in 1 .. Len(s) + 1 : i \in 1 .. Len(s) \/ i = Len(s) + 1
  OBVIOUS

\* How the first element is taken.
LEMMA TailFacts ==
    ASSUME NEW S, NEW s \in Seq(S), s # <<>>
    PROVE  /\ Len(s) \in Nat \ {0}
           /\ Head(s) = s[1]
           /\ Len(Tail(s)) = Len(s) - 1
           /\ \A i \in 1 .. Len(s) - 1 : Tail(s)[i] = s[i + 1]
  OBVIOUS

\* How a list is cut.
LEMMA CutFacts ==
    ASSUME NEW S, NEW s \in Seq(S), NEW n \in 0 .. Len(s)
    PROVE  /\ SubSeq(s, 1, n) \in Seq(S)
           /\ SubSeq(s, n + 1, Len(s)) \in Seq(S)
           /\ Len(SubSeq(s, 1, n)) = n
           /\ Len(SubSeq(s, n + 1, Len(s))) = Len(s) - n
           /\ \A i \in 1 .. n : SubSeq(s, 1, n)[i] = s[i]
           /\ \A i \in 1 .. Len(s) - n : SubSeq(s, n + 1, Len(s))[i] = s[n + i]
  OBVIOUS

LEMMA ConcatFacts ==
    ASSUME NEW S, NEW s \in Seq(S), NEW t \in Seq(S)
    PROVE  /\ s \o t \in Seq(S)
           /\ Len(s \o t) = Len(s) + Len(t)
           /\ \A i \in 1 .. Len(s) : (s \o t)[i] = s[i]
           /\ \A i \in 1 .. Len(t) : (s \o t)[Len(s) + i] = t[i]
  OBVIOUS

\* Elements move from the front of one list to the end of the one before it.
LEMMA MoveFacts ==
    ASSUME NEW S, NEW r \in Seq(S), NEW s \in Seq(S), NEW n \in 0 .. Len(s)
    PROVE  (r \o SubSeq(s, 1, n)) \o SubSeq(s, n + 1, Len(s)) = r \o s
<1>0. n \in Nat /\ n <= Len(s) /\ Len(s) \in Nat /\ Len(r) \in Nat
  OBVIOUS
<1> DEFINE a == SubSeq(s, 1, n)
           b == SubSeq(s, n + 1, Len(s))
           ra == r \o a
           rab == ra \o b
           rs == r \o s
<1>1. a \in Seq(S) /\ b \in Seq(S)
  BY CutFacts
<1>2. /\ Len(a) = n
      /\ Len(b) = Len(s) - n
      /\ \A i \in 1 .. n : a[i] = s[i]
      /\ \A i \in 1 .. Len(s) - n : b[i] = s[n + i]
  BY CutFacts
<1> HIDE DEF a, b
<1>3. /\ ra \in Seq(S)
      /\ Len(ra) = Len(r) + Len(a)
      /\ \A i \in 1 .. Len(r) : ra[i] = r[i]
      /\ \A i \in 1 .. Len(a) : ra[Len(r) + i] = a[i]
  BY <1>1, ConcatFacts
<1> HIDE DEF ra
<1> ra \in Seq(S)
  BY <1>3
<1>4. /\ rab \in Seq(S)
      /\ Len(rab) = Len(ra) + Len(b)
      /\ \A i \in 1 .. Len(ra) : rab[i] = ra[i]
      /\ \A i \in 1 .. Len(b) : rab[Len(ra) + i] = b[i]
  BY <1>1, ConcatFacts
<1>5. /\ rs \in Seq(S)
      /\ Len(rs) = Len(r) + Len(s)
      /\ \A i \in 1 .. Len(r) : rs[i] = r[i]
      /\ \A i \in 1 .. Len(s) : rs[Len(r) + i] = s[i]
  BY ConcatFacts
<1> HIDE DEF rab, rs
<1>6. ASSUME NEW i \in 1 .. Len(r) + Len(s) PROVE rab[i] = rs[i]
  <2>0. i \in Nat /\ i <= Len(r) + Len(s) /\ i >= 1
    BY <1>0
  <2>1. CASE i <= Len(r)
    <3>1. i \in 1 .. Len(r) /\ i \in 1 .. Len(ra)
      BY <1>0, <1>2, <1>3, <2>0, <2>1
    <3> QED BY <1>3, <1>4, <1>5, <3>1
  <2>2. CASE i > Len(r) /\ i <= Len(r) + n
    <3> DEFINE j == i - Len(r)
    <3>1. i = Len(r) + j /\ j \in 1 .. n /\ j \in 1 .. Len(s) /\ i \in 1 .. Len(ra)
      BY <1>0, <1>2, <1>3, <2>0, <2>2
    <3> HIDE DEF j
    <3>2. rab[i] = ra[i]
      BY <1>4, <3>1
    <3>3. ra[i] = a[j] /\ a[j] = s[j]
      BY <1>2, <1>3, <3>1
    <3>4. rs[i] = s[j]
      BY <1>5, <3>1
    <3> QED BY <3>2, <3>3, <3>4
  <2>3. CASE i > Len(r) + n
    <3> DEFINE j == i - Len(ra)
    <3>0. Len(ra) = Len(r) + n
      BY <1>2, <1>3
    <3>1. i = Len(ra) + j /\ j \in 1 .. Len(s) - n /\ i = Len(r) + (n + j) /\ n + j \in 1 .. Len(s)
      BY <1>0, <2>0, <2>3, <3>0
    <3> HIDE DEF j
    <3>2. rab[i] = b[j] /\ b[j] = s[n + j]
      BY <1>2, <1>4, <3>1
    <3>3. rs[i] = s[n + j]
      BY <1>5, <3>1
    <3> QED BY <3>2, <3>3
  <2> QED BY <1>0, <2>0, <2>1, <2>2, <2>3
<1>7. Len(rab) = Len(rs)
  BY <1>0, <1>2, <1>3, <1>4, <1>5
<1>8. rab = rs
  BY <1>4, <1>5, <1>6, <1>7, SameSeq
<1> QED BY <1>8 DEF a, b, ra, rab, rs

\* Taking the first element of a concatenation, and adding one at its end.
LEMMA ConcatTail ==
    ASSUME NEW S, NEW r \in Seq(S), NEW s \in Seq(S), r # <<>>
    PROVE  /\ r \o s # <<>>
           /\ Head(r \o s) = Head(r)
           /\ Tail(r) \o s = Tail(r \o s)
<1> DEFINE rs == r \o s
           tr == Tail(r)
           trs == tr \o s
           w == Tail(rs)
<1>1. /\ Len(r) \in Nat \ {0} /\ Len(s) \in Nat
      /\ Head(r) = r[1]
      /\ Len(tr) = Len(r) - 1
      /\ \A i \in 1 .. Len(r) - 1 : tr[i] = r[i + 1]
  BY TailFacts
<1>2. tr \in Seq(S)
  BY HeadTailType
<1> HIDE DEF tr
<1>3. /\ rs \in Seq(S)
      /\ Len(rs) = Len(r) + Len(s)
      /\ \A i \in 1 .. Len(r) : rs[i] = r[i]
      /\ \A i \in 1 .. Len(s) : rs[Len(r) + i] = s[i]
  BY ConcatFacts
<1>4. /\ trs \in Seq(S)
      /\ Len(trs) = Len(tr) + Len(s)
      /\ \A i \in 1 .. Len(tr) : trs[i] = tr[i]
      /\ \A i \in 1 .. Len(s) : trs[Len(tr) + i] = s[i]
  BY <1>2, ConcatFacts
<1> HIDE DEF rs, trs
<1>5. rs \in Seq(S) /\ rs # <<>>
  BY <1>1, <1>3
<1>6. /\ w \in Seq(S)
      /\ Head(rs) = rs[1]
      /\ Len(w) = Len(rs) - 1
      /\ \A i \in 1 .. Len(rs) - 1 : w[i] = rs[i + 1]
  BY <1>5, TailFacts, HeadTailType
<1> HIDE DEF w
<1>7. Len(trs) = Len(w) /\ Len(w) = Len(r) - 1 + Len(s)
  BY <1>1, <1>3, <1>4, <1>6
<1>8. ASSUME NEW i \in 1 .. Len(trs) PROVE trs[i] = w[i]
  <2>1. i \in Nat /\ 1 <= i /\ i <= Len(r) - 1 + Len(s)
    BY <1>1, <1>7
  <2>2. i \in 1 .. Len(rs) - 1
    BY <1>1, <1>3, <2>1
  <2>3. w[i] = rs[i + 1]
    BY <1>6, <2>2
  <2>4. CASE i \in 1 .. Len(r) - 1
    <3>1. i + 1 \in 1 .. Len(r)
      BY <1>1, <2>4
    <3> QED BY <1>1, <1>3, <1>4, <2>3, <2>4, <3>1
  <2>5. CASE i \notin 1 .. Len(r) - 1
    <3> DEFINE j == i - (Len(r) - 1)
    <3>1. j \in 1 .. Len(s) /\ i = Len(tr) + j /\ i + 1 = Len(r) + j
      BY <1>1, <2>1, <2>5
    <3> HIDE DEF j
    <3> QED BY <1>3, <1>4, <2>3, <3>1
  <2> QED BY <2>4, <2>5
<1>9. trs = w
  BY <1>4, <1>6, <1>7, <1>8, SameSeq
<1>10. Head(rs) = Head(r)
  BY <1>1, <1>3, <1>6
<1> QED BY <1>5, <1>9, <1>10 DEF rs, trs, tr, w

LEMMA ConcatAppend ==
    ASSUME NEW S, NEW r \in Seq(S), NEW s \in Seq(S), NEW x \in S
    PROVE  r \o Append(s, x) = Append(r \o s, x)
<1> DEFINE rs == r \o s
           sx == Append(s, x)
           u == r \o sx
           w == Append(rs, x)
<1>1. /\ Len(r) \in Nat /\ Len(s) \in Nat
      /\ Len(sx) = Len(s) + 1
      /\ \A i \in 1 .. Len(s) : sx[i] = s[i]
      /\ sx[Len(s) + 1] = x
  BY AppendFacts
<1>2. sx \in Seq(S)
  BY AppendType
<1> HIDE DEF sx
<1>3. /\ rs \in Seq(S)
      /\ Len(rs) = Len(r) + Len(s)
      /\ \A i \in 1 .. Len(r) : rs[i] = r[i]
      /\ \A i \in 1 .. Len(s) : rs[Len(r) + i] = s[i]
  BY ConcatFacts
<1>4. /\ u \in Seq(S)
      /\ Len(u) = Len(r) + Len(sx)
      /\ \A i \in 1 .. Len(r) : u[i] = r[i]
      /\ \A i \in 1 .. Len(sx) : u[Len(r) + i] = sx[i]
  BY <1>2, ConcatFacts
<1> HIDE DEF rs, u
<1>5. rs \in Seq(S)
  BY <1>3
<1>6. /\ w \in Seq(S)
      /\ Len(w) = Len(rs) + 1
      /\ \A i \in 1 .. Len(rs) : w[i] = rs[i]
      /\ w[Len(rs) + 1] = x
  BY <1>5, AppendFacts, AppendType
<1> HIDE DEF w
<1>7. Len(u) = Len(w) /\ Len(w) = Len(r) + Len(s) + 1
  BY <1>1, <1>3, <1>4, <1>6
<1>8. ASSUME NEW i \in 1 .. Len(u) PROVE u[i] = w[i]
  <2>1. i \in Nat /\ 1 <= i /\ i <= Len(r) + Len(s) + 1
    BY <1>1, <1>7
  <2>2. CASE i <= Len(r)
    <3>1. i \in 1 .. Len(r) /\ i \in 1 .. Len(rs)
      BY <1>1, <1>3, <2>1, <2>2
    <3> QED BY <1>3, <1>4, <1>6, <3>1
  <2>3. CASE i > Len(r)
    <3> DEFINE j == i - Len(r)
    <3>1. j \in 1 .. Len(s) + 1 /\ i = Len(r) + j
      BY <1>1, <2>1, <2>3
    <3> HIDE DEF j
    <3>2. u[i] = sx[j]
      BY <1>1, <1>4, <3>1
    <3>3. CASE j \in 1 .. Len(s)
      <4>1. Len(r) + j \in 1 .. Len(rs)
        BY <1>1, <1>3, <3>3
      <4> QED BY <1>1, <1>3, <1>6, <3>1, <3>2, <3>3, <4>1
    <3>4. CASE j = Len(s) + 1
      <4>1. Len(r) + j = Len(rs) + 1
        BY <1>1, <1>3, <3>4
      <4> QED BY <1>1, <1>6, <3>1, <3>2, <3>4, <4>1
    <3> QED BY <1>1, <3>1, <3>3, <3>4
  <2> QED BY <1>1, <2>1, <2>2, <2>3
<1>9. u = w
  BY <1>4, <1>6, <1>7, <1>8, SameSeq
<1> QED BY <1>9 DEF rs, sx, u, w

\* A set of numbers has a least one.
LEMMA Least ==
    ASSUME NEW T \in SUBSET Nat, T # {}
    PROVE  \E x \in T : \A y \in T : x <= y
<1>1. PICK x \in T : \A y \in T : ~(<<y, x>> \in OpToRel(<, Nat))
  BY NatLessThanWellFounded, WFMin
<1>2. ASSUME NEW y \in T PROVE x <= y
  <2>1. x \in Nat /\ y \in Nat /\ <<y, x>> \in Nat \X Nat
    OBVIOUS
  <2>2. ~(y < x)
    BY <1>1, <2>1 DEF OpToRel
  <2> QED BY <2>1, <2>2
<1> QED BY <1>2
\* What is left of a list of several elements.
LEMMA TailLeft ==
    ASSUME NEW S, NEW s \in Seq(S), s # <<>>, Len(s) # 1
    PROVE  Tail(s) \in Seq(S) /\ Tail(s) # <<>>
<1>1. Tail(s) \in Seq(S) /\ Len(Tail(s)) = Len(s) - 1 /\ Len(s) \in Nat \ {0}
  BY HeadTailType, TailFacts
<1>2. Len(Tail(s)) # 0
  BY <1>1
<1> QED BY <1>1, <1>2

LEMMA EmptyList ==
    ASSUME NEW S, NEW s \in Seq(S), Len(s) = 0
    PROVE  s = <<>>
  OBVIOUS

=============================================================================
