---------------------------- MODULE ReaderProofs ----------------------------
(***************************************************************************)
(* For every stream of bytes, however it is cut: the reader returns the    *)
(* replies of the stream, holds none back, and fails only where the stream *)
(* breaks the protocol.                                                    *)
(*                                                                         *)
(* The reader is always at one item of the stream, and its stack of tasks  *)
(* is the path of that item.  The heart of the argument is that the step   *)
(* of moveToNextTask is the step to the next path in preorder.             *)
(***************************************************************************)
EXTENDS Reader, SequenceFacts, FiniteSetTheorems

-----------------------------------------------------------------------------
(* The order of paths. *)

LEMMA BeforeItself ==
    ASSUME NEW p \in Seq(Nat)
    PROVE  ~Before(p, p)
<1> SUFFICES ASSUME Before(p, p) PROVE FALSE
  OBVIOUS
<1>1. PICK k \in 1 .. Len(p) : Len(p) >= k => p[k] < p[k]
  BY DEF Before
<1>2. p[k] \in Nat /\ Len(p) \in Nat
  BY ElementType
<1> QED BY <1>1, <1>2

LEMMA BeforeBack ==
    ASSUME NEW p \in Seq(Nat), NEW q \in Seq(Nat), Before(p, q), Before(q, p)
    PROVE  FALSE
<1>1. PICK k \in 1 .. Len(q) :
        Len(p) >= k - 1 /\ (\A i \in 1 .. k - 1 : p[i] = q[i]) /\ (Len(p) >= k => p[k] < q[k])
  BY DEF Before
<1>2. PICK l \in 1 .. Len(p) :
        Len(q) >= l - 1 /\ (\A i \in 1 .. l - 1 : q[i] = p[i]) /\ (Len(q) >= l => q[l] < p[l])
  BY DEF Before
<1>3. /\ Len(p) \in Nat /\ Len(q) \in Nat
      /\ \A i \in 1 .. Len(p) : p[i] \in Nat
      /\ \A i \in 1 .. Len(q) : q[i] \in Nat
  BY ElementType
<1>4. CASE k < l
  <2>1. Len(p) >= k /\ p[k] < q[k] /\ k \in 1 .. l - 1
    BY <1>1, <1>2, <1>3, <1>4
  <2> QED BY <1>2, <1>3, <2>1
<1>5. CASE l <= k
  <2>1. Len(q) >= l /\ q[l] < p[l] /\ (l < k => l \in 1 .. k - 1)
    BY SMTT(30), <1>1, <1>2, <1>3, <1>5
  <2>2. q[l] \in Nat /\ p[l] \in Nat
    BY <1>2, <1>3, <2>1
  <2>3. l < k => FALSE
    BY <1>1, <2>1, <2>2
  <2>4. l = k => FALSE
    BY <1>1, <1>2, <2>1, <2>2
  <2> QED BY <1>1, <1>2, <1>5, <2>3, <2>4
<1> QED BY <1>1, <1>2, <1>4, <1>5

\* What comes first behind an array that has elements.
LEMMA FirstElement ==
    ASSUME NEW q \in Seq(Nat)
    PROVE  /\ Append(q, 0) \in Seq(Nat)
           /\ Before(q, Append(q, 0))
           /\ \A y \in Seq(Nat) : Before(q, y) /\ Before(y, Append(q, 0)) => FALSE
<1> DEFINE x == Append(q, 0)
<1>1. x \in Seq(Nat) /\ Len(x) = Len(q) + 1 /\ Len(q) \in Nat
      /\ (\A i \in 1 .. Len(q) : x[i] = q[i]) /\ x[Len(q) + 1] = 0
  BY AppendType, AppendFacts
<1> HIDE DEF x
<1>2. Before(q, x)
  <2>1. /\ Len(q) + 1 \in 1 .. Len(x)
        /\ \A i \in 1 .. (Len(q) + 1) - 1 : q[i] = x[i]
        /\ Len(q) >= (Len(q) + 1) - 1 /\ ~(Len(q) >= Len(q) + 1)
    BY <1>1
  <2> QED BY <2>1 DEF Before
<1>3. ASSUME NEW y \in Seq(Nat), Before(q, y), Before(y, x) PROVE FALSE
  <2>1. PICK k \in 1 .. Len(y) :
          Len(q) >= k - 1 /\ (\A i \in 1 .. k - 1 : q[i] = y[i]) /\ (Len(q) >= k => q[k] < y[k])
    BY <1>3 DEF Before
  <2>2. PICK l \in 1 .. Len(x) :
          Len(y) >= l - 1 /\ (\A i \in 1 .. l - 1 : y[i] = x[i]) /\ (Len(y) >= l => y[l] < x[l])
    BY <1>3 DEF Before
  <2>3. /\ Len(y) \in Nat
        /\ \A i \in 1 .. Len(y) : y[i] \in Nat
        /\ \A i \in 1 .. Len(q) : q[i] \in Nat
    BY ElementType
  <2>4. CASE k < l
    <3>1. k \in 1 .. Len(q) /\ k \in 1 .. l - 1
      BY <1>1, <2>1, <2>2, <2>4
    <3>2. y[k] = q[k] /\ q[k] < y[k] /\ q[k] \in Nat
      BY <1>1, <2>1, <2>2, <2>3, <3>1
    <3> QED BY <3>2
  <2>5. CASE l <= k
    <3>1. l \in 1 .. Len(y) /\ y[l] < x[l] /\ y[l] \in Nat
      BY <2>1, <2>2, <2>3, <2>5
    <3>2. CASE l < k
      <4>1. l \in 1 .. k - 1 /\ l \in 1 .. Len(q)
        BY <1>1, <2>1, <2>2, <3>2
      <4>2. q[l] = y[l] /\ x[l] = q[l]
        BY <1>1, <2>1, <4>1
      <4> QED BY <3>1, <4>2
    <3>3. CASE l = k
      <4>1. CASE k \in 1 .. Len(q)
        <5>1. q[k] < y[k] /\ x[k] = q[k] /\ q[k] \in Nat
          BY SMTT(30), <1>1, <2>1, <2>3, <4>1
        <5> QED BY <3>1, <3>3, <5>1
      <4>2. CASE k = Len(q) + 1
        BY <1>1, <3>1, <3>3, <4>2
      <4> QED BY <1>1, <2>1, <4>1, <4>2
    <3> QED BY <2>1, <2>2, <2>5, <3>2, <3>3
  <2> QED BY <2>1, <2>2, <2>4, <2>5
<1> QED BY <1>1, <1>2, <1>3 DEF x

\* Nothing continues q, or goes beyond it behind place i.
Blocks(q, i, y) ==
    /\ Len(y) > Len(q) => \E j \in 1 .. Len(q) : y[j] # q[j]
    /\ \A j \in i + 1 .. Len(q) :
          Len(y) >= j /\ (\A l \in 1 .. j - 1 : y[l] = q[l]) => y[j] <= q[j]

\* The next element of an array, at place i.
NextAt(q, i) == Append(SubSeq(q, 1, i - 1), q[i] + 1)

LEMMA NextAtFacts ==
    ASSUME NEW q \in Seq(Nat), NEW i \in 1 .. Len(q)
    PROVE  /\ NextAt(q, i) \in Seq(Nat)
           /\ Len(NextAt(q, i)) = i
           /\ \A j \in 1 .. i - 1 : NextAt(q, i)[j] = q[j]
           /\ NextAt(q, i)[i] = q[i] + 1
<1>1. Len(q) \in Nat /\ q[i] \in Nat /\ i - 1 \in 0 .. Len(q)
  BY ElementType
<1> DEFINE f == SubSeq(q, 1, i - 1)
<1>2. f \in Seq(Nat) /\ Len(f) = i - 1 /\ \A j \in 1 .. i - 1 : f[j] = q[j]
  BY <1>1, CutFacts
<1> HIDE DEF f
<1>3. q[i] + 1 \in Nat
  BY <1>1
<1>4. /\ Append(f, q[i] + 1) \in Seq(Nat) /\ Len(Append(f, q[i] + 1)) = Len(f) + 1
      /\ \A j \in 1 .. Len(f) : Append(f, q[i] + 1)[j] = f[j]
      /\ Append(f, q[i] + 1)[Len(f) + 1] = q[i] + 1
  BY <1>2, <1>3, AppendType, AppendFacts
<1> QED BY <1>2, <1>4 DEF NextAt, f

LEMMA NextElement ==
    ASSUME NEW q \in Seq(Nat), NEW i \in 1 .. Len(q)
    PROVE  /\ Before(q, NextAt(q, i))
           /\ \A y \in Seq(Nat) :
                 Blocks(q, i, y) /\ Before(q, y) /\ Before(y, NextAt(q, i)) => FALSE
<1> DEFINE x == NextAt(q, i)
<1>1. /\ x \in Seq(Nat) /\ Len(x) = i /\ x[i] = q[i] + 1
      /\ \A j \in 1 .. i - 1 : x[j] = q[j]
  BY NextAtFacts
<1> HIDE DEF x
<1>0. Len(q) \in Nat /\ \A j \in 1 .. Len(q) : q[j] \in Nat
  BY ElementType
<1>2. Before(q, x)
  <2>1. /\ i \in 1 .. Len(x) /\ Len(q) >= i - 1 /\ q[i] < x[i]
        /\ \A j \in 1 .. i - 1 : q[j] = x[j]
    BY <1>0, <1>1
  <2> QED BY <2>1 DEF Before
<1>3. ASSUME NEW y \in Seq(Nat), Blocks(q, i, y), Before(q, y), Before(y, x) PROVE FALSE
  <2>1. PICK k \in 1 .. Len(y) :
          Len(q) >= k - 1 /\ (\A j \in 1 .. k - 1 : q[j] = y[j]) /\ (Len(q) >= k => q[k] < y[k])
    BY <1>3 DEF Before
  <2>2. PICK l \in 1 .. Len(x) :
          Len(y) >= l - 1 /\ (\A j \in 1 .. l - 1 : y[j] = x[j]) /\ (Len(y) >= l => y[l] < x[l])
    BY <1>3 DEF Before
  <2>3. Len(y) \in Nat /\ \A j \in 1 .. Len(y) : y[j] \in Nat
    BY ElementType
  <2>4. k <= Len(q)
    <3>0. k <= Len(q) \/ k = Len(q) + 1
      <4>1. PICK n : n = Len(q)
        OBVIOUS
      <4>2. n \in Nat /\ k \in Nat /\ n >= k - 1
        BY <1>0, <2>1, <2>3, <4>1
      <4>3. k <= n \/ k = n + 1
        BY ONLY <4>2
      <4> QED BY <4>1, <4>3
    <3>1. ASSUME k = Len(q) + 1 PROVE FALSE
      <4>1. Len(y) > Len(q) /\ \A j \in 1 .. Len(q) : y[j] = q[j]
        BY SMTT(30), <1>0, <2>1, <2>3, <3>1
      <4> QED BY <1>3, <4>1 DEF Blocks
    <3> QED BY <3>0, <3>1
  <2>5. k <= i
    <3>1. CASE k > i
      <4>1. k \in i + 1 .. Len(q) /\ Len(y) >= k /\ \A j \in 1 .. k - 1 : y[j] = q[j]
        BY <2>1, <2>3, <2>4, <3>1
      <4>2. y[k] <= q[k]
        BY <1>3, <4>1 DEF Blocks
      <4> QED BY SMTT(30), <1>0, <2>1, <2>3, <2>4, <4>2
    <3> QED BY <2>1, <3>1
  <2>6. q[k] < y[k] /\ q[k] \in Nat /\ y[k] \in Nat
    BY <1>0, <2>1, <2>3, <2>4
  <2>7. CASE k < l
    <3>1. k \in 1 .. l - 1 /\ k \in 1 .. i - 1
      BY <1>1, <2>1, <2>2, <2>7
    <3> QED BY <1>1, <2>2, <2>6, <3>1
  <2>8. CASE l <= k
    <3>1. l \in 1 .. Len(y) /\ y[l] < x[l] /\ y[l] \in Nat
      BY SMTT(30), <2>1, <2>2, <2>3, <2>8
    <3>2. CASE l < k
      <4>1. l \in 1 .. k - 1 /\ l \in 1 .. i - 1
        BY <1>1, <2>1, <2>2, <2>5, <3>2
      <4> QED BY <1>1, <2>1, <3>1, <4>1
    <3>3. CASE l = k
      <4>1. CASE k < i
        <5>1. k \in 1 .. i - 1
          BY <4>1
        <5> QED BY <1>1, <2>6, <3>1, <3>3, <5>1
      <4>2. CASE k = i
        BY SMTT(30), <1>1, <2>6, <3>1, <3>3, <4>2
      <4> QED BY <2>5, <4>1, <4>2
    <3> QED BY <2>1, <2>2, <2>8, <3>2, <3>3
  <2> QED BY <2>1, <2>2, <2>7, <2>8
<1> QED BY <1>2, <1>3 DEF x
-----------------------------------------------------------------------------
(* The items of a stream: P has their paths, A what they announce. *)

Nest(P, A, m) ==
    /\ m \in Nat \ {0}
    /\ \A j \in 1 .. m : P[j] \in Seq(Nat) /\ P[j] # <<>>
    /\ \A j \in 1 .. m - 1 : A[j] \in Nat
    /\ \A i, j \in 1 .. m : i < j => Before(P[i], P[j])
    /\ \A j \in 1 .. m : \A k \in 2 .. Len(P[j]) : \E i \in 1 .. m - 1 :
          P[i] = SubSeq(P[j], 1, k - 1) /\ P[j][k] < A[i]
    /\ \A i \in 1 .. m - 1 : \A k \in 0 .. A[i] - 1 :
          (\E j \in 1 .. m : P[j] = Append(P[i], k)) \/ Before(P[m], Append(P[i], k))
    /\ \A r \in 1 .. P[m][1] : \E j \in 1 .. m : P[j] = <<r>>

LEMMA OnePlace ==
    ASSUME NEW P, NEW A, NEW m, Nest(P, A, m),
           NEW i \in 1 .. m, NEW j \in 1 .. m, P[i] = P[j]
    PROVE  i = j
<1>1. m \in Nat /\ P[i] \in Seq(Nat)
  BY DEF Nest
<1>2. ~(i < j) /\ ~(j < i)
  BY <1>1, BeforeItself DEF Nest
<1> QED BY <1>1, <1>2

LEMMA Adjacent ==
    ASSUME NEW P, NEW A, NEW m, Nest(P, A, m), NEW k \in 1 .. m - 1, NEW x \in Seq(Nat),
           Before(P[k], x),
           \A j \in 1 .. m : Before(P[k], P[j]) /\ Before(P[j], x) => FALSE,
           (\E j \in 1 .. m : P[j] = x) \/ Before(P[m], x)
    PROVE  P[k + 1] = x
<1>1. m \in Nat /\ k \in 1 .. m /\ k + 1 \in 1 .. m /\ m \in 1 .. m
  BY DEF Nest
<1>2. \A j \in 1 .. m : P[j] \in Seq(Nat)
  BY DEF Nest
<1>3. Before(P[k], P[m]) /\ Before(P[k], P[k + 1])
  <2>1. k < m /\ k < k + 1
    BY <1>1
  <2> QED BY <1>1, <2>1 DEF Nest
<1>4. ~Before(P[m], x)
  BY <1>1, <1>3
<1>5. PICK j \in 1 .. m : P[j] = x
  BY <1>4
<1>6. ~(j < k)
  BY <1>1, <1>2, <1>5, BeforeBack DEF Nest
<1>7. j # k
  BY <1>1, <1>2, <1>5, BeforeItself
<1>8. ~(k + 1 < j)
  <2>1. k + 1 < j => Before(P[k + 1], P[j])
    BY <1>1 DEF Nest
  <2> QED BY <1>1, <1>3, <1>5, <2>1
<1>9. j = k + 1
  BY <1>1, <1>6, <1>7, <1>8
<1> QED BY <1>5, <1>9

LEMMA ChildNext ==
    ASSUME NEW P, NEW A, NEW m, Nest(P, A, m), NEW k \in 1 .. m - 1, A[k] > 0
    PROVE  P[k + 1] = Append(P[k], 0)
<1>1. m \in Nat /\ k \in 1 .. m /\ A[k] \in Nat
  BY DEF Nest
<1>2. P[k] \in Seq(Nat) /\ \A j \in 1 .. m : P[j] \in Seq(Nat)
  BY <1>1 DEF Nest
<1>3. 0 \in 0 .. A[k] - 1
  BY <1>1
<1>4. (\E j \in 1 .. m : P[j] = Append(P[k], 0)) \/ Before(P[m], Append(P[k], 0))
  BY <1>3 DEF Nest
<1>5. PICK x : x = Append(P[k], 0)
  OBVIOUS
<1>6. x \in Seq(Nat) /\ Before(P[k], x)
      /\ \A j \in 1 .. m : Before(P[k], P[j]) /\ Before(P[j], x) => FALSE
  BY <1>2, <1>5, FirstElement
<1>7. (\E j \in 1 .. m : P[j] = x) \/ Before(P[m], x)
  BY <1>4, <1>5
<1> QED BY <1>5, <1>6, <1>7, Adjacent

\* The element at place l of a path is the last one of its array.
LastAt(P, A, m, q, l) ==
    \E j \in 1 .. m - 1 : P[j] = SubSeq(q, 1, l - 1) /\ q[l] = A[j] - 1

\* Two paths that agree up to a place have the same beginning.
LEMMA SameStart ==
    ASSUME NEW p \in Seq(Nat), NEW q \in Seq(Nat), NEW n \in Nat, n <= Len(p), n <= Len(q),
           \A i \in 1 .. n : p[i] = q[i]
    PROVE  SubSeq(p, 1, n) = SubSeq(q, 1, n)
<1>1. n \in 0 .. Len(p) /\ n \in 0 .. Len(q)
  OBVIOUS
<1> DEFINE a == SubSeq(p, 1, n)
           b == SubSeq(q, 1, n)
<1>2. a \in Seq(Nat) /\ Len(a) = n /\ \A i \in 1 .. n : a[i] = p[i]
  BY <1>1, CutFacts
<1>3. b \in Seq(Nat) /\ Len(b) = n /\ \A i \in 1 .. n : b[i] = q[i]
  BY <1>1, CutFacts
<1> HIDE DEF a, b
<1>4. a = b
  BY <1>2, <1>3, SameSeq
<1> QED BY <1>4 DEF a, b

LEMMA WholeStart ==
    ASSUME NEW p \in Seq(Nat)
    PROVE  SubSeq(p, 1, Len(p)) = p
  OBVIOUS

LEMMA NothingInside ==
    ASSUME NEW P, NEW A, NEW m, Nest(P, A, m), NEW k \in 1 .. m - 1, A[k] = 0,
           NEW i \in 1 .. Len(P[k]),
           \A l \in i + 1 .. Len(P[k]) : LastAt(P, A, m, P[k], l),
           NEW j \in 1 .. m
    PROVE  Blocks(P[k], i, P[j])
<1>1. m \in Nat /\ k \in 1 .. m /\ \A n \in 1 .. m - 1 : A[n] \in Nat
  BY DEF Nest
<1>2. PICK q, y : q = P[k] /\ y = P[j]
  OBVIOUS
<1>3. q \in Seq(Nat) /\ y \in Seq(Nat) /\ Len(q) \in Nat /\ Len(y) \in Nat
  BY <1>1, <1>2 DEF Nest
<1>4. /\ \A n \in 1 .. Len(q) : q[n] \in Nat
      /\ \A n \in 1 .. Len(y) : y[n] \in Nat
  BY <1>3, ElementType
<1>5. q # <<>> /\ Len(q) > 0
  BY <1>1, <1>2, <1>3, EmptyList DEF Nest
<1>6. \A n \in 2 .. Len(y) : \E o \in 1 .. m - 1 : P[o] = SubSeq(y, 1, n - 1) /\ y[n] < A[o]
  BY <1>2 DEF Nest
<1>7. ASSUME Len(y) > Len(q), \A n \in 1 .. Len(q) : y[n] = q[n] PROVE FALSE
  <2>1. Len(q) + 1 \in 2 .. Len(y) /\ (Len(q) + 1) - 1 = Len(q)
    BY <1>3, <1>5, <1>7
  <2>2. PICK o \in 1 .. m - 1 : P[o] = SubSeq(y, 1, Len(q)) /\ y[Len(q) + 1] < A[o]
    BY <1>6, <2>1
  <2>3. SubSeq(y, 1, Len(q)) = q
    BY <1>3, <1>7, SameStart, WholeStart
  <2>4. o \in 1 .. m /\ P[o] = P[k]
    BY <1>1, <1>2, <2>2, <2>3
  <2>5. o = k
    BY <1>1, <2>4, OnePlace
  <2>6. y[Len(q) + 1] \in Nat
    BY <1>3, <1>4, <1>7
  <2> QED BY <2>2, <2>5, <2>6
<1>8. ASSUME NEW l \in i + 1 .. Len(q), Len(y) >= l, \A n \in 1 .. l - 1 : y[n] = q[n]
      PROVE  y[l] <= q[l]
  <2>1. l \in 2 .. Len(y) /\ l \in Nat /\ l - 1 \in Nat /\ l - 1 <= Len(q) /\ l - 1 <= Len(y)
    BY <1>2, <1>3, <1>8
  <2>2. PICK o \in 1 .. m - 1 : P[o] = SubSeq(y, 1, l - 1) /\ y[l] < A[o]
    BY <1>6, <2>1
  <2>3. PICK p \in 1 .. m - 1 : P[p] = SubSeq(q, 1, l - 1) /\ q[l] = A[p] - 1
    BY <1>2, <1>8 DEF LastAt
  <2>4. P[o] = P[p] /\ o \in 1 .. m /\ p \in 1 .. m
    BY <1>1, <1>3, <1>8, <2>1, <2>2, <2>3, SameStart
  <2>5. o = p
    BY <2>4, OnePlace
  <2>6. y[l] \in Nat /\ A[p] \in Nat
    BY <1>1, <1>4, <2>1
  <2> QED BY <2>2, <2>3, <2>5, <2>6
<1>9. Blocks(q, i, y)
  BY <1>3, <1>7, <1>8 DEF Blocks
<1> QED BY <1>2, <1>9

\* moveToNextTask finds the next element of the innermost array that has one.
LEMMA SiblingNext ==
    ASSUME NEW P, NEW A, NEW m, Nest(P, A, m), NEW k \in 1 .. m - 1, A[k] = 0,
           NEW i \in 2 .. Len(P[k]),
           ~LastAt(P, A, m, P[k], i),
           \A l \in i + 1 .. Len(P[k]) : LastAt(P, A, m, P[k], l)
    PROVE  P[k + 1] = NextAt(P[k], i)
<1>1. m \in Nat /\ k \in 1 .. m /\ \A n \in 1 .. m - 1 : A[n] \in Nat
  BY DEF Nest
<1>2. PICK q : q = P[k]
  OBVIOUS
<1>3. q \in Seq(Nat) /\ Len(q) \in Nat /\ \A j \in 1 .. m : P[j] \in Seq(Nat)
  BY SMTT(30), <1>1, <1>2 DEF Nest
<1>4. i \in 1 .. Len(q) /\ q[i] \in Nat
  BY <1>2, <1>3, ElementType
<1>5. PICK x : x = NextAt(q, i)
  OBVIOUS
<1>6. PICK o \in 1 .. m - 1 : P[o] = SubSeq(q, 1, i - 1) /\ q[i] < A[o]
  BY <1>1, <1>2 DEF Nest
<1>7. q[i] # A[o] - 1
  BY <1>2, <1>6 DEF LastAt
<1>8. q[i] + 1 \in 0 .. A[o] - 1
  <2>1. PICK d, a : d = q[i] /\ a = A[o]
    OBVIOUS
  <2>2. d \in Nat /\ a \in Nat /\ d < a /\ d # a - 1
    BY <1>1, <1>4, <1>6, <1>7, <2>1
  <2>3. d + 1 \in 0 .. a - 1
    BY ONLY <2>2
  <2> QED BY <2>1, <2>3
<1>9. (\E j \in 1 .. m : P[j] = x) \/ Before(P[m], x)
  <2>1. Append(P[o], q[i] + 1) = x
    BY <1>5, <1>6 DEF NextAt
  <2> QED BY <1>8, <2>1 DEF Nest
<1>10. \A j \in 1 .. m : Blocks(q, i, P[j])
  BY <1>1, <1>2, <1>4, NothingInside
<1>11. /\ x \in Seq(Nat) /\ Before(q, x)
       /\ \A j \in 1 .. m : Before(q, P[j]) /\ Before(P[j], x) => FALSE
  BY <1>3, <1>4, <1>5, <1>10, NextAtFacts, NextElement
<1>12. P[k + 1] = x
  BY <1>2, <1>9, <1>11, Adjacent
<1> QED BY <1>2, <1>5, <1>12

\* When there is none, the next item is the next reply.
LEMMA RootNext ==
    ASSUME NEW P, NEW A, NEW m, Nest(P, A, m), NEW k \in 1 .. m - 1, A[k] = 0,
           \A l \in 2 .. Len(P[k]) : LastAt(P, A, m, P[k], l)
    PROVE  P[k + 1] = <<P[k][1] + 1>>
<1>1. m \in Nat /\ k \in 1 .. m /\ m \in 1 .. m
  BY DEF Nest
<1>2. PICK q, z : q = P[k] /\ z = P[m]
  OBVIOUS
<1>3. q \in Seq(Nat) /\ z \in Seq(Nat) /\ Len(q) \in Nat /\ Len(z) \in Nat
      /\ \A j \in 1 .. m : P[j] \in Seq(Nat)
  BY <1>1, <1>2 DEF Nest
<1>4. Len(q) > 0 /\ Len(z) > 0
  BY <1>1, <1>2, <1>3, EmptyList DEF Nest
<1>5. 1 \in 1 .. Len(q) /\ q[1] \in Nat /\ z[1] \in Nat
  BY <1>3, <1>4, ElementType
<1>6. PICK x : x = NextAt(q, 1)
  OBVIOUS
<1>7. x \in Seq(Nat) /\ Len(x) = 1 /\ x[1] = q[1] + 1
  BY ZenonT(60), <1>3, <1>5, <1>6, NextAtFacts
<1>8. x = <<q[1] + 1>>
  BY <1>5, <1>7
<1>9. \A j \in 1 .. m : Blocks(q, 1, P[j])
  BY <1>2, <1>5, NothingInside
<1>10. /\ Before(q, x)
       /\ \A j \in 1 .. m : Before(q, P[j]) /\ Before(P[j], x) => FALSE
  BY <1>3, <1>5, <1>6, <1>9, NextElement
<1>11. (\E j \in 1 .. m : P[j] = x) \/ Before(P[m], x)
  <2>1. CASE q[1] + 1 \in 1 .. z[1]
    BY <1>2, <1>8, <2>1 DEF Nest
  <2>2. CASE z[1] < q[1] + 1
    <3>1. 1 \in 1 .. Len(x) /\ z[1] < x[1] /\ Len(z) >= 1 - 1 /\ \A n \in 1 .. 1 - 1 : z[n] = x[n]
      BY <1>3, <1>7, <2>2
    <3>2. Before(z, x)
      BY <3>1 DEF Before
    <3> QED BY <1>2, <3>2
  <2> QED BY <1>5, <2>1, <2>2
<1>12. P[k + 1] = x
  BY <1>2, <1>7, <1>10, <1>11, Adjacent
<1> QED BY <1>2, <1>8, <1>12

-----------------------------------------------------------------------------
(* Numbers. *)

LEMMA MinFacts ==
    ASSUME NEW S \in SUBSET Nat, S # {}
    PROVE  Min(S) \in S /\ \A j \in S : Min(S) <= j
<1>1. \E i \in S : \A j \in S : i <= j
  BY Least
<1> QED BY <1>1 DEF Min

LEMMA MaxFacts ==
    ASSUME NEW n \in Nat, NEW S \in SUBSET (0 .. n), S # {}
    PROVE  Max(S) \in S /\ \A j \in S : j <= Max(S)
<1> DEFINE T == {i \in Nat : n - i \in S}
<1>1. T \in SUBSET Nat /\ T # {}
  <2>1. PICK x \in S : TRUE
    OBVIOUS
  <2>2. n - x \in Nat /\ n - (n - x) = x
    OBVIOUS
  <2> QED BY <2>2
<1>2. PICK t \in T : \A i \in T : t <= i
  <2> HIDE DEF T
  <2> QED BY <1>1, Least
<1>3. n - t \in S /\ t \in Nat
  BY <1>2
<1>4. ASSUME NEW j \in S PROVE j <= n - t
  <2>1. n - j \in Nat /\ n - (n - j) = j
    OBVIOUS
  <2>2. n - j \in T
    BY <2>1
  <2>3. t <= n - j
    BY <1>2, <2>2
  <2> QED BY <1>3, <2>1, <2>3
<1>5. \E i \in S : \A j \in S : j <= i
  BY <1>3, <1>4
<1> QED BY <1>5 DEF Max

\* f has the values of the first k digits.
Values(s, k, f) ==
    f = [i \in 0 .. k |-> IF i = 0 THEN 0 ELSE f[i - 1] * 10 + (s[i] - 48)]

LEMMA ValuesExist ==
    ASSUME NEW s \in Seq(0 .. 255), NEW n \in 0 .. Len(s)
    PROVE  \E f : Values(s, n, f) /\ \A i \in 0 .. n : f[i] \in Int
<1> DEFINE Q(k) == \E f : Values(s, k, f) /\ \A i \in 0 .. k : f[i] \in Int
           T == {k \in 0 .. Len(s) : ~Q(k)}
<1>0. Len(s) \in Nat
  OBVIOUS
<1> SUFFICES ASSUME T # {} PROVE FALSE
  OBVIOUS
<1>1. T \in SUBSET Nat
  BY <1>0
<1>2. PICK k \in T : \A i \in T : k <= i
  <2> HIDE DEF T
  <2> QED BY <1>1, Least
<1>3. k \in 0 .. Len(s) /\ k \in Nat /\ ~Q(k)
  BY <1>0, <1>2
<1>4. CASE k = 0
  <2> DEFINE f == [i \in 0 .. 0 |-> 0]
  <2>1. \A i \in 0 .. 0 : i = 0
    OBVIOUS
  <2>2. f = [i \in 0 .. 0 |-> IF i = 0 THEN 0 ELSE f[i - 1] * 10 + (s[i] - 48)]
        /\ \A i \in 0 .. 0 : f[i] \in Int
    BY <2>1
  <2> HIDE DEF f
  <2> QED BY <1>3, <1>4, <2>2 DEF Values
<1>5. CASE k # 0
  <2>1. k - 1 \in 0 .. Len(s) /\ ~(k <= k - 1)
    BY <1>0, <1>3, <1>5
  <2>2. k - 1 \notin T
    BY <1>2, <2>1
  <2>3. Q(k - 1)
    BY <2>1, <2>2
  <2>4. PICK g : Values(s, k - 1, g) /\ \A i \in 0 .. k - 1 : g[i] \in Int
    BY <2>3
  <2>5. PICK d \in Int : d = s[k]
    BY SMTT(30), <1>3, <1>5, ElementType
  <2>6. k - 1 \in 0 .. k - 1 /\ k - 1 \in 0 .. k /\ k - 1 # k /\ k \in 0 .. k
    BY <1>3, <1>5
  <2>7. PICK e : e = g[k - 1] * 10 + (d - 48)
    OBVIOUS
  <2>71. e \in Int
    <3>1. PICK h \in Int : h = g[k - 1]
      BY <2>4, <2>6
    <3> QED BY <2>5, <2>7, <3>1
  <2> DEFINE f == [i \in 0 .. k |-> IF i = k THEN e ELSE g[i]]
  <2>8. ASSUME NEW i \in 0 .. k
        PROVE  /\ f[i] = IF i = 0 THEN 0 ELSE f[i - 1] * 10 + (s[i] - 48)
               /\ f[i] \in Int
    <3>1. CASE i = 0
      <4>1. f[i] = g[0] /\ 0 \in 0 .. k - 1
        BY <1>3, <1>5, <3>1
      <4>2. g[0] = 0
        BY <2>4, <4>1 DEF Values
      <4> QED BY <3>1, <4>1, <4>2
    <3>2. CASE i # 0 /\ i # k
      <4>1. /\ i \in 0 .. k - 1 /\ i - 1 \in 0 .. k - 1 /\ i - 1 # k /\ i - 1 \in 0 .. k
        BY <1>3, <3>2
      <4>2. f[i] = g[i] /\ f[i - 1] = g[i - 1]
        BY <3>2, <4>1
      <4> HIDE DEF f
      <4>3. g[i] = g[i - 1] * 10 + (s[i] - 48) /\ g[i] \in Int
        BY <2>4, <3>2, <4>1 DEF Values
      <4> QED BY <3>2, <4>2, <4>3
    <3>3. CASE i # 0 /\ i = k
      <4>1. f[k - 1] = g[k - 1] /\ f[k] = e
        BY <2>6
      <4> HIDE DEF f
      <4> QED BY <2>5, <2>7, <2>71, <3>3, <4>1
    <3> QED BY <3>1, <3>2, <3>3
  <2>9. f = [i \in 0 .. k |-> f[i]]
    OBVIOUS
  <2> HIDE DEF f
  <2>10. Values(s, k, f)
    BY <2>8, <2>9 DEF Values
  <2> QED BY <1>3, <2>8, <2>10
<1> QED BY <1>4, <1>5

LEMMA DecimalType ==
    ASSUME NEW s \in Seq(0 .. 255)
    PROVE  Decimal(s) \in Int
<1> DEFINE n == Len(s)
           f == CHOOSE f : Values(s, n, f)
<1>1. n \in 0 .. Len(s) /\ n \in 0 .. n
  OBVIOUS
<1>2. Decimal(s) = f[n]
  BY DEF Decimal, Values
<1>3. PICK g : Values(s, n, g) /\ \A i \in 0 .. n : g[i] \in Int
  BY <1>1, ValuesExist
<1>4. Values(s, n, f)
  BY <1>3
<1> HIDE DEF f
<1>50. n \in Nat /\ n = Len(s)
  OBVIOUS
<1> HIDE DEF n
<1>51. ASSUME NEW i \in 0 .. n PROVE f[i] = IF i = 0 THEN 0 ELSE f[i - 1] * 10 + (s[i] - 48)
  BY <1>4 DEF Values
<1>5. n \in Nat /\ \A i \in 0 .. n : f[i] = IF i = 0 THEN 0 ELSE f[i - 1] * 10 + (s[i] - 48)
  BY <1>50, <1>51
<1> DEFINE T == {i \in 0 .. n : f[i] \notin Int}
<1>6. SUFFICES ASSUME T # {} PROVE FALSE
  BY <1>1, <1>2
<1>7. T \in SUBSET Nat
  OBVIOUS
<1>8. PICK k \in T : \A i \in T : k <= i
  <2> HIDE DEF T
  <2> QED BY <1>6, <1>7, Least
<1>9. k \in 0 .. n /\ f[k] \notin Int
  BY <1>8
<1>10. k # 0
  BY <1>5, <1>9
<1>11. k - 1 \in 0 .. n /\ ~(k <= k - 1) /\ k \in 1 .. Len(s)
  BY <1>5, <1>50, <1>9, <1>10
<1>12. f[k - 1] \in Int
  BY <1>8, <1>11
<1>13. s[k] \in 0 .. 255
  BY <1>11, ElementType
<1>14. f[k] = f[k - 1] * 10 + (s[k] - 48)
  BY <1>5, <1>9, <1>10
<1>15. PICK d, h : d = s[k] /\ h = f[k - 1]
  OBVIOUS
<1>17. d \in Int /\ h \in Int
  <2>1. d \in 0 .. 255 /\ h \in Int
    BY <1>12, <1>13, <1>15
  <2> QED BY <2>1
<1>16. f[k] = h * 10 + (d - 48)
  BY <1>14, <1>15
<1> QED BY <1>9, <1>16, <1>17

LEMMA NumberType ==
    ASSUME NEW line \in Seq(0 .. 255)
    PROVE  NumberOf(line) \in Int
<1>1. ASSUME NEW s \in Seq(0 .. 255) PROVE LongLong(s) \in Int
  <2> DEFINE signed == s # <<>> /\ s[1] \in {45, 43}
             digits == IF signed THEN Tail(s) ELSE s
  <2>1. digits \in Seq(0 .. 255)
    BY HeadTailType
  <2> HIDE DEF digits
  <2>2. Decimal(digits) \in Int
    BY <2>1, DecimalType
  <2>3. LongLong(s) \in {Decimal(digits), -Decimal(digits), -1}
    BY DEF LongLong, digits
  <2> QED BY <2>2, <2>3
<1> DEFINE stops == {i \in DOMAIN line : line[i] = CR}
<1>2. stops \in SUBSET Nat /\ stops \subseteq 1 .. Len(line) /\ Len(line) \in Nat
  OBVIOUS
<1>3. ASSUME stops # {} PROVE SubSeq(line, 1, Min(stops) - 1) \in Seq(0 .. 255)
  <2> HIDE DEF stops
  <2>1. Min(stops) \in 1 .. Len(line)
    BY <1>2, <1>3, MinFacts
  <2>2. Min(stops) - 1 \in 0 .. Len(line)
    BY <1>2, <2>1
  <2>3. PICK n \in 0 .. Len(line) : n = Min(stops) - 1
    BY <2>2
  <2>4. SubSeq(line, 1, n) \in Seq(0 .. 255)
    BY CutFacts
  <2> QED BY <2>3, <2>4
<1>4. NumberOf(line) = LongLong(IF stops = {} THEN line ELSE SubSeq(line, 1, Min(stops) - 1))
  BY DEF NumberOf
<1> HIDE DEF stops
<1> QED BY <1>1, <1>3, <1>4

-----------------------------------------------------------------------------
(* The items of a stream. *)

LEMMA ItemFacts ==
    ASSUME NEW b \in Seq(0 .. 255), NEW at \in Nat \ {0}, LineEnds(b, at) # {}
    PROVE  /\ Min(LineEnds(b, at)) \in LineEnds(b, at)
           /\ Min(LineEnds(b, at)) \in Nat
           /\ at < Min(LineEnds(b, at))
           /\ Min(LineEnds(b, at)) < Len(b)
           /\ \A i \in LineEnds(b, at) : Min(LineEnds(b, at)) <= i
           /\ Text(b, at) \in Seq(0 .. 255)
           /\ Size(b, at) \in Int
           /\ ItemEnd(b, at) \in Nat
           /\ Min(LineEnds(b, at)) < ItemEnd(b, at)
           /\ Arity(b, at) \in Nat
<1>1. Len(b) \in Nat /\ LineEnds(b, at) \in SUBSET Nat
  BY DEF LineEnds
<1>2. PICK n : n = Min(LineEnds(b, at))
  OBVIOUS
<1>3. n \in LineEnds(b, at) /\ \A i \in LineEnds(b, at) : n <= i
  BY <1>1, <1>2, MinFacts
<1>4. n \in Nat /\ at < n /\ n < Len(b)
  BY <1>1, <1>3 DEF LineEnds
<1>5. Text(b, at) \in Seq(0 .. 255)
  <2>1. n - 1 \in 0 .. Len(b) /\ at + 1 \in Nat \ {0}
    BY <1>1, <1>4
  <2>2. SubSeq(b, at + 1, n - 1) \in Seq(0 .. 255)
    BY <2>1, SubSeqType
  <2> QED BY <1>2, <2>2 DEF Text
<1>6. Size(b, at) \in Int
  BY <1>5, NumberType DEF Size
<1>7. ItemEnd(b, at) \in Nat /\ n < ItemEnd(b, at)
  <2>1. PICK z \in Int : z = Size(b, at)
    BY <1>6
  <2>2. ItemEnd(b, at) = n + 1 + IF b[at] = 36 /\ z >= 0 THEN z + 2 ELSE 0
    BY <1>2, <2>1 DEF ItemEnd
  <2> QED BY <1>4, <2>1, <2>2
<1>8. Arity(b, at) \in Nat
  BY <1>6 DEF Arity
<1> QED BY <1>2, <1>3, <1>4, <1>5, <1>6, <1>7, <1>8

LEMMA StreamTypes ==
    ASSUME NEW s \in Streams
    PROVE  /\ s.bytes \in Seq(0 .. 255) /\ Len(s.bytes) \in Nat
           /\ s.replies \in Seq(SUBSET Part) /\ Len(s.replies) \in Nat
           /\ s.ends \in Seq(Nat) /\ Len(s.ends) = Len(s.replies)
           /\ Len(s.items) \in Nat \ {0}
           /\ \A j \in 1 .. Len(s.items) :
                 /\ s.items[j].path \in Seq(Nat) /\ s.items[j].path # <<>>
                 /\ Len(s.items[j].path) \in Nat \ {0} /\ s.items[j].path[1] \in Nat
<1>1. /\ s.bytes \in Seq(0 .. 255) /\ s.replies \in Seq(SUBSET Part) /\ s.ends \in Seq(Nat)
      /\ ItemsFollow(s) /\ RepliesNamed(s)
  BY StreamsAssumption
<1>2. s.items \in Seq([at : Nat, path : Seq(Nat) \ {<<>>}]) /\ Len(s.items) > 0
  BY <1>1 DEF ItemsFollow
<1>3. Len(s.items) \in Nat \ {0}
  BY <1>2
<1>4. ASSUME NEW j \in 1 .. Len(s.items)
      PROVE  /\ s.items[j].path \in Seq(Nat) /\ s.items[j].path # <<>>
             /\ Len(s.items[j].path) \in Nat \ {0} /\ s.items[j].path[1] \in Nat
  <2>1. s.items[j] \in [at : Nat, path : Seq(Nat) \ {<<>>}]
    BY <1>2, ElementType
  <2>2. PICK p : p = s.items[j].path
    OBVIOUS
  <2>3. p \in Seq(Nat) /\ p # <<>>
    BY <2>1, <2>2
  <2>4. Len(p) \in Nat /\ Len(p) # 0
    BY <2>3, EmptyList
  <2>5. p[1] \in Nat
    BY <2>3, <2>4, ElementType
  <2> QED BY <2>2, <2>3, <2>4, <2>5
<1>5. Len(s.ends) = Len(s.replies)
  BY <1>1 DEF RepliesNamed
<1>6. Len(s.bytes) \in Nat /\ Len(s.replies) \in Nat
  BY <1>1
<1> QED BY <1>1, <1>3, <1>4, <1>5, <1>6

\* Every item but the last is whole, and behind the one before it.
LEMMA ItemsAreWhole ==
    ASSUME NEW s \in Streams
    PROVE  /\ \A j \in 1 .. Len(s.items) : s.items[j].at \in Nat \ {0}
           /\ \A j \in 1 .. Len(s.items) - 1 :
                 /\ Whole(s.bytes, s.items[j].at)
                 /\ s.bytes[s.items[j].at] = 42 => Len(s.items[j].path) < MaxTasks
                 /\ s.items[j + 1].at = ItemEnd(s.bytes, s.items[j].at) + 1
                 /\ ItemEnd(s.bytes, s.items[j].at) \in Nat
                 /\ s.items[j].at < ItemEnd(s.bytes, s.items[j].at)
<1>1. /\ ItemsFollow(s) /\ s.bytes \in Seq(0 .. 255) /\ Len(s.items) \in Nat \ {0}
  BY StreamsAssumption, StreamTypes
<1>2. \A j \in 1 .. Len(s.items) : s.items[j].at \in Nat
  <2>1. s.items \in Seq([at : Nat, path : Seq(Nat) \ {<<>>}])
    BY <1>1 DEF ItemsFollow
  <2>2. ASSUME NEW j \in 1 .. Len(s.items) PROVE s.items[j].at \in Nat
    <3>1. s.items[j] \in [at : Nat, path : Seq(Nat) \ {<<>>}]
      BY <2>1, ElementType
    <3> QED BY <3>1
  <2> QED BY <2>2
<1>3. \A j \in 1 .. Len(s.items) - 1 :
         /\ Whole(s.bytes, s.items[j].at)
         /\ s.bytes[s.items[j].at] = 42 => Len(s.items[j].path) < MaxTasks
         /\ s.items[j + 1].at = ItemEnd(s.bytes, s.items[j].at) + 1
  BY <1>1 DEF ItemsFollow
<1>4. ASSUME NEW j \in 1 .. Len(s.items) - 1, s.items[j].at # 0
      PROVE  /\ ItemEnd(s.bytes, s.items[j].at) \in Nat
             /\ s.items[j].at < ItemEnd(s.bytes, s.items[j].at)
  <2>1. PICK a \in Nat \ {0} : a = s.items[j].at
    BY <1>1, <1>2, <1>4
  <2>2. LineEnds(s.bytes, a) # {}
    BY <1>3, <2>1 DEF Whole
  <2>3. PICK n \in Nat : n = Min(LineEnds(s.bytes, a)) /\ a < n /\ n < ItemEnd(s.bytes, a) /\ ItemEnd(s.bytes, a) \in Nat
    BY <1>1, <2>2, ItemFacts
  <2> QED BY <2>1, <2>3
<1>5. \A j \in 1 .. Len(s.items) : s.items[j].at # 0
  <2> DEFINE T == {j \in 1 .. Len(s.items) : s.items[j].at = 0}
  <2>1. SUFFICES ASSUME T # {} PROVE FALSE
    OBVIOUS
  <2>2. T \in SUBSET Nat
    BY <1>1
  <2>3. PICK k \in T : \A i \in T : k <= i
    <3> HIDE DEF T
    <3> QED BY <2>1, <2>2, Least
  <2>4. k \in 1 .. Len(s.items) /\ s.items[k].at = 0
    BY <2>3
  <2>5. k # 1
    <3>1. s.items[1].at = 1
      BY <1>1 DEF ItemsFollow
    <3> QED BY <2>4, <3>1
  <2>6. k - 1 \in 1 .. Len(s.items) - 1 /\ k - 1 \in 1 .. Len(s.items) /\ (k - 1) + 1 = k /\ ~(k <= k - 1)
    BY <1>1, <2>4, <2>5
  <2>7. s.items[k - 1].at # 0
    BY <2>3, <2>6
  <2>8. ItemEnd(s.bytes, s.items[k - 1].at) \in Nat /\ s.items[k].at = ItemEnd(s.bytes, s.items[k - 1].at) + 1
    BY <1>3, <1>4, <2>6, <2>7
  <2> QED BY <2>4, <2>8
<1>6. \A j \in 1 .. Len(s.items) - 1 : j \in 1 .. Len(s.items)
  BY <1>1
<1> QED BY <1>2, <1>3, <1>4, <1>5, <1>6

\* An item ends before every later one begins.
LEMMA ItemsInOrder ==
    ASSUME NEW s \in Streams, NEW i \in 1 .. Len(s.items), NEW j \in 1 .. Len(s.items), i < j
    PROVE  /\ i \in 1 .. Len(s.items) - 1
           /\ ItemEnd(s.bytes, s.items[i].at) < s.items[j].at
           /\ s.items[i].at < s.items[j].at
<1>1. Len(s.items) \in Nat /\ i \in 1 .. Len(s.items) - 1
  BY StreamTypes
<1>2. PICK e \in Nat : e = ItemEnd(s.bytes, s.items[i].at) /\ s.items[i].at < e
  BY <1>1, ItemsAreWhole
<1>3. \A k \in 1 .. Len(s.items) : s.items[k].at \in Nat
  BY ItemsAreWhole
<1> DEFINE T == {k \in i + 1 .. Len(s.items) : ~(e < s.items[k].at)}
<1>4. ASSUME T # {} PROVE FALSE
  <2>1. T \in SUBSET Nat
    BY <1>1
  <2>2. PICK k \in T : \A l \in T : k <= l
    <3> HIDE DEF T
    <3> QED BY <1>4, <2>1, Least
  <2>3. k \in i + 1 .. Len(s.items) /\ ~(e < s.items[k].at)
    BY <2>2
  <2>4. k - 1 \in 1 .. Len(s.items) - 1 /\ k - 1 \in 1 .. Len(s.items) /\ (k - 1) + 1 = k /\ ~(k <= k - 1)
        /\ (k = i + 1 \/ k - 1 \in i + 1 .. Len(s.items)) /\ k \in 1 .. Len(s.items)
    BY <1>1, <2>3
  <2>5. s.items[k].at = ItemEnd(s.bytes, s.items[k - 1].at) + 1
        /\ ItemEnd(s.bytes, s.items[k - 1].at) \in Nat
        /\ s.items[k - 1].at < ItemEnd(s.bytes, s.items[k - 1].at)
    BY <2>4, ItemsAreWhole
  <2>6. CASE k = i + 1
    <3>1. k - 1 = i
      BY <1>1, <2>6
    <3> QED BY <1>2, <2>3, <2>5, <3>1
  <2>7. CASE k - 1 \in i + 1 .. Len(s.items)
    <3>1. e < s.items[k - 1].at
      BY <2>2, <2>4, <2>7
    <3>2. PICK u, v, w : u = s.items[k - 1].at /\ v = ItemEnd(s.bytes, s.items[k - 1].at) /\ w = s.items[k].at
      OBVIOUS
    <3>3. u \in Nat /\ v \in Nat /\ e < u /\ u < v /\ w = v + 1 /\ e \in Nat
      BY <1>2, <1>3, <2>4, <2>5, <3>1, <3>2
    <3>4. e < w
      BY ONLY <3>3
    <3> QED BY <2>3, <3>2, <3>4
  <2> QED BY <2>4, <2>6, <2>7
<1>5. j \in i + 1 .. Len(s.items)
  BY <1>1
<1>6. e < s.items[j].at
  BY <1>4, <1>5
<1>7. s.items[i].at \in Nat /\ s.items[j].at \in Nat
  BY <1>1, <1>3
<1> QED BY <1>1, <1>2, <1>6, <1>7

PathsOf(s) == [j \in 1 .. Len(s.items) |-> s.items[j].path]

AritiesOf(s) == [j \in 1 .. Len(s.items) |-> Arity(s.bytes, s.items[j].at)]

LEMMA StreamNests ==
    ASSUME NEW s \in Streams
    PROVE  Nest(PathsOf(s), AritiesOf(s), Len(s.items))
<1>1. PICK P, A, m : P = PathsOf(s) /\ A = AritiesOf(s) /\ m = Len(s.items)
  OBVIOUS
<1>2. m \in Nat \ {0} /\ \A j \in 1 .. m : P[j] = s.items[j].path /\ A[j] = Arity(s.bytes, s.items[j].at)
  BY <1>1, StreamTypes DEF PathsOf, AritiesOf
<1>3. \A j \in 1 .. m : P[j] \in Seq(Nat) /\ P[j] # <<>>
  BY <1>1, <1>2, StreamTypes
<1>4. \A j \in 1 .. m - 1 : A[j] \in Nat
  <2>1. ASSUME NEW j \in 1 .. m - 1 PROVE A[j] \in Nat
    <3>1. j \in 1 .. m
      BY <1>2
    <3>2. s.items[j].at \in Nat \ {0} /\ Whole(s.bytes, s.items[j].at)
      BY <1>1, <3>1, ItemsAreWhole
    <3>3. s.bytes \in Seq(0 .. 255) /\ LineEnds(s.bytes, s.items[j].at) # {}
      BY <3>2, StreamTypes DEF Whole
    <3> QED BY <1>2, <3>1, <3>2, <3>3, ItemFacts
  <2> QED BY <2>1
<1>5. ItemsNest(s) /\ RepliesNamed(s)
  BY StreamsAssumption
<1>6. m \in 1 .. m /\ \A j \in 1 .. m - 1 : j \in 1 .. m
  BY <1>2
<1>7. \A i, j \in 1 .. m : i < j => Before(P[i], P[j])
  BY <1>1, <1>2, <1>5 DEF ItemsNest
<1>8. \A j \in 1 .. m : \A k \in 2 .. Len(P[j]) : \E i \in 1 .. m - 1 :
         P[i] = SubSeq(P[j], 1, k - 1) /\ P[j][k] < A[i]
  <2>1. ASSUME NEW j \in 1 .. m, NEW k \in 2 .. Len(P[j])
        PROVE  \E i \in 1 .. m - 1 : P[i] = SubSeq(P[j], 1, k - 1) /\ P[j][k] < A[i]
    <3>1. PICK i \in 1 .. m - 1 :
             /\ s.items[i].path = SubSeq(s.items[j].path, 1, k - 1)
             /\ s.items[j].path[k] < Arity(s.bytes, s.items[i].at)
      BY <1>1, <1>2, <1>5, <2>1 DEF ItemsNest
    <3> QED BY <1>2, <1>6, <3>1
  <2> QED BY <2>1
<1>9. \A i \in 1 .. m - 1 : \A k \in 0 .. A[i] - 1 :
         (\E j \in 1 .. m : P[j] = Append(P[i], k)) \/ Before(P[m], Append(P[i], k))
  <2>1. ASSUME NEW i \in 1 .. m - 1, NEW k \in 0 .. A[i] - 1
        PROVE  (\E j \in 1 .. m : P[j] = Append(P[i], k)) \/ Before(P[m], Append(P[i], k))
    <3>1. \/ \E j \in 1 .. m : s.items[j].path = Append(s.items[i].path, k)
          \/ Before(s.items[m].path, Append(s.items[i].path, k))
      BY <1>1, <1>2, <1>5, <1>6, <2>1 DEF ItemsNest
    <3> QED BY <1>2, <1>6, <3>1
  <2> QED BY <2>1
<1>10. \A r \in 1 .. P[m][1] : \E j \in 1 .. m : P[j] = <<r>>
  <2>1. ASSUME NEW r \in 1 .. P[m][1] PROVE \E j \in 1 .. m : P[j] = <<r>>
    <3>1. r \in 1 .. Len(s.replies)
      BY <1>1, <1>2, <1>5, <1>6, <2>1 DEF RepliesNamed
    <3>2. PICK j \in 2 .. m : s.items[j].path = <<r>>
      BY <1>1, <1>5, <3>1 DEF RepliesNamed
    <3>3. j \in 1 .. m
      BY <1>2, <3>2
    <3> QED BY <1>2, <3>2, <3>3
  <2> QED BY <2>1
<1>11. Nest(P, A, m)
  BY <1>2, <1>3, <1>4, <1>7, <1>8, <1>9, <1>10 DEF Nest
<1> QED BY <1>1, <1>11

-----------------------------------------------------------------------------
(* The invariant: where the reader is, in the stream s. *)

\* The buffer b has the last of the first n bytes.
Buffers(s, n, b) ==
    /\ n \in 0 .. Len(s.bytes)
    /\ b \in Seq(0 .. 255)
    /\ Len(b) <= n
    /\ \A i \in 1 .. Len(b) : b[i] = s.bytes[n - Len(b) + i]

\* The stack t is the path of item k.
Stacked(s, k, t) ==
    /\ t \in Seq(TaskType)
    /\ Len(t) = Len(s.items[k].path)
    /\ \A i \in 2 .. Len(t) : t[i].idx = s.items[k].path[i]
    /\ \A i \in 1 .. Len(t) - 1 :
          /\ t[i].type = "array"
          /\ \E j \in 1 .. Len(s.items) - 1 :
                /\ s.items[j].path = SubSeq(s.items[k].path, 1, i)
                /\ t[i].elements = Arity(s.bytes, s.items[j].at)

\* Behind n bytes of s the reader is before item k, or behind its type.
BeforeType(s, k, n, t) ==
    n = s.items[k].at - 1 /\ (t = <<>> \/ t[Len(t)].type = "none")

BehindType(s, k, n, t) ==
    /\ n = s.items[k].at
    /\ n <= Len(s.bytes)
    /\ t # <<>>
    /\ s.bytes[n] \in TypeBytes
    /\ t[Len(t)].type = TypeOf(s.bytes[n])

\* What is there of reply r before item k.
PartsOf(s, k, r) ==
    {PartAt(s.bytes, s.items[j]) : j \in {j \in 1 .. k - 1 : s.items[j].path[1] = r}}

\* n bytes are enough for item k, or to see that the stream is broken there.
Readable(s, k, n) ==
    IF k < Len(s.items) THEN ItemEnd(s.bytes, s.items[k].at) <= n
    ELSE Broken(s) /\ s.items[k].at <= n

At(k) ==
    /\ k \in 1 .. Len(stream.items)
    /\ \/ BeforeType(stream, k, fed - Len(buf) + pos, tasks)
       \/ BehindType(stream, k, fed - Len(buf) + pos, tasks)
    /\ tasks = <<>> => Len(stream.items[k].path) = 1
    /\ tasks # <<>> => Stacked(stream, k, tasks)
    /\ stream.items[k].path[1] = Len(out) + IF busy /\ tasks = <<>> THEN 1 ELSE 0
    /\ reply = PartsOf(stream, k, Len(out))
    /\ drained => tasks # <<>> /\ ~Readable(stream, k, fed)

\* After an error.
Failed ==
    /\ tasks = <<>>
    /\ ~drained
    /\ stream.bad \in 1 .. fed
    /\ Len(out) = Len(stream.replies)

\* The replies that were returned.
Returned(s, o) ==
    /\ o \in Seq(SUBSET Part)
    /\ Len(o) <= Len(s.replies)
    /\ \A i \in 1 .. Len(o) : o[i] = s.replies[i]

ReaderInv ==
    /\ stream \in Streams
    /\ {err, busy, drained} \subseteq BOOLEAN
    /\ Buffers(stream, fed, buf)
    /\ pos \in 0 .. Len(buf)
    /\ Returned(stream, out)
    /\ err => Failed
    /\ ~err => \E k \in 1 .. Len(stream.items) : At(k)

-----------------------------------------------------------------------------
(* The bytes of an item, in the buffer and in the stream. *)

\* Buffer c has what is behind byte o of b, up to byte n.
Window(b, n, c, o) ==
    /\ b \in Seq(0 .. 255) /\ c \in Seq(0 .. 255)
    /\ n \in 0 .. Len(b) /\ o \in Nat /\ o + Len(c) = n
    /\ \A i \in 1 .. Len(c) : c[i] = b[o + i]

LEMMA SameLineEnds ==
    ASSUME NEW b, NEW c, NEW n, NEW o, Window(b, n, c, o),
           NEW p \in 0 .. Len(c)
    PROVE  /\ \A i \in LineEnds(c, p) : i \in Nat /\ o + i \in LineEnds(b, o + p)
           /\ \A i \in LineEnds(b, o + p) : i \in Nat /\ (i < n => i - o \in LineEnds(c, p))
<1>1. Len(c) \in Nat /\ Len(b) \in Nat /\ n \in Nat /\ n <= Len(b) /\ o \in Nat /\ o + Len(c) = n /\ p \in Nat
  BY DEF Window
<1>2. \A i \in 1 .. Len(c) : c[i] = b[o + i]
  BY DEF Window
<1>3. ASSUME NEW i \in LineEnds(c, p) PROVE i \in Nat /\ o + i \in LineEnds(b, o + p)
  <2>1. i \in p + 1 .. Len(c) - 1 /\ c[i] = CR /\ c[i + 1] = LF
    BY DEF LineEnds
  <2>2. i \in 1 .. Len(c) /\ i + 1 \in 1 .. Len(c) /\ o + (i + 1) = (o + i) + 1
        /\ o + i \in o + p + 1 .. Len(b) - 1
    BY <1>1, <2>1
  <2>3. b[o + i] = CR /\ b[(o + i) + 1] = LF
    BY <1>2, <2>1, <2>2
  <2> QED BY <1>1, <2>2, <2>3 DEF LineEnds
<1>4. ASSUME NEW i \in LineEnds(b, o + p) PROVE i \in Nat /\ (i < n => i - o \in LineEnds(c, p))
  <2>1. i \in o + p + 1 .. Len(b) - 1 /\ b[i] = CR /\ b[i + 1] = LF
    BY DEF LineEnds
  <2>2. i \in Nat
    BY <1>1, <2>1
  <2>3. ASSUME i < n PROVE i - o \in LineEnds(c, p)
    <3>1. /\ i - o \in 1 .. Len(c) /\ (i - o) + 1 \in 1 .. Len(c)
          /\ o + (i - o) = i /\ o + ((i - o) + 1) = i + 1
          /\ i - o \in p + 1 .. Len(c) - 1
      BY <1>1, <2>1, <2>3
    <3>2. c[i - o] = CR /\ c[(i - o) + 1] = LF
      BY <1>2, <2>1, <3>1
    <3> QED BY <3>1, <3>2 DEF LineEnds
  <2> QED BY <2>2, <2>3
<1> QED BY <1>3, <1>4

LEMMA SameLine ==
    ASSUME NEW b, NEW c, NEW n, NEW o, Window(b, n, c, o),
           NEW p \in 0 .. Len(c), o + p # 0, LineEnds(c, p) # {}
    PROVE  /\ LineEnds(b, o + p) # {}
           /\ Min(LineEnds(c, p)) \in Nat
           /\ Min(LineEnds(b, o + p)) = o + Min(LineEnds(c, p))
           /\ o + Min(LineEnds(c, p)) < n
           /\ Text(c, p) = Text(b, o + p)
           /\ Size(c, p) = Size(b, o + p)
<1>1. Len(c) \in Nat /\ Len(b) \in Nat /\ n \in Nat /\ n <= Len(b) /\ o \in Nat /\ o + Len(c) = n /\ p \in Nat
      /\ b \in Seq(0 .. 255) /\ c \in Seq(0 .. 255)
  BY DEF Window
<1>2. PICK at \in Nat \ {0} : at = o + p
  BY <1>1
<1>3. /\ \A i \in LineEnds(c, p) : i \in Nat /\ o + i \in LineEnds(b, at)
      /\ \A i \in LineEnds(b, at) : i \in Nat /\ (i < n => i - o \in LineEnds(c, p))
  BY <1>2, SameLineEnds
<1>4. LineEnds(b, at) # {} /\ LineEnds(c, p) \in SUBSET Nat
  BY <1>3
<1>5. PICK x : x = Min(LineEnds(c, p))
  OBVIOUS
<1>6. x \in LineEnds(c, p) /\ \A i \in LineEnds(c, p) : x <= i
  BY <1>4, <1>5, MinFacts
<1>7. x \in Nat /\ p < x /\ x < Len(c)
  BY <1>1, <1>6 DEF LineEnds
<1>8. PICK y : y = Min(LineEnds(b, at))
  OBVIOUS
<1>9. y \in LineEnds(b, at) /\ y \in Nat /\ \A i \in LineEnds(b, at) : y <= i
  BY <1>1, <1>4, <1>8, ItemFacts
<1>10. y <= o + x /\ o + x < n
  <2>1. o + x \in LineEnds(b, at)
    BY <1>3, <1>6
  <2> QED BY <1>1, <1>7, <1>9, <2>1
<1>11. y - o \in LineEnds(c, p)
  BY <1>1, <1>3, <1>7, <1>9, <1>10
<1>12. y = o + x
  <2>1. x <= y - o
    BY <1>6, <1>11
  <2> QED BY <1>1, <1>7, <1>9, <1>10, <2>1
<1>13. Text(c, p) = Text(b, at)
  <2> DEFINE u == SubSeq(c, p + 1, x - 1)
             v == SubSeq(b, at + 1, y - 1)
  <2>0. x - 1 \in 0 .. Len(c) /\ y - 1 \in 0 .. Len(b) /\ p + 1 \in Nat \ {0} /\ at + 1 \in Nat \ {0}
    BY <1>1, <1>7, <1>10, <1>12
  <2>1. u \in Seq(0 .. 255) /\ v \in Seq(0 .. 255)
    BY <1>1, <2>0, SubSeqType
  <2>2. /\ Len(u) = x - 1 - p
        /\ \A i \in 1 .. x - 1 - p : u[i] = c[p + i]
    BY <1>1, <1>7
  <2>3. /\ Len(v) = y - 1 - at
        /\ \A i \in 1 .. y - 1 - at : v[i] = b[at + i]
    BY <1>1, <1>2, <1>7, <1>10, <1>12
  <2> HIDE DEF u, v
  <2>4. y - 1 - at = x - 1 - p
    BY <1>1, <1>2, <1>7, <1>12
  <2>5. ASSUME NEW i \in 1 .. x - 1 - p PROVE u[i] = v[i]
    <3>1. p + i \in 1 .. Len(c) /\ o + (p + i) = at + i
      BY <1>1, <1>2, <1>7
    <3>2. c[p + i] = b[at + i]
      <4>1. c[p + i] = b[o + (p + i)]
        BY <3>1 DEF Window
      <4> QED BY <3>1, <4>1
    <3> QED BY <2>2, <2>3, <2>4, <3>2
  <2>6. u = v
    BY <2>1, <2>2, <2>3, <2>4, <2>5, SameSeq
  <2> QED BY <1>5, <1>8, <2>6 DEF Text, u, v
<1>14. Size(c, p) = Size(b, at)
  BY <1>13 DEF Size
<1> QED BY <1>2, <1>4, <1>5, <1>7, <1>8, <1>10, <1>12, <1>13, <1>14

-----------------------------------------------------------------------------
(* From one item to the next. *)

LEMMA BeforeRoot ==
    ASSUME NEW p \in Seq(Nat) \ {<<>>}, NEW q \in Seq(Nat) \ {<<>>}, Before(p, q)
    PROVE  /\ p[1] \in Nat /\ q[1] \in Nat /\ p[1] <= q[1]
           /\ Len(q) = 1 => p[1] < q[1]
<1>1. Len(p) \in Nat \ {0} /\ Len(q) \in Nat \ {0}
  BY EmptyList
<1>2. p[1] \in Nat /\ q[1] \in Nat
  BY <1>1, ElementType
<1>3. PICK k \in 1 .. Len(q) :
        Len(p) >= k - 1 /\ (\A i \in 1 .. k - 1 : p[i] = q[i]) /\ (Len(p) >= k => p[k] < q[k])
  BY DEF Before
<1>4. CASE k = 1
  BY <1>1, <1>2, <1>3, <1>4
<1>5. CASE k # 1
  <2>1. 1 \in 1 .. k - 1 /\ Len(q) # 1
    BY SMTT(30), <1>1, <1>3, <1>5
  <2> QED BY <1>2, <1>3, <2>1
<1> QED BY <1>4, <1>5

LEMMA RootsInOrder ==
    ASSUME NEW s \in Streams, NEW i \in 1 .. Len(s.items), NEW j \in 1 .. Len(s.items), i < j
    PROVE  /\ s.items[i].path[1] <= s.items[j].path[1]
           /\ Len(s.items[j].path) = 1 => s.items[i].path[1] < s.items[j].path[1]
<1>1. Before(s.items[i].path, s.items[j].path)
  BY StreamsAssumption DEF ItemsNest
<1>2. PICK p, q : p = s.items[i].path /\ q = s.items[j].path
  OBVIOUS
<1>3. p \in Seq(Nat) \ {<<>>} /\ q \in Seq(Nat) \ {<<>>}
  BY <1>2, StreamTypes
<1>4. Before(p, q)
  BY <1>1, <1>2
<1>5. p[1] <= q[1] /\ (Len(q) = 1 => p[1] < q[1])
  BY ONLY <1>3, <1>4, BeforeRoot
<1> QED BY <1>2, <1>5

\* Why a task is the last one of its array.
LEMMA StackedLast ==
    ASSUME NEW s \in Streams, NEW k \in 1 .. Len(s.items), NEW t, Stacked(s, k, t),
           NEW i \in 2 .. Len(t)
    PROVE  /\ t[i].idx \in Nat /\ t[i - 1].elements \in Nat /\ t[i].idx < t[i - 1].elements
           /\ t[i].idx = s.items[k].path[i]
           /\ t[i].idx = t[i - 1].elements - 1
                <=> LastAt(PathsOf(s), AritiesOf(s), Len(s.items), s.items[k].path, i)
<1> DEFINE m == Len(s.items)
           P == PathsOf(s)
           A == AritiesOf(s)
<1>1. /\ m \in Nat \ {0} /\ Nest(P, A, m)
      /\ \A j \in 1 .. m : P[j] = s.items[j].path /\ A[j] = Arity(s.bytes, s.items[j].at)
  BY StreamTypes, StreamNests DEF PathsOf, AritiesOf
<1>2. t \in Seq(TaskType) /\ Len(t) \in Nat /\ Len(t) = Len(s.items[k].path)
  BY DEF Stacked
<1>3. i - 1 \in 1 .. Len(t) - 1 /\ i \in 1 .. Len(t) /\ i - 1 \in 1 .. Len(t)
  BY <1>2
<1>4. PICK j \in 1 .. m - 1 :
        s.items[j].path = SubSeq(s.items[k].path, 1, i - 1)
        /\ t[i - 1].elements = Arity(s.bytes, s.items[j].at)
  BY <1>3 DEF Stacked
<1>5. j \in 1 .. m /\ P[j] = SubSeq(s.items[k].path, 1, i - 1) /\ t[i - 1].elements = A[j] /\ A[j] \in Nat
  <2>1. j \in 1 .. m
    BY <1>1
  <2> QED BY <1>1, <1>4, <2>1 DEF Nest
<1>6. t[i].idx = s.items[k].path[i]
  BY DEF Stacked
<1>7. s.items[k].path \in Seq(Nat) /\ s.items[k].path[i] \in Nat
  BY <1>2, <1>3, StreamTypes, ElementType
<1>8. PICK l \in 1 .. m - 1 : P[l] = SubSeq(P[k], 1, i - 1) /\ P[k][i] < A[l]
  <2>1. P[k] = s.items[k].path
    BY <1>1
  <2> HIDE DEF P, A
  <2> QED BY <1>1, <1>2, <2>1 DEF Nest
<1>9. l \in 1 .. m /\ P[k] = s.items[k].path
  BY <1>1
<1>10. l = j
  <2> HIDE DEF P, A, m
  <2>1. Nest(P, A, m) /\ l \in 1 .. m /\ j \in 1 .. m /\ P[l] = P[j]
    BY <1>1, <1>5, <1>8, <1>9
  <2> QED BY ONLY <2>1, OnePlace
<1>11. t[i].idx < t[i - 1].elements
  BY <1>5, <1>6, <1>8, <1>9, <1>10
<1>12. ASSUME t[i].idx = t[i - 1].elements - 1 PROVE LastAt(P, A, m, s.items[k].path, i)
  <2> HIDE DEF P, A
  <2> QED BY <1>5, <1>6, <1>12 DEF LastAt
<1>13. ASSUME LastAt(P, A, m, s.items[k].path, i) PROVE t[i].idx = t[i - 1].elements - 1
  <2> HIDE DEF P, A
  <2>1. PICK n \in 1 .. m - 1 : P[n] = SubSeq(s.items[k].path, 1, i - 1) /\ s.items[k].path[i] = A[n] - 1
    BY <1>13 DEF LastAt
  <2>2. n \in 1 .. m
    BY <1>1
  <2>3. n = j
    <3> HIDE DEF m
    <3>1. Nest(P, A, m) /\ n \in 1 .. m /\ j \in 1 .. m /\ P[n] = P[j]
      BY <1>1, <1>5, <2>1, <2>2
    <3> QED BY ONLY <3>1, OnePlace
  <2> QED BY <1>5, <1>6, <2>1, <2>3
<1> QED BY <1>5, <1>6, <1>7, <1>11, <1>12, <1>13

\* Stack u has the path q of item k + 1, which is that of item k up to place i.
Grows(s, k, t, i, u, q) ==
    /\ u \in Seq(TaskType) /\ q \in Seq(Nat)
    /\ i \in 1 .. Len(t)
    /\ s.items[k + 1].path = q
    /\ Len(q) = i + 1 /\ Len(u) = i + 1
    /\ u[i + 1].idx = q[i + 1]
    /\ \A l \in 1 .. i :
          /\ q[l] = s.items[k].path[l] /\ u[l].idx = t[l].idx /\ u[l].type = "array"
          /\ \E j \in 1 .. Len(s.items) - 1 :
                /\ s.items[j].path = SubSeq(s.items[k].path, 1, l)
                /\ u[l].elements = Arity(s.bytes, s.items[j].at)

LEMMA StackedStart ==
    ASSUME NEW s \in Streams, NEW k \in 1 .. Len(s.items) - 1, NEW t, Stacked(s, k, t),
           NEW i, NEW u, NEW q, Grows(s, k, t, i, u, q)
    PROVE  Stacked(s, k + 1, u)
<1>0. PICK p : p = s.items[k].path
  OBVIOUS
<1>1. PICK n \in Nat : n = Len(t) /\ n = Len(p) /\ \A l \in 2 .. n : t[l].idx = p[l]
  <2>1. t \in Seq(TaskType)
    BY DEF Stacked
  <2>2. Len(t) \in Nat
    BY <2>1
  <2> QED BY <1>0, <2>2 DEF Stacked
<1>2. p \in Seq(Nat)
  <2>1. Len(s.items) \in Nat
    BY StreamTypes
  <2>2. k \in 1 .. Len(s.items)
    BY <2>1
  <2> QED BY <1>0, <2>2, StreamTypes
<1>3. /\ u \in Seq(TaskType) /\ q \in Seq(Nat) /\ i \in 1 .. n
      /\ s.items[k + 1].path = q
      /\ Len(q) = i + 1 /\ Len(u) = i + 1 /\ u[i + 1].idx = q[i + 1]
  BY <1>1 DEF Grows
<1>4. \A l \in 1 .. i :
         /\ q[l] = p[l] /\ u[l].idx = t[l].idx /\ u[l].type = "array"
         /\ \E j \in 1 .. Len(s.items) - 1 :
               s.items[j].path = SubSeq(p, 1, l) /\ u[l].elements = Arity(s.bytes, s.items[j].at)
  BY <1>0 DEF Grows
<1>5. ASSUME NEW l \in 2 .. i + 1 PROVE u[l].idx = q[l]
  <2>0. (l \in 1 .. i /\ l \in 2 .. n) \/ l = i + 1
    BY <1>1, <1>3
  <2>1. CASE l \in 1 .. i /\ l \in 2 .. n
    BY <1>1, <1>4, <2>1
  <2>2. CASE l = i + 1
    BY <1>3, <2>2
  <2> QED BY <2>0, <2>1, <2>2
<1>6. ASSUME NEW l \in 1 .. i
      PROVE  /\ u[l].type = "array"
             /\ \E j \in 1 .. Len(s.items) - 1 :
                   s.items[j].path = SubSeq(q, 1, l) /\ u[l].elements = Arity(s.bytes, s.items[j].at)
  <2>1. l \in Nat /\ l <= Len(p) /\ l <= Len(q) /\ \A o \in 1 .. l : o \in 1 .. i
    BY <1>1, <1>3
  <2>2. SubSeq(q, 1, l) = SubSeq(p, 1, l)
    BY <1>2, <1>3, <1>4, <2>1, SameStart
  <2> QED BY <1>4, <2>2
<1>7. (i + 1) - 1 = i
  BY <1>1, <1>3
<1> QED BY ZenonT(60), <1>3, <1>5, <1>6, <1>7 DEF Stacked

\* moveToNextTask, behind an item that has nothing inside it.
LEMMA MovesOn ==
    ASSUME NEW s \in Streams, NEW k \in 1 .. Len(s.items) - 1, NEW t, Stacked(s, k, t),
           Arity(s.bytes, s.items[k].at) = 0
    PROVE  \/ /\ NextTasks(t) = <<>>
              /\ s.items[k + 1].path = <<s.items[k].path[1] + 1>>
           \/ /\ NextTasks(t) # <<>>
              /\ Stacked(s, k + 1, NextTasks(t))
              /\ NextTasks(t)[Len(NextTasks(t))].type = "none"
              /\ s.items[k + 1].path[1] = s.items[k].path[1]
<1> DEFINE m == Len(s.items)
           P == PathsOf(s)
           A == AritiesOf(s)
           p == s.items[k].path
           U == {i \in 2 .. Len(t) : t[i].idx # t[i - 1].elements - 1}
<1>1. /\ m \in Nat \ {0} /\ k \in 1 .. m /\ k + 1 \in 1 .. m /\ Nest(P, A, m)
      /\ P[k] = p /\ P[k + 1] = s.items[k + 1].path /\ A[k] = 0
  BY StreamTypes, StreamNests DEF PathsOf, AritiesOf
<1>2. t \in Seq(TaskType) /\ Len(t) \in Nat /\ Len(t) = Len(p)
  BY DEF Stacked
<1>3. p \in Seq(Nat)
  BY <1>1, StreamTypes
<1>4. \A i \in 2 .. Len(t) : t[i].idx = t[i - 1].elements - 1 <=> LastAt(P, A, m, p, i)
  BY <1>1, StackedLast
<1>40. NextTasks(t) = IF U = {} THEN <<>> ELSE Append(SubSeq(t, 1, Max(U) - 1), Task(t[Max(U)].idx + 1))
  BY DEF NextTasks
<1>5. CASE U = {}
  <2>1. \A l \in 2 .. Len(p) : LastAt(P, A, m, p, l)
    BY <1>2, <1>4, <1>5
  <2>2. P[k + 1] = <<P[k][1] + 1>>
    <3> HIDE DEF P, A, m, p
    <3> QED BY <1>1, <2>1, RootNext DEF m
  <2> QED BY <1>1, <1>5, <1>40, <2>2
<1>6. CASE U # {}
  <2>1. PICK i : i = Max(U)
    OBVIOUS
  <2>2. i \in U /\ \A j \in U : j <= i
    <3>1. U \in SUBSET (0 .. Len(t))
      BY <1>2
    <3> HIDE DEF U
    <3> QED BY <1>2, <1>6, <2>1, <3>1, MaxFacts
  <2>3. i \in 2 .. Len(t) /\ t[i].idx # t[i - 1].elements - 1
    BY <2>2
  <2>4. ~LastAt(P, A, m, p, i) /\ \A l \in i + 1 .. Len(p) : LastAt(P, A, m, p, l)
    <3>1. ASSUME NEW l \in i + 1 .. Len(p) PROVE LastAt(P, A, m, p, l)
      <4>1. l \in 2 .. Len(t) /\ ~(l <= i)
        BY <1>2, <2>3
      <4>2. l \notin U
        BY <2>2, <4>1
      <4> QED BY <1>4, <4>1, <4>2
    <3> QED BY <1>4, <2>3, <3>1
  <2>5. P[k + 1] = NextAt(P[k], i)
    <3>1. i \in 2 .. Len(P[k])
      BY <1>1, <1>2, <2>3
    <3> HIDE DEF P, A, m, p
    <3> QED BY <1>1, <2>4, <3>1, SiblingNext DEF m
  <2>6. PICK q : q = NextAt(p, i)
    OBVIOUS
  <2>7. /\ q \in Seq(Nat) /\ Len(q) = i
        /\ \A l \in 1 .. i - 1 : q[l] = p[l]
        /\ q[i] = p[i] + 1
        /\ s.items[k + 1].path = q
    <3>1. i \in 1 .. Len(p)
      BY <1>2, <2>3
    <3>2. s.items[k + 1].path = q
      BY <1>1, <2>5, <2>6
    <3> HIDE DEF p
    <3> QED BY SMTT(30), <1>3, <2>6, <3>1, <3>2, NextAtFacts
  <2>8. PICK u : u = Append(SubSeq(t, 1, i - 1), Task(t[i].idx + 1))
    OBVIOUS
  <2>9. PICK h : h = i - 1
    OBVIOUS
  <2>10. h \in 1 .. Len(t) /\ h \in 0 .. Len(t) /\ i = h + 1 /\ h \in Nat
    BY <1>2, <2>3, <2>9
  <2>11. t[i].idx \in Nat /\ t[i].idx = p[i]
    BY SMTT(30), <1>1, <2>3, StackedLast
  <2>12. Task(t[i].idx + 1) \in TaskType
    <3>1. t[i].idx + 1 \in Int
      BY <2>11
    <3> QED BY <3>1 DEF Task, TaskType
  <2>13. PICK f : f = SubSeq(t, 1, h)
    OBVIOUS
  <2>14. f \in Seq(TaskType) /\ Len(f) = h /\ \A l \in 1 .. h : f[l] = t[l]
    BY <1>2, <2>10, <2>13, CutFacts
  <2>15. /\ u \in Seq(TaskType) /\ Len(u) = h + 1
         /\ (\A l \in 1 .. h : u[l] = t[l])
         /\ u[h + 1] = Task(t[i].idx + 1)
    <3>1. u = Append(f, Task(t[i].idx + 1))
      BY <2>8, <2>9, <2>13
    <3>2. PICK x \in TaskType : x = Task(t[i].idx + 1)
      BY <2>12
    <3> QED BY <2>14, <3>1, <3>2, AppendType, AppendFacts
  <2>16. u[h + 1].idx = q[h + 1] /\ u[h + 1].type = "none"
    <3>1. u[h + 1].idx = t[i].idx + 1 /\ u[h + 1].type = "none"
      BY <2>15 DEF Task
    <3> QED BY <2>7, <2>10, <2>11, <3>1
  <2>17. ASSUME NEW l \in 1 .. h
         PROVE  /\ q[l] = p[l] /\ u[l].idx = t[l].idx /\ u[l].type = "array"
                /\ \E j \in 1 .. m - 1 :
                      s.items[j].path = SubSeq(p, 1, l) /\ u[l].elements = Arity(s.bytes, s.items[j].at)
    <3>1. l \in 1 .. i - 1 /\ l \in 1 .. Len(t) - 1 /\ u[l] = t[l]
      BY <1>2, <2>3, <2>10, <2>15
    <3> QED BY <2>7, <3>1 DEF Stacked
  <2>18. Stacked(s, k + 1, u)
    <3>1. Grows(s, k, t, h, u, q)
      BY <2>7, <2>10, <2>15, <2>16, <2>17 DEF Grows
    <3> QED BY <3>1, StackedStart
  <2>19. u = NextTasks(t) /\ u # <<>> /\ Len(u) = h + 1
    <3>1. u = NextTasks(t)
      BY <1>6, <1>40, <2>1, <2>8
    <3>2. Len(u) # 0
      BY <2>10, <2>15
    <3> QED BY <2>15, <3>1, <3>2
  <2>20. s.items[k + 1].path[1] = p[1]
    BY <2>7, <2>10
  <2> QED BY <2>16, <2>18, <2>19, <2>20
<1> QED BY <1>5, <1>6

\* processMultiBulkItem, before the first element of an array.
Opened(t, a) == Append([t EXCEPT ![Len(t)].elements = a], Task(0))

Enters(s, k, t, a) ==
    /\ s \in Streams /\ k \in 1 .. Len(s.items) - 1
    /\ Stacked(s, k, t) /\ t # <<>> /\ t[Len(t)].type = "array"
    /\ a \in Nat /\ a # 0 /\ Arity(s.bytes, s.items[k].at) = a

LEMMA MovesIn ==
    ASSUME NEW s, NEW k, NEW t, NEW a, Enters(s, k, t, a)
    PROVE  /\ Opened(t, a) # <<>>
           /\ Stacked(s, k + 1, Opened(t, a))
           /\ Opened(t, a)[Len(Opened(t, a))].type = "none"
           /\ s.items[k + 1].path[1] = s.items[k].path[1]
<1>0. /\ s \in Streams /\ k \in 1 .. Len(s.items) - 1
      /\ Stacked(s, k, t) /\ t # <<>> /\ t[Len(t)].type = "array"
      /\ a \in Nat /\ a # 0 /\ Arity(s.bytes, s.items[k].at) = a
  BY DEF Enters
<1>00. PICK u : u = Opened(t, a)
  OBVIOUS
<1> DEFINE m == Len(s.items)
           P == PathsOf(s)
           A == AritiesOf(s)
           p == s.items[k].path
<1>1. /\ m \in Nat \ {0} /\ k \in 1 .. m /\ k + 1 \in 1 .. m /\ Nest(P, A, m)
      /\ P[k] = p /\ P[k + 1] = s.items[k + 1].path /\ A[k] = a
  BY SMTT(30), <1>0, StreamTypes, StreamNests DEF PathsOf, AritiesOf
<1>2. t \in Seq(TaskType) /\ Len(t) \in Nat /\ Len(t) = Len(p)
  BY <1>0 DEF Stacked
<1>20. Len(t) # 0
  BY <1>0, <1>2, EmptyList
<1>3. p \in Seq(Nat)
  BY <1>0, <1>1, StreamTypes
<1>4. P[k + 1] = Append(P[k], 0)
  <2>1. A[k] > 0
    BY <1>0, <1>1
  <2> HIDE DEF P, A, m, p
  <2> QED BY <1>0, <1>1, <2>1, ChildNext DEF m
<1>5. PICK q : q = Append(p, 0)
  OBVIOUS
<1>6. PICK h \in Nat : h = Len(t)
  BY <1>2
<1>7. /\ q \in Seq(Nat) /\ Len(q) = h + 1 /\ q[h + 1] = 0
      /\ \A l \in 1 .. h : q[l] = p[l]
      /\ s.items[k + 1].path = q
  <2>1. s.items[k + 1].path = q
    BY <1>1, <1>4, <1>5
  <2> HIDE DEF p
  <2> QED BY <1>2, <1>3, <1>5, <1>6, <2>1, AppendType, AppendFacts
<1>8. PICK f : f = [t EXCEPT ![Len(t)].elements = a]
  OBVIOUS
<1>9. /\ f \in Seq(TaskType) /\ Len(f) = h
      /\ \A l \in 1 .. h : f[l].idx = t[l].idx /\ f[l].type = t[l].type
      /\ \A l \in 1 .. h - 1 : f[l].elements = t[l].elements
      /\ f[h].elements = a
  <2>0. h \in 1 .. Len(t)
    BY <1>2, <1>20, <1>6
  <2>1. PICK x : x = [t[h] EXCEPT !.elements = a]
    OBVIOUS
  <2>2. t[h] \in TaskType
    BY <1>2, <2>0, ElementType
  <2>3. x \in TaskType /\ x.idx = t[h].idx /\ x.type = t[h].type /\ x.elements = a
    BY <1>0, <2>1, <2>2 DEF TaskType
  <2>4. f = [t EXCEPT ![h] = x]
    BY <1>6, <1>8, <2>1
  <2>5. f \in Seq(TaskType) /\ Len(f) = Len(t) /\ f[h] = x /\ \A l \in 1 .. Len(t) : l # h => f[l] = t[l]
    BY <1>2, <2>0, <2>3, <2>4
  <2>6. \A l \in 1 .. h - 1 : l \in 1 .. Len(t) /\ l # h
    BY <1>2, <1>6
  <2>7. ASSUME NEW l \in 1 .. h PROVE f[l].idx = t[l].idx /\ f[l].type = t[l].type
    BY <1>6, <2>3, <2>5
  <2>8. ASSUME NEW l \in 1 .. h - 1 PROVE f[l].elements = t[l].elements
    BY <2>5, <2>6
  <2> QED BY <1>6, <2>3, <2>5, <2>7, <2>8
<1>10. PICK x : x = Task(0)
  OBVIOUS
<1>11. x \in TaskType /\ x.idx = 0 /\ x.type = "none"
  BY <1>10 DEF Task, TaskType
<1>12. /\ u \in Seq(TaskType) /\ Len(u) = h + 1 /\ u[h + 1] = x
       /\ \A l \in 1 .. h : u[l] = f[l]
  <2>1. u = Append(f, x)
    BY <1>00, <1>8, <1>10 DEF Opened
  <2>2. f \in Seq(TaskType) /\ Len(f) = h /\ x \in TaskType
    BY <1>9, <1>11
  <2> QED BY ONLY <2>1, <2>2, AppendType, AppendFacts
<1>13. h \in 1 .. Len(t) /\ h \in 1 .. h /\ Len(u) # 0 /\ 1 \in 1 .. h
  BY <1>20, <1>2, <1>6, <1>12
<1>14. ASSUME NEW l \in 1 .. h
       PROVE  /\ q[l] = p[l] /\ u[l].idx = t[l].idx /\ u[l].type = "array"
              /\ \E j \in 1 .. m - 1 :
                    s.items[j].path = SubSeq(p, 1, l) /\ u[l].elements = Arity(s.bytes, s.items[j].at)
  <2>1. CASE l \in 1 .. h - 1
    <3>1. u[l].idx = t[l].idx /\ u[l].type = t[l].type /\ u[l].elements = t[l].elements /\ l \in 1 .. Len(t) - 1
      BY <1>6, <1>9, <1>12, <2>1
    <3> QED BY <1>0, <1>7, <3>1 DEF Stacked
  <2>2. CASE l = h
    <3>1. SubSeq(p, 1, l) = p
      <4>1. l = Len(p)
        BY <1>2, <1>6, <2>2
      <4> HIDE DEF p
      <4> QED BY <1>3, <4>1, WholeStart
    <3> QED BY <1>0, <1>6, <1>7, <1>9, <1>12, <1>13, <2>2, <3>1
  <2>3. l \in 1 .. h - 1 \/ l = h
    BY ONLY <1>6, <1>14
  <2> QED BY <2>1, <2>2, <2>3
<1>15. Stacked(s, k + 1, u)
  <2>1. u[h + 1].idx = q[h + 1]
    BY <1>7, <1>11, <1>12
  <2>2. Grows(s, k, t, h, u, q)
    BY <1>7, <1>12, <1>13, <1>14, <2>1 DEF Grows
  <2> QED BY <1>0, <2>2, StackedStart
<1> QED BY <1>00, <1>7, <1>11, <1>12, <1>13, <1>15

-----------------------------------------------------------------------------
(* The parts of a reply. *)

LEMMA PartsGrow ==
    ASSUME NEW s \in Streams, NEW k \in 1 .. Len(s.items) - 1, NEW r, s.items[k].path[1] = r
    PROVE  PartsOf(s, k + 1, r) = PartsOf(s, k, r) \cup {PartAt(s.bytes, s.items[k])}
<1>1. Len(s.items) \in Nat
  BY StreamTypes
<1>2. k \in Nat /\ (k + 1) - 1 = k /\ k \in 1 .. k
  BY <1>1
<1> DEFINE J == {j \in 1 .. k - 1 : s.items[j].path[1] = r}
           K == {j \in 1 .. k : s.items[j].path[1] = r}
<1>3. K = J \cup {k}
  <2>1. \A j \in 1 .. k : j \in 1 .. k - 1 \/ j = k
    BY <1>2
  <2>2. \A j \in 1 .. k - 1 : j \in 1 .. k
    BY <1>2
  <2> QED BY <1>2, <2>1, <2>2
<1>4. PartsOf(s, k, r) = {PartAt(s.bytes, s.items[j]) : j \in J}
  BY DEF PartsOf
<1>5. PartsOf(s, k + 1, r) = {PartAt(s.bytes, s.items[j]) : j \in K}
  BY <1>2 DEF PartsOf
<1> HIDE DEF J, K
<1> QED BY <1>3, <1>4, <1>5

\* Before the first item of a reply, the one before it is complete.
LEMMA PartsDone ==
    ASSUME NEW s \in Streams, NEW k \in 1 .. Len(s.items), NEW r \in Nat,
           Len(s.items[k].path) = 1, s.items[k].path[1] = r + 1
    PROVE  /\ r + 1 \in 1 .. Len(s.replies)
           /\ PartsOf(s, k, r) = s.replies[r + 1]
           /\ PartsOf(s, k, r + 1) = {}
<1>1. PICK m \in Nat \ {0} : m = Len(s.items)
  BY StreamTypes
<1>2. \A j \in 1 .. m : s.items[j].path[1] \in Nat
  BY <1>1, StreamTypes
<1>3. RepliesNamed(s)
  BY StreamsAssumption
<1>4. \A j \in 1 .. k - 1 : j \in 1 .. m /\ s.items[j].path[1] < r + 1
  <2>1. ASSUME NEW j \in 1 .. k - 1 PROVE j \in 1 .. m /\ s.items[j].path[1] < r + 1
    <3>1. j \in 1 .. m /\ j < k
      BY <1>1
    <3> QED BY <1>1, <3>1, RootsInOrder
  <2> QED BY <2>1
<1>5. \A j \in k .. m : j \in 1 .. m /\ r + 1 <= s.items[j].path[1]
  <2>1. ASSUME NEW j \in k .. m PROVE j \in 1 .. m /\ r + 1 <= s.items[j].path[1]
    <3>1. j \in 1 .. m /\ (k < j \/ j = k)
      BY <1>1
    <3>2. CASE k < j
      BY <1>1, <3>1, <3>2, RootsInOrder
    <3>3. CASE j = k
      BY <3>1, <3>3
    <3> QED BY <3>1, <3>2, <3>3
  <2> QED BY <2>1
<1>6. r + 1 \in 1 .. Len(s.replies)
  <2>1. m \in k .. m
    BY <1>1
  <2>2. PICK z \in Nat : z = s.items[m].path[1] /\ r + 1 <= z
    BY <1>2, <1>5, <2>1
  <2>3. Len(s.replies) = z
    BY <1>1, <1>3, <2>2 DEF RepliesNamed
  <2> QED BY <2>2, <2>3
<1> DEFINE J == {j \in 1 .. k - 1 : s.items[j].path[1] = r}
           K == {j \in 1 .. m - 1 : s.items[j].path[1] = r}
           N == {j \in 1 .. k - 1 : s.items[j].path[1] = r + 1}
<1>7. J = K
  <2>1. J \subseteq K
    <3>1. \A j \in 1 .. k - 1 : j \in 1 .. m - 1
      BY <1>1
    <3> QED BY <3>1
  <2>2. ASSUME NEW j \in K PROVE j \in J
    <3>1. j \in 1 .. m - 1 /\ s.items[j].path[1] = r
      OBVIOUS
    <3>2. j \in 1 .. k - 1 \/ j \in k .. m
      BY <1>1, <3>1
    <3>3. ~(r + 1 <= r)
      OBVIOUS
    <3> QED BY <1>5, <3>1, <3>2, <3>3
  <2> QED BY <2>1, <2>2
<1>8. N = {}
  <2>1. ~(r + 1 < r + 1)
    OBVIOUS
  <2> QED BY <1>4, <2>1
<1>9. s.replies[r + 1] = {PartAt(s.bytes, s.items[j]) : j \in K}
  <2>1. (r + 1) - 1 = r
    OBVIOUS
  <2> QED BY ZenonT(60), <1>1, <1>3, <1>6, <2>1 DEF RepliesNamed
<1>10. PartsOf(s, k, r) = {PartAt(s.bytes, s.items[j]) : j \in J}
  BY DEF PartsOf
<1>11. PartsOf(s, k, r + 1) = {PartAt(s.bytes, s.items[j]) : j \in N}
  BY DEF PartsOf
<1> HIDE DEF J, K, N
<1> QED BY <1>6, <1>7, <1>8, <1>9, <1>10, <1>11

\* The path of the object that is being read.
LEMMA PathOfStack ==
    ASSUME NEW k \in 1 .. Len(stream.items), stream \in Streams, Stacked(stream, k, tasks)
    PROVE  Path = Tail(stream.items[k].path)
<1>1. PICK p : p = stream.items[k].path
  OBVIOUS
<1>2. p \in Seq(Nat) /\ p # <<>>
  BY <1>1, StreamTypes
<1>3. PICK n \in Nat \ {0} : n = Len(p)
  BY <1>2, TailFacts
<1>4. Len(tasks) = n /\ \A i \in 2 .. n : tasks[i].idx = p[i]
  BY <1>1, <1>3 DEF Stacked
<1>5. PICK q : q = Tail(p)
  OBVIOUS
<1>6. q \in Seq(Nat) /\ Len(q) = n - 1 /\ \A i \in 1 .. n - 1 : q[i] = p[i + 1]
  BY <1>2, <1>3, <1>5, HeadTailType, TailFacts
<1>7. q = [i \in 1 .. n - 1 |-> q[i]]
  BY <1>6
<1>8. \A i \in 1 .. n - 1 : i + 1 \in 2 .. n
  BY <1>3
<1>9. \A i \in 1 .. n - 1 : tasks[i + 1].idx = q[i]
  BY <1>4, <1>6, <1>8
<1> QED BY <1>1, <1>4, <1>5, <1>7, <1>9 DEF Path

-----------------------------------------------------------------------------
(* The steps of the reader. *)

Item(k) == stream.items[k].at

\* What is read of the stream.
LEMMA Where ==
    ASSUME ReaderInv, NEW k, At(k)
    PROVE  /\ stream \in Streams /\ k \in 1 .. Len(stream.items) /\ Item(k) \in Nat \ {0}
           /\ Len(buf) \in Nat /\ fed \in Nat /\ fed - Len(buf) \in Nat
           /\ fed <= Len(stream.bytes) /\ Len(stream.bytes) \in Nat
           /\ pos \in Nat /\ pos <= Len(buf)
           /\ Window(stream.bytes, fed, buf, fed - Len(buf))
<1>1. stream \in Streams /\ k \in 1 .. Len(stream.items) /\ Buffers(stream, fed, buf) /\ pos \in 0 .. Len(buf)
  BY DEF ReaderInv, At
<1>2. Item(k) \in Nat \ {0}
  BY <1>1, ItemsAreWhole DEF Item
<1>3. stream.bytes \in Seq(0 .. 255) /\ Len(stream.bytes) \in Nat
  BY <1>1, StreamTypes
<1>4. /\ fed \in 0 .. Len(stream.bytes) /\ buf \in Seq(0 .. 255) /\ Len(buf) <= fed
      /\ \A i \in 1 .. Len(buf) : buf[i] = stream.bytes[fed - Len(buf) + i]
  BY <1>1 DEF Buffers
<1>5. Len(buf) \in Nat
  BY <1>4
<1>6. /\ fed \in Nat /\ fed - Len(buf) \in Nat /\ fed <= Len(stream.bytes)
      /\ pos \in Nat /\ pos <= Len(buf) /\ (fed - Len(buf)) + Len(buf) = fed
  BY <1>1, <1>3, <1>4, <1>5
<1>7. Window(stream.bytes, fed, buf, fed - Len(buf))
  BY <1>3, <1>4, <1>6 DEF Window
<1> QED BY <1>1, <1>2, <1>3, <1>5, <1>6, <1>7

\* The part that a step adds, and where it leaves the reader.
ItemDone(k) ==
    /\ ItemEnd(stream.bytes, Item(k)) <= fed
    /\ fed - Len(buf) + pos' = ItemEnd(stream.bytes, Item(k))
    /\ pos' \in 0 .. Len(buf)
    /\ reply' = reply \cup {PartAt(stream.bytes, stream.items[k])}
    /\ Arity(stream.bytes, Item(k)) # 0 => tasks[Len(tasks)].type = "array"
    /\ tasks' = IF Arity(stream.bytes, Item(k)) # 0
                THEN Opened(tasks, Arity(stream.bytes, Item(k)))
                ELSE NextTasks(tasks)
    /\ UNCHANGED <<stream, fed, buf, err, busy, out, drained>>

LEMMA Advances ==
    ASSUME ReaderInv, ~err, busy, tasks # <<>>,
           NEW k \in 1 .. Len(stream.items) - 1, At(k), ItemDone(k)
    PROVE  ReaderInv'
<1>1. /\ stream \in Streams /\ k \in 1 .. Len(stream.items)
      /\ Stacked(stream, k, tasks) /\ stream.items[k].path[1] = Len(out)
      /\ reply = PartsOf(stream, k, Len(out))
      /\ drained => ~Readable(stream, k, fed)
  BY DEF At, ReaderInv
<1>2. UNCHANGED <<stream, fed, buf, err, busy, out, drained>>
  BY DEF ItemDone
<1>3. PICK m \in Nat : m = Len(stream.items)
  BY <1>1, StreamTypes
<1>4. k + 1 \in 1 .. m /\ k < m
  BY <1>3
<1>5. ~drained
  BY <1>1, <1>3, <1>4 DEF ItemDone, Readable, Item
<1>6. Whole(stream.bytes, Item(k)) /\ Item(k) \in Nat \ {0} /\ stream.bytes \in Seq(0 .. 255)
      /\ Item(k + 1) = ItemEnd(stream.bytes, Item(k)) + 1
      /\ ItemEnd(stream.bytes, Item(k)) \in Nat
  BY <1>1, ItemsAreWhole, StreamTypes DEF Item
<1>7. PICK a \in Nat : a = Arity(stream.bytes, Item(k))
  <2>1. LineEnds(stream.bytes, Item(k)) # {}
    BY <1>6 DEF Whole
  <2> QED BY <1>6, <2>1, ItemFacts
<1>8. \/ tasks' = <<>> /\ stream.items[k + 1].path = <<Len(out) + 1>>
      \/ /\ tasks' # <<>> /\ Stacked(stream, k + 1, tasks')
         /\ tasks'[Len(tasks')].type = "none"
         /\ stream.items[k + 1].path[1] = Len(out)
  <2>1. CASE a = 0
    <3>1. tasks' = NextTasks(tasks) /\ Arity(stream.bytes, stream.items[k].at) = 0
      BY <1>7, <2>1 DEF ItemDone, Item
    <3> QED BY <1>1, <3>1, MovesOn
  <2>2. CASE a # 0
    <3>1. /\ tasks' = Opened(tasks, a)
          /\ Arity(stream.bytes, stream.items[k].at) = a
          /\ tasks[Len(tasks)].type = "array"
          /\ a \in Nat \ {0}
      BY <1>7, <2>2 DEF ItemDone, Item
    <3>2. PICK u : u = tasks'
      OBVIOUS
    <3>3. u # <<>> /\ Stacked(stream, k + 1, u) /\ u[Len(u)].type = "none"
          /\ stream.items[k + 1].path[1] = stream.items[k].path[1]
      <4>1. Enters(stream, k, tasks, a)
        BY <1>1, <3>1 DEF Enters
      <4> QED BY <3>1, <3>2, <4>1, MovesIn
    <3> QED BY <1>1, <3>2, <3>3
  <2> QED BY <2>1, <2>2
<1>9. fed - Len(buf) + pos' = stream.items[k + 1].at - 1
  BY <1>6 DEF ItemDone, Item
<1>10. PICK c : c = k + 1
  OBVIOUS
<1>11. /\ c \in 1 .. Len(stream.items)
       /\ BeforeType(stream, c, fed - Len(buf) + pos', tasks')
       /\ tasks' = <<>> => Len(stream.items[c].path) = 1
       /\ tasks' # <<>> => Stacked(stream, c, tasks')
       /\ stream.items[c].path[1] = Len(out) + IF busy /\ tasks' = <<>> THEN 1 ELSE 0
  <2>1. BeforeType(stream, c, fed - Len(buf) + pos', tasks')
    BY <1>8, <1>9, <1>10 DEF BeforeType
  <2>2. Len(out) + 0 = Len(out)
    <3>1. Len(out) \in Nat
      BY <1>1, StreamTypes
    <3> QED BY <3>1
  <2>3. CASE tasks' = <<>>
    <3>1. stream.items[c].path = <<Len(out) + 1>>
      BY <1>8, <1>10, <2>3
    <3> QED BY <1>3, <1>4, <1>10, <2>1, <2>3, <3>1
  <2>4. CASE tasks' # <<>>
    BY <1>3, <1>4, <1>8, <1>10, <2>1, <2>2, <2>4
  <2> QED BY <2>3, <2>4
<1>12. reply' = PartsOf(stream, c, Len(out))
  BY <1>1, <1>10, PartsGrow DEF ItemDone
<1>13. At(c)'
  BY <1>2, <1>5, <1>11, <1>12 DEF At
<1>14. /\ (stream \in Streams)' /\ ({err, busy, drained} \subseteq BOOLEAN)'
       /\ Buffers(stream, fed, buf)' /\ (pos \in 0 .. Len(buf))' /\ Returned(stream, out)'
  BY <1>2 DEF ReaderInv, ItemDone
<1>15. c \in 1 .. Len(stream'.items) /\ ~err'
  BY <1>2, <1>11
<1> QED BY <1>13, <1>14, <1>15 DEF ReaderInv

LEMMA TypeFacts ==
    ASSUME NEW byte \in TypeBytes
    PROVE  /\ TypeOf(byte) \in Types /\ TypeOf(byte) # "none"
           /\ TypeOf(byte) = "string" <=> byte = 36
           /\ TypeOf(byte) = "array" <=> byte = 42
           /\ TypeOf(byte) \in {"error", "status", "integer", "string", "array"}
  BY DEF TypeBytes, TypeOf, Types, LineTypes

\* The type of item k is read.
LEMMA TypeRead ==
    ASSUME ReaderInv, NEW k, At(k), tasks # <<>>, Cur.type # "none"
    PROVE  /\ fed - Len(buf) + pos = Item(k)
           /\ Item(k) <= Len(stream.bytes)
           /\ stream.bytes[Item(k)] \in TypeBytes
           /\ Cur.type = TypeOf(stream.bytes[Item(k)])
<1>1. ~BeforeType(stream, k, fed - Len(buf) + pos, tasks)
  BY DEF BeforeType, Cur
<1>2. BehindType(stream, k, fed - Len(buf) + pos, tasks)
  BY <1>1 DEF At
<1> QED BY <1>2 DEF BehindType, Cur, Item

\* The line of item k, as seekNewline finds it.
LEMMA LineRead ==
    ASSUME ReaderInv, NEW k, At(k), tasks # <<>>, Cur.type # "none"
    PROVE  /\ Newlines # {} =>
                 /\ LineEnds(stream.bytes, Item(k)) # {}
                 /\ LineEnd \in Nat /\ Number \in Int
                 /\ Min(LineEnds(stream.bytes, Item(k))) = fed - Len(buf) + LineEnd
                 /\ fed - Len(buf) + LineEnd < fed
                 /\ Line = Text(stream.bytes, Item(k))
                 /\ Number = Size(stream.bytes, Item(k))
           /\ Newlines = {} /\ LineEnds(stream.bytes, Item(k)) # {} =>
                 fed <= Min(LineEnds(stream.bytes, Item(k)))
<1>1. PICK b, o, i : b = stream.bytes /\ o = fed - Len(buf) /\ i = Item(k)
  OBVIOUS
<1>2. /\ Window(b, fed, buf, o) /\ o \in Nat /\ pos \in 0 .. Len(buf) /\ pos \in Nat /\ fed \in Nat
      /\ i \in Nat \ {0} /\ Len(buf) \in Nat /\ o + Len(buf) = fed
  <2>1. /\ Window(stream.bytes, fed, buf, fed - Len(buf))
        /\ pos \in Nat /\ pos <= Len(buf) /\ Len(buf) \in Nat /\ fed \in Nat
        /\ Item(k) \in Nat \ {0} /\ fed - Len(buf) \in Nat
    BY Where
  <2> QED BY <1>1, <2>1
<1>3. o + pos = i
  BY <1>1, TypeRead
<1>4. Newlines = LineEnds(buf, pos)
  BY DEF Newlines, LineEnds
<1>5. LineEnd = Min(LineEnds(buf, pos))
  BY <1>4 DEF LineEnd
<1>6. Line = Text(buf, pos)
  BY <1>5 DEF Line, Text
<1>7. Number = Size(buf, pos)
  BY <1>6 DEF Number, Size
<1>8. ASSUME Newlines # {}
      PROVE  /\ LineEnds(b, i) # {} /\ LineEnd \in Nat
             /\ Min(LineEnds(b, i)) = o + LineEnd /\ o + LineEnd < fed
             /\ Line = Text(b, i) /\ Number = Size(b, i) /\ Number \in Int
  <2>1. o + pos # 0 /\ LineEnds(buf, pos) # {}
    BY <1>2, <1>3, <1>4, <1>8
  <2>2. /\ LineEnds(b, o + pos) # {} /\ Min(LineEnds(buf, pos)) \in Nat
        /\ Min(LineEnds(b, o + pos)) = o + Min(LineEnds(buf, pos))
        /\ o + Min(LineEnds(buf, pos)) < fed
        /\ Text(buf, pos) = Text(b, o + pos) /\ Size(buf, pos) = Size(b, o + pos)
    BY <1>2, <2>1, SameLine
  <2>3. Size(b, i) \in Int
    BY <1>2, <1>3, <2>2, ItemFacts DEF Window
  <2> QED BY <1>3, <1>5, <1>6, <1>7, <2>2, <2>3
<1>9. ASSUME Newlines = {}, LineEnds(b, i) # {} PROVE fed <= Min(LineEnds(b, i))
  <2>1. Min(LineEnds(b, i)) \in LineEnds(b, i) /\ Min(LineEnds(b, i)) \in Nat
    BY <1>2, <1>9, ItemFacts DEF Window
  <2>2. Min(LineEnds(b, i)) < fed => FALSE
    BY <1>2, <1>3, <1>4, <1>9, <2>1, SameLineEnds
  <2> QED BY <1>2, <2>1, <2>2
<1> QED BY <1>1, <1>8, <1>9

\* Where item k ends.
LEMMA EndRead ==
    ASSUME ReaderInv, NEW k, At(k), tasks # <<>>, Cur.type # "none", Newlines # {}
    PROVE  ItemEnd(stream.bytes, Item(k))
             = fed - Len(buf) + IF Cur.type = "string" THEN BulkEnd ELSE LineEnd + 1
<1>1. PICK b, o, i, z, e : b = stream.bytes /\ o = fed - Len(buf) /\ i = Item(k) /\ z = Number /\ e = LineEnd
  OBVIOUS
<1>2. o \in Nat /\ z \in Int /\ e \in Nat /\ Min(LineEnds(b, i)) = o + e /\ Size(b, i) = z
  BY <1>1, LineRead, Where
<1>3. ItemEnd(b, i) = o + e + 1 + IF b[i] = 36 /\ z >= 0 THEN z + 2 ELSE 0
  BY <1>2 DEF ItemEnd
<1>4. Cur.type = "string" <=> b[i] = 36
  <2>1. stream.bytes[Item(k)] \in TypeBytes /\ Cur.type = TypeOf(stream.bytes[Item(k)])
    BY TypeRead
  <2> QED BY <1>1, <2>1, TypeFacts
<1>5. BulkEnd = IF z < 0 THEN e + 1 ELSE e + 1 + z + 2
  BY <1>1 DEF BulkEnd
<1>6. CASE Cur.type = "string"
  <2>1. ItemEnd(b, i) = o + BulkEnd
    BY <1>2, <1>3, <1>4, <1>5, <1>6
  <2> QED BY <1>1, <1>6, <2>1
<1>7. CASE Cur.type # "string"
  <2>1. ItemEnd(b, i) = o + (e + 1)
    BY <1>2, <1>3, <1>4, <1>7
  <2> QED BY <1>1, <1>7, <2>1
<1> QED BY <1>6, <1>7

\* The last item is incomplete, or it is where the stream breaks.
LEMMA NotLast ==
    ASSUME ReaderInv, NEW k, At(k), tasks # <<>>, Cur.type # "none", Newlines # {},
           Cur.type = "array" => ~TooDeep,
           ItemEnd(stream.bytes, Item(k)) <= fed
    PROVE  k \in 1 .. Len(stream.items) - 1
<1>1. stream \in Streams /\ k \in 1 .. Len(stream.items) /\ Stacked(stream, k, tasks)
  BY DEF At, ReaderInv
<1>2. Len(stream.items) \in Nat
  BY <1>1, StreamTypes
<1>3. PICK b, i, e : b = stream.bytes /\ i = Item(k) /\ e = ItemEnd(b, i)
  OBVIOUS
<1>4. i \in Nat \ {0} /\ fed \in Nat /\ fed <= Len(b) /\ Len(b) \in Nat
  BY <1>3, Where
<1>5. LineEnds(b, i) # {} /\ b[i] \in TypeBytes /\ Cur.type = TypeOf(b[i]) /\ i <= Len(b)
  BY <1>3, LineRead, TypeRead
<1>6. e \in Nat
  BY <1>1, <1>3, <1>4, <1>5, StreamTypes, ItemFacts
<1>7. Whole(b, i)
  BY <1>3, <1>4, <1>5, <1>6 DEF Whole
<1>8. ASSUME k = Len(stream.items) PROVE FALSE
  <2>1. Broken(stream)
    BY <1>1, <1>3, <1>7, <1>8, StreamsAssumption DEF ItemsFollow, Item
  <2>2. b[i] = 42 /\ Len(stream.items[k].path) = MaxTasks
    BY <1>3, <1>5, <1>8, <2>1 DEF Broken, Item
  <2>3. Cur.type = "array"
    BY <1>5, <2>2, TypeFacts
  <2> QED BY <1>1, <2>2, <2>3 DEF TooDeep, Stacked
<1> QED BY <1>1, <1>2, <1>8

BulkText(b, n, z) == SubSeq(b, n + 1 + 1, n + 1 + z)

IsPart(b, item, type, val) ==
    PartAt(b, item) = [path |-> Tail(item.path), type |-> type, val |-> val]

\* Byte at is the type byte of the item, and z the number in its line.
TypedAs(b, item, at, type, z) ==
    /\ at = item.at /\ b[at] \in TypeBytes /\ type = TypeOf(b[at])
    /\ z \in Int /\ z = Size(b, at)

LEMMA PartFacts ==
    ASSUME NEW b, NEW item, NEW at, NEW type, NEW z, TypedAs(b, item, at, type, z)
    PROVE  /\ type \in {"error", "status"} => IsPart(b, item, type, Text(b, at))
           /\ type = "integer" => IsPart(b, item, type, <<z>>)
           /\ type = "string" /\ z < 0 => IsPart(b, item, "nil", <<>>)
           /\ type = "string" /\ ~(z < 0) =>
                 IsPart(b, item, "string", BulkText(b, Min(LineEnds(b, at)), z))
           /\ type = "array" /\ z = -1 => IsPart(b, item, "nil", <<>>)
           /\ type = "array" /\ z # -1 => IsPart(b, item, "array", <<z>>)
<1>0. /\ at = item.at /\ b[at] \in TypeBytes /\ type = TypeOf(b[at])
      /\ z \in Int /\ z = Size(b, at)
  BY DEF TypedAs
<1>1. type = "string" <=> b[at] = 36
  BY <1>0, TypeFacts
<1>2. type = "array" <=> b[at] = 42
  BY <1>0, TypeFacts
<1> DEFINE t == IF (b[at] = 36 /\ z < 0) \/ (b[at] = 42 /\ z = -1) THEN "nil" ELSE type
           n == Min(LineEnds(b, at)) + 1
<1>3. PartAt(b, item) = [path |-> Tail(item.path), type |-> t,
         val |-> CASE t \in {"error", "status"}  -> Text(b, at)
                   [] t \in {"integer", "array"} -> <<z>>
                   [] t = "string"               -> SubSeq(b, n + 1, n + z)
                   [] t = "nil"                  -> <<>>]
  BY <1>0 DEF PartAt
<1>4. CASE type \in {"error", "status"}
  <2>1. t = type
    BY <1>1, <1>2, <1>4
  <2> HIDE DEF t
  <2> QED BY <1>3, <1>4, <2>1 DEF IsPart
<1>5. CASE type = "integer"
  <2>1. t = "integer"
    BY <1>1, <1>2, <1>5
  <2> HIDE DEF t
  <2> QED BY <1>3, <1>5, <2>1 DEF IsPart
<1>6. CASE type = "string" /\ z < 0
  <2>1. t = "nil"
    BY <1>1, <1>6
  <2> HIDE DEF t
  <2> QED BY <1>3, <1>6, <2>1 DEF IsPart
<1>7. CASE type = "string" /\ ~(z < 0)
  <2>1. t = "string"
    BY <1>1, <1>2, <1>7
  <2> HIDE DEF t
  <2> QED BY <1>3, <1>7, <2>1 DEF IsPart, BulkText
<1>8. CASE type = "array" /\ z = -1
  <2>1. t = "nil"
    BY <1>2, <1>8
  <2> HIDE DEF t
  <2> QED BY <1>3, <1>8, <2>1 DEF IsPart
<1>9. CASE type = "array" /\ z # -1
  <2>1. t = "array"
    BY <1>1, <1>2, <1>9
  <2> HIDE DEF t
  <2> QED BY <1>3, <1>9, <2>1 DEF IsPart
<1> QED BY <1>4, <1>5, <1>6, <1>7, <1>8, <1>9

\* The bytes of a bulk string are there, behind a line that ends at e.
Held(c, e, z) == e \in Nat /\ z \in Nat /\ e + 1 + z <= Len(c)

LEMMA BulkRead ==
    ASSUME NEW b, NEW n, NEW c, NEW o, Window(b, n, c, o),
           NEW e, NEW z, Held(c, e, z)
    PROVE  BulkText(b, o + e, z) = SubSeq(c, e + 2, e + 1 + z)
<1>0. e \in Nat /\ z \in Nat /\ e + 1 + z <= Len(c)
  BY DEF Held
<1>1. /\ Len(c) \in Nat /\ Len(b) \in Nat /\ n \in Nat /\ n <= Len(b) /\ o \in Nat /\ o + Len(c) = n
      /\ b \in Seq(0 .. 255) /\ c \in Seq(0 .. 255)
  BY DEF Window
<1> DEFINE u == SubSeq(c, e + 2, e + 1 + z)
           v == SubSeq(b, (o + e) + 1 + 1, (o + e) + 1 + z)
<1>2. /\ e + 1 + z \in 0 .. Len(c) /\ (o + e) + 1 + z \in 0 .. Len(b)
      /\ e + 2 \in Nat \ {0} /\ (o + e) + 1 + 1 \in Nat \ {0}
  BY <1>0, <1>1
<1>3. u \in Seq(0 .. 255) /\ v \in Seq(0 .. 255)
  BY <1>0, <1>1, <1>2, SubSeqType
<1>4. Len(u) = z /\ \A i \in 1 .. z : u[i] = c[e + 1 + i]
  BY <1>0, <1>1
<1>5. Len(v) = z /\ \A i \in 1 .. z : v[i] = b[o + e + 1 + i]
  BY <1>0, <1>1
<1> HIDE DEF u, v
<1>6. ASSUME NEW i \in 1 .. z PROVE u[i] = v[i]
  <2>1. e + 1 + i \in 1 .. Len(c) /\ o + (e + 1 + i) = o + e + 1 + i
    BY <1>0, <1>1
  <2>2. c[e + 1 + i] = b[o + (e + 1 + i)]
    BY <2>1 DEF Window
  <2> QED BY <1>4, <1>5, <2>1, <2>2
<1>7. u = v
  BY <1>3, <1>4, <1>5, <1>6, SameSeq
<1> QED BY <1>0, <1>7 DEF u, v, BulkText

\* A task means that there is no error.
LEMMA Reading ==
    ASSUME ReaderInv, tasks # <<>>
    PROVE  ~err /\ \E k \in 1 .. Len(stream.items) : At(k)
  BY DEF ReaderInv, Failed

LEMMA LineItemStep ==
    ASSUME ReaderInv, ProcessLineItem
    PROVE  ReaderInv'
<1>1. busy /\ tasks # <<>> /\ Cur.type \in LineTypes /\ Newlines # {}
  BY DEF ProcessLineItem, Processing
<1>2. ~err
  BY <1>1, Reading
<1>3. PICK k \in 1 .. Len(stream.items) : At(k)
  BY <1>1, Reading
<1>4. Cur.type # "none" /\ Cur.type # "string" /\ Cur.type # "array"
  BY <1>1 DEF LineTypes
<1>5. PICK b, i, z : b = stream.bytes /\ i = Item(k) /\ z = Number
  OBVIOUS
<1>6. /\ LineEnd \in Nat /\ fed - Len(buf) + LineEnd < fed
      /\ Line = Text(b, i) /\ z = Size(b, i) /\ z \in Int
  BY <1>1, <1>3, <1>4, <1>5, LineRead
<1>7. b[i] \in TypeBytes /\ Cur.type = TypeOf(b[i])
  BY <1>1, <1>3, <1>4, <1>5, TypeRead
<1>8. Len(buf) \in Nat /\ fed \in Nat /\ fed - Len(buf) \in Nat /\ stream \in Streams
  BY <1>3, Where
<1>9. ItemEnd(b, i) = fed - Len(buf) + (LineEnd + 1)
  BY <1>1, <1>3, <1>4, <1>5, EndRead
<1>10. ItemEnd(b, i) <= fed /\ LineEnd + 1 \in 0 .. Len(buf)
  BY <1>6, <1>8, <1>9
<1>11. k \in 1 .. Len(stream.items) - 1
  BY <1>1, <1>3, <1>4, <1>5, <1>10, NotLast
<1>12. Arity(b, i) = 0
  <2>1. b[i] # 42
    BY <1>4, <1>7, TypeFacts
  <2> QED BY <2>1 DEF Arity
<1>13. reply' = reply \cup {PartAt(b, stream.items[k])}
  <2>1. Path = Tail(stream.items[k].path)
    BY <1>1, <1>3, <1>8, PathOfStack DEF At
  <2>2. /\ Cur.type \in {"error", "status"} => IsPart(b, stream.items[k], Cur.type, Text(b, i))
        /\ Cur.type = "integer" => IsPart(b, stream.items[k], Cur.type, <<z>>)
    <3>1. TypedAs(b, stream.items[k], i, Cur.type, z)
      BY <1>5, <1>6, <1>7 DEF TypedAs, Item
    <3> QED BY <3>1, PartFacts
  <2>3. reply' = reply \cup {[path |-> Path, type |-> Cur.type,
                              val |-> IF Cur.type = "integer" THEN <<z>> ELSE Line]}
    BY <1>5 DEF ProcessLineItem, Built
  <2>4. CASE Cur.type = "integer"
    BY <2>1, <2>2, <2>3, <2>4 DEF IsPart
  <2>5. CASE Cur.type \in {"error", "status"}
    BY <1>6, <2>1, <2>2, <2>3, <2>5 DEF IsPart
  <2> QED BY <1>1, <2>4, <2>5 DEF LineTypes
<1>14. ItemDone(k)
  BY <1>5, <1>9, <1>10, <1>12, <1>13 DEF ItemDone, ProcessLineItem
<1> QED BY <1>1, <1>2, <1>3, <1>11, <1>14, Advances

LEMMA BulkItemStep ==
    ASSUME ReaderInv, ProcessBulkItem
    PROVE  ReaderInv'
<1>1. busy /\ tasks # <<>> /\ Cur.type = "string" /\ Newlines # {} /\ BulkEnd <= Len(buf)
  BY DEF ProcessBulkItem, Processing
<1>2. ~err
  BY <1>1, Reading
<1>3. PICK k \in 1 .. Len(stream.items) : At(k)
  BY <1>1, Reading
<1>4. Cur.type # "none" /\ Cur.type # "array"
  BY <1>1
<1>5. PICK b, i, z, e, o : b = stream.bytes /\ i = Item(k) /\ z = Number /\ e = LineEnd /\ o = fed - Len(buf)
  OBVIOUS
<1>6. /\ e \in Nat /\ Min(LineEnds(b, i)) = o + e /\ z = Size(b, i) /\ z \in Int
  BY <1>1, <1>3, <1>4, <1>5, LineRead
<1>7. b[i] \in TypeBytes /\ Cur.type = TypeOf(b[i])
  BY <1>1, <1>3, <1>4, <1>5, TypeRead
<1>8. Len(buf) \in Nat /\ fed \in Nat /\ o \in Nat /\ stream \in Streams /\ Window(b, fed, buf, o)
  BY <1>3, <1>5, Where
<1>9. ItemEnd(b, i) = o + BulkEnd
  BY <1>1, <1>3, <1>4, <1>5, EndRead
<1>10. BulkEnd = IF z < 0 THEN e + 1 ELSE e + 1 + z + 2
  BY <1>5 DEF BulkEnd
<1>11. ItemEnd(b, i) <= fed /\ BulkEnd \in 0 .. Len(buf)
  <2>1. BulkEnd \in Nat
    BY <1>6, <1>10
  <2> QED BY <1>1, <1>5, <1>8, <1>9, <2>1
<1>12. k \in 1 .. Len(stream.items) - 1
  BY <1>1, <1>3, <1>4, <1>5, <1>11, NotLast
<1>13. Arity(b, i) = 0
  <2>1. b[i] # 42
    BY <1>1, <1>4, <1>7, TypeFacts
  <2> QED BY <2>1 DEF Arity
<1>14. reply' = reply \cup {PartAt(b, stream.items[k])}
  <2>1. Path = Tail(stream.items[k].path)
    BY <1>1, <1>3, <1>8, PathOfStack DEF At
  <2>2. /\ z < 0 => IsPart(b, stream.items[k], "nil", <<>>)
        /\ ~(z < 0) => IsPart(b, stream.items[k], "string", BulkText(b, o + e, z))
    <3>1. TypedAs(b, stream.items[k], i, Cur.type, z)
      BY <1>5, <1>6, <1>7 DEF TypedAs, Item
    <3> QED BY <1>1, <1>6, <3>1, PartFacts
  <2>3. CASE z < 0
    <3>1. reply' = reply \cup {[path |-> Path, type |-> "nil", val |-> <<>>]}
      BY <1>5, <2>3 DEF ProcessBulkItem, Built
    <3> QED BY <2>1, <2>2, <2>3, <3>1 DEF IsPart
  <2>4. CASE ~(z < 0)
    <3>1. reply' = reply \cup {[path |-> Path, type |-> "string", val |-> SubSeq(buf, e + 2, e + 1 + z)]}
      BY <1>5, <2>4 DEF ProcessBulkItem, Built
    <3>2. z \in Nat /\ e + 1 + z <= Len(buf)
      BY <1>1, <1>6, <1>8, <1>10, <2>4
    <3>3. BulkText(b, o + e, z) = SubSeq(buf, e + 2, e + 1 + z)
      <4>1. Held(buf, e, z)
        BY <1>6, <3>2 DEF Held
      <4> QED BY <1>8, <4>1, BulkRead
    <3> QED BY <2>1, <2>2, <2>4, <3>1, <3>3 DEF IsPart
  <2> QED BY <2>3, <2>4
<1>15. ItemDone(k)
  BY <1>5, <1>9, <1>11, <1>13, <1>14 DEF ItemDone, ProcessBulkItem
<1> QED BY <1>1, <1>2, <1>3, <1>12, <1>15, Advances

\* __redisReaderSetError, where the stream is broken.
LEMMA ErrorStep ==
    ASSUME ReaderInv, tasks # <<>>, NEW k, At(k), k = Len(stream.items), Broken(stream),
           Item(k) <= fed, SetError, UNCHANGED <<stream, fed, busy, out, drained>>
    PROVE  ReaderInv'
<1>1. stream \in Streams /\ Item(k) \in Nat \ {0} /\ fed \in Nat
  BY Where
<1>2. ~drained
  BY DEF At, Readable, Item
<1>3. stream.bad = Item(k) /\ Len(stream.replies) = stream.items[k].path[1]
  BY <1>1, StreamsAssumption DEF RepliesNamed, Item
<1>4. Len(out) = Len(stream.replies)
  <2>1. stream.items[k].path[1] = Len(out) + 0 /\ stream.items[k].path[1] \in Nat
    BY <1>1, StreamTypes DEF At
  <2>2. Len(out) \in Nat
    <3>1. out \in Seq(SUBSET Part)
      BY DEF ReaderInv, Returned
    <3> QED BY <3>1
  <2> QED BY <1>3, <2>1, <2>2
<1>5. stream.bad \in 1 .. fed
  BY <1>1, <1>3
<1>6. Failed'
  BY <1>2, <1>4, <1>5 DEF Failed, SetError
<1>7. Buffers(stream, fed, <<>>)
  <2>1. <<>> \in Seq(0 .. 255) /\ Len(<<>>) = 0 /\ fed \in 0 .. Len(stream.bytes) /\ 0 <= fed
    BY <1>1 DEF ReaderInv, Buffers
  <2>2. \A i \in 1 .. 0 : FALSE
    OBVIOUS
  <2> QED BY <2>1, <2>2 DEF Buffers
<1>8. Buffers(stream, fed, buf)' /\ (pos \in 0 .. Len(buf))' /\ err'
  BY <1>7 DEF SetError
<1>9. (stream \in Streams)' /\ ({err, busy, drained} \subseteq BOOLEAN)' /\ Returned(stream, out)'
  BY <1>8 DEF ReaderInv, SetError
<1> QED BY <1>6, <1>8, <1>9 DEF ReaderInv

LEMMA ReadTypeStep ==
    ASSUME ReaderInv, ReadType
    PROVE  ReaderInv'
<1>1. busy /\ tasks # <<>> /\ Cur.type = "none" /\ pos < Len(buf)
      /\ UNCHANGED <<stream, fed, busy, out, drained>>
  BY DEF ReadType, Processing
<1>2. ~err
  BY <1>1, Reading
<1>3. PICK k \in 1 .. Len(stream.items) : At(k)
  BY <1>1, Reading
<1>4. /\ stream \in Streams /\ Item(k) \in Nat \ {0}
      /\ Len(buf) \in Nat /\ fed \in Nat /\ fed - Len(buf) \in Nat
      /\ fed <= Len(stream.bytes) /\ Len(stream.bytes) \in Nat /\ pos \in Nat
      /\ Window(stream.bytes, fed, buf, fed - Len(buf))
  BY <1>3, Where
<1>5. fed - Len(buf) + pos = Item(k) - 1
  <2>1. ~BehindType(stream, k, fed - Len(buf) + pos, tasks)
    BY <1>1, TypeFacts DEF BehindType, Cur
  <2> QED BY <1>3, <2>1 DEF At, BeforeType, Item
<1>6. fed - Len(buf) + (pos + 1) = Item(k) /\ Item(k) <= fed /\ pos + 1 \in 1 .. Len(buf)
  BY <1>1, <1>4, <1>5
<1>7. buf[pos + 1] = stream.bytes[Item(k)]
  BY <1>4, <1>6 DEF Window
<1>8. ASSUME buf[pos + 1] \in TypeBytes,
             tasks' = [tasks EXCEPT ![Len(tasks)].type = TypeOf(buf[pos + 1])],
             pos' = pos + 1, UNCHANGED <<buf, reply, err>>
      PROVE  ReaderInv'
  <2>1. PICK t, u, n, x : t = tasks /\ u = tasks' /\ n = Len(tasks) /\ x = TypeOf(buf[pos + 1])
    OBVIOUS
  <2>2. Stacked(stream, k, t)
    BY <1>1, <1>3, <2>1 DEF At
  <2>3. t \in Seq(TaskType) /\ n = Len(t) /\ n \in Nat /\ t # <<>>
    BY <1>1, <2>1, <2>2 DEF Stacked
  <2>4. n \in 1 .. n /\ n # 0
    BY <2>3, EmptyList
  <2>5. x \in Types
    BY <1>8, <2>1, TypeFacts
  <2>6. PICK y : y = [t[n] EXCEPT !.type = x]
    OBVIOUS
  <2>7. t[n] \in TaskType
    BY <2>3, <2>4, ElementType
  <2>8. y \in TaskType /\ y.type = x /\ y.idx = t[n].idx /\ y.elements = t[n].elements
    BY <2>5, <2>6, <2>7 DEF TaskType
  <2>9. u = [t EXCEPT ![n] = y]
    BY <1>8, <2>1, <2>6
  <2>10. u \in Seq(TaskType) /\ Len(u) = n /\ u[n] = y /\ \A l \in 1 .. n : l # n => u[l] = t[l]
    BY <2>3, <2>4, <2>8, <2>9
  <2>11. ASSUME NEW l \in 1 .. n PROVE u[l].idx = t[l].idx
    BY <2>8, <2>10
  <2>12. \A l \in 1 .. n - 1 : l \in 1 .. n /\ u[l] = t[l]
    BY <2>3, <2>10
  <2>13. Stacked(stream, k, u)
    <3>1. \A l \in 2 .. n : l \in 1 .. n
      BY <2>3
    <3> QED BY ZenonT(60), <2>2, <2>3, <2>10, <2>11, <2>12, <3>1 DEF Stacked
  <2>14. u # <<>>
    BY <2>4, <2>10
  <2>15. BehindType(stream, k, Item(k), u)
    <3>1. u[Len(u)].type = TypeOf(stream.bytes[Item(k)])
      BY <1>7, <2>1, <2>8, <2>10
    <3>2. Item(k) <= Len(stream.bytes)
      BY <1>4, <1>6
    <3> QED BY <1>7, <1>8, <2>14, <3>1, <3>2 DEF BehindType, Item
  <2>16. At(k)'
    <3>1. BehindType(stream, k, fed - Len(buf) + pos, tasks)'
      BY <1>1, <1>6, <1>8, <2>1, <2>15
    <3>2. (tasks # <<>> /\ Stacked(stream, k, tasks))'
      BY <1>1, <2>1, <2>13, <2>14
    <3>3. /\ k \in 1 .. Len(stream.items)
          /\ stream.items[k].path[1] = Len(out) + 0
          /\ reply = PartsOf(stream, k, Len(out))
          /\ drained => ~Readable(stream, k, fed)
      BY <1>1, <1>3 DEF At
    <3> QED BY <1>1, <1>8, <3>1, <3>2, <3>3 DEF At
  <2>17. /\ (stream \in Streams)' /\ ({err, busy, drained} \subseteq BOOLEAN)'
         /\ Buffers(stream, fed, buf)' /\ (pos \in 0 .. Len(buf))' /\ Returned(stream, out)'
    <3>1. pos + 1 \in 0 .. Len(buf)
      BY <1>4, <1>6
    <3> QED BY <1>1, <1>8, <3>1 DEF ReaderInv
  <2>18. k \in 1 .. Len(stream'.items) /\ ~err'
    BY <1>1, <1>2, <1>3, <1>8
  <2> QED BY <2>16, <2>17, <2>18 DEF ReaderInv
<1>9. ASSUME buf[pos + 1] \notin TypeBytes, SetError PROVE ReaderInv'
  <2>1. ~Whole(stream.bytes, Item(k))
    BY <1>7, <1>9 DEF Whole
  <2>2. PICK m \in Nat : m = Len(stream.items)
    BY <1>4, StreamTypes
  <2>3. k \notin 1 .. m - 1
    BY <1>4, <2>1, <2>2, ItemsAreWhole DEF Item
  <2>4. k = Len(stream.items)
    BY <1>3, <2>2, <2>3
  <2>5. Broken(stream)
    BY <1>4, <1>6, <1>7, <1>9, <2>4 DEF Broken, Item
  <2> QED BY <1>1, <1>3, <1>6, <1>9, <2>4, <2>5, ErrorStep
<1> QED BY <1>8, <1>9 DEF ReadType

LEMMA MultiBulkItemStep ==
    ASSUME ReaderInv, ProcessMultiBulkItem
    PROVE  ReaderInv'
<1>1. busy /\ tasks # <<>> /\ Cur.type = "array" /\ UNCHANGED <<stream, fed, busy, out, drained>>
  BY DEF ProcessMultiBulkItem, Processing
<1>2. ~err
  BY <1>1, Reading
<1>3. PICK k \in 1 .. Len(stream.items) : At(k)
  BY <1>1, Reading
<1>4. PICK b, i, z, e, o : b = stream.bytes /\ i = Item(k) /\ z = Number /\ e = LineEnd /\ o = fed - Len(buf)
  OBVIOUS
<1>5. b[i] \in TypeBytes /\ Cur.type = TypeOf(b[i]) /\ o + pos = i /\ i <= Len(b)
  BY <1>1, <1>3, <1>4, TypeRead
<1>6. b[i] = 42
  BY <1>1, <1>5, TypeFacts
<1>7. /\ Len(buf) \in Nat /\ fed \in Nat /\ o \in Nat /\ stream \in Streams
      /\ pos \in Nat /\ pos <= Len(buf)
  BY <1>3, <1>4, Where
<1>8. ASSUME TooDeep, SetError PROVE ReaderInv'
  <2>1. Len(stream.items[k].path) = MaxTasks
    BY <1>1, <1>3, <1>8 DEF At, Stacked, TooDeep
  <2>2. PICK m \in Nat : m = Len(stream.items)
    BY <1>7, StreamTypes
  <2>3. k \notin 1 .. m - 1
    <3>1. ~(MaxTasks < MaxTasks)
      BY ReaderAssumption
    <3> QED BY <1>4, <1>6, <1>7, <2>1, <2>2, <3>1, ItemsAreWhole DEF Item
  <2>4. k = Len(stream.items)
    BY <1>3, <2>2, <2>3
  <2>5. Broken(stream)
    BY <1>4, <1>5, <1>6, <2>1, <2>4 DEF Broken, Item
  <2>6. Item(k) <= fed
    BY <1>4, <1>5, <1>7
  <2> QED BY <1>1, <1>3, <1>8, <2>4, <2>5, <2>6, ErrorStep
<1>9. ASSUME ~TooDeep, Newlines # {},
             reply' = IF Number = -1 THEN Built("nil", <<>>) ELSE Built("array", <<Number>>),
             pos' = LineEnd + 1,
             tasks' = IF Number > 0
                      THEN Append([tasks EXCEPT ![Len(tasks)].elements = Number], Task(0))
                      ELSE NextTasks(tasks),
             UNCHANGED <<buf, err>>
      PROVE  ReaderInv'
  <2>1. Cur.type # "none" /\ Cur.type # "string"
    BY <1>1
  <2>2. e \in Nat /\ o + e < fed /\ z = Size(b, i) /\ z \in Int
    BY <1>1, <1>3, <1>4, <1>9, <2>1, LineRead
  <2>3. ItemEnd(b, i) = o + (e + 1)
    BY <1>1, <1>3, <1>4, <1>9, <2>1, EndRead
  <2>4. ItemEnd(b, i) <= fed /\ e + 1 \in 0 .. Len(buf)
    BY <1>4, <1>7, <2>2, <2>3
  <2>5. k \in 1 .. Len(stream.items) - 1
    BY <1>1, <1>3, <1>4, <1>9, <2>1, <2>4, NotLast
  <2>6. Arity(b, i) = IF z > 0 THEN z ELSE 0
    BY <1>6, <2>2 DEF Arity
  <2>7. reply' = reply \cup {PartAt(b, stream.items[k])}
    <3>1. Path = Tail(stream.items[k].path)
      BY <1>1, <1>3, <1>7, PathOfStack DEF At
    <3>2. /\ z = -1 => IsPart(b, stream.items[k], "nil", <<>>)
          /\ z # -1 => IsPart(b, stream.items[k], "array", <<z>>)
      <4>1. TypedAs(b, stream.items[k], i, Cur.type, z)
        BY <1>4, <1>5, <2>2 DEF TypedAs, Item
      <4> QED BY <1>1, <4>1, PartFacts
    <3>3. CASE z = -1
      <4>1. reply' = reply \cup {[path |-> Path, type |-> "nil", val |-> <<>>]}
        BY <1>4, <1>9, <3>3 DEF Built
      <4> QED BY <3>1, <3>2, <3>3, <4>1 DEF IsPart
    <3>4. CASE z # -1
      <4>1. reply' = reply \cup {[path |-> Path, type |-> "array", val |-> <<z>>]}
        BY <1>4, <1>9, <3>4 DEF Built
      <4> QED BY <3>1, <3>2, <3>4, <4>1 DEF IsPart
    <3> QED BY <3>3, <3>4
  <2>8. tasks' = IF Arity(b, i) # 0 THEN Opened(tasks, Arity(b, i)) ELSE NextTasks(tasks)
    <3>1. CASE z > 0
      <4>1. tasks' = Opened(tasks, z)
        BY <1>4, <1>9, <3>1 DEF Opened
      <4>2. Arity(b, i) = z /\ z # 0
        BY <2>2, <2>6, <3>1
      <4> QED BY <4>1, <4>2
    <3>2. CASE ~(z > 0)
      <4>1. tasks' = NextTasks(tasks)
        BY <1>4, <1>9, <3>2
      <4>2. Arity(b, i) = 0
        BY <2>6, <3>2
      <4> QED BY <4>1, <4>2
    <3> QED BY <3>1, <3>2
  <2>9. tasks[Len(tasks)].type = "array"
    BY <1>1 DEF Cur
  <2>10. ItemDone(k)
    BY <1>1, <1>4, <1>9, <2>3, <2>4, <2>7, <2>8, <2>9 DEF ItemDone
  <2> QED BY <1>1, <1>2, <1>3, <2>5, <2>10, Advances
<1> QED BY <1>8, <1>9 DEF ProcessMultiBulkItem

\* When processItem wants more bytes, the item is not there.
LEMMA NotReadable ==
    ASSUME ReaderInv, Incomplete, NEW k, At(k)
    PROVE  tasks # <<>> /\ ~Readable(stream, k, fed)
<1>1. tasks # <<>>
  BY DEF Incomplete
<1>2. PICK b, i, o, m : b = stream.bytes /\ i = Item(k) /\ o = fed - Len(buf) /\ m = Len(stream.items)
  OBVIOUS
<1>3. /\ Len(buf) \in Nat /\ fed \in Nat /\ o \in Nat /\ stream \in Streams /\ k \in 1 .. m
      /\ pos \in Nat /\ pos <= Len(buf) /\ i \in Nat \ {0} /\ o + Len(buf) = fed
  <2>1. /\ Len(buf) \in Nat /\ fed \in Nat /\ o \in Nat /\ stream \in Streams /\ k \in 1 .. m
        /\ pos \in Nat /\ pos <= Len(buf) /\ i \in Nat \ {0}
    BY <1>2, Where
  <2> QED BY <1>2, <2>1
<1>4. m \in Nat
  BY <1>2, <1>3, StreamTypes
<1>5. ASSUME k < m
      PROVE  LineEnds(b, i) # {} /\ ItemEnd(b, i) \in Nat /\ i < ItemEnd(b, i)
             /\ Min(LineEnds(b, i)) \in Nat /\ Min(LineEnds(b, i)) < ItemEnd(b, i)
  <2>1. k \in 1 .. Len(stream.items) - 1
    BY <1>2, <1>3, <1>4, <1>5
  <2>2. Whole(b, i) /\ ItemEnd(b, i) \in Nat /\ i < ItemEnd(b, i) /\ b \in Seq(0 .. 255)
    BY <1>2, <1>3, <2>1, ItemsAreWhole, StreamTypes DEF Item
  <2>3. LineEnds(b, i) # {}
    BY <2>2 DEF Whole
  <2> QED BY <1>3, <2>2, <2>3, ItemFacts
<1>6. Readable(stream, k, fed) <=>
        IF k < m THEN ItemEnd(b, i) <= fed ELSE Broken(stream) /\ i <= fed
  BY <1>2 DEF Readable, Item
<1>7. CASE Cur.type = "none"
  <2>1. pos = Len(buf)
    BY <1>7 DEF Incomplete, LineTypes
  <2>2. fed - Len(buf) + pos = Item(k) - 1
    <3>1. ~BehindType(stream, k, fed - Len(buf) + pos, tasks)
      BY <1>7, TypeFacts DEF BehindType, Cur
    <3> QED BY <3>1 DEF At, BeforeType, Item
  <2>3. ~(i <= fed)
    BY <1>2, <1>3, <2>1, <2>2
  <2>4. k < m => ~(ItemEnd(b, i) <= fed)
    BY <1>3, <1>5, <2>3
  <2> QED BY <1>1, <1>6, <2>3, <2>4
<1>8. CASE Cur.type # "none"
  <2>1. b[i] \in TypeBytes /\ Cur.type = TypeOf(b[i])
    BY <1>1, <1>2, <1>8, TypeRead
  <2>2. Cur.type \in {"error", "status", "integer", "string", "array"}
    BY <2>1, TypeFacts
  <2>3. /\ Cur.type # "string" => Newlines = {}
        /\ Cur.type = "string" => (Newlines # {} => BulkEnd > Len(buf))
        /\ Cur.type = "array" => ~TooDeep
    <3>1. CASE Cur.type \in LineTypes
      BY <3>1 DEF Incomplete, LineTypes
    <3>2. CASE Cur.type = "string"
      BY <3>2 DEF Incomplete, LineTypes
    <3>3. CASE Cur.type = "array"
      BY <3>3 DEF Incomplete, LineTypes
    <3> QED BY <2>2, <3>1, <3>2, <3>3 DEF LineTypes
  <2>4. ASSUME k < m PROVE ~(ItemEnd(b, i) <= fed)
    <3>1. CASE Newlines = {}
      <4>1. fed <= Min(LineEnds(b, i))
        BY <1>1, <1>2, <1>5, <1>8, <2>4, <3>1, LineRead
      <4> QED BY <1>3, <1>5, <2>4, <4>1
    <3>2. CASE Newlines # {}
      <4>1. Cur.type = "string" /\ BulkEnd > Len(buf)
        BY <2>3, <3>2
      <4>2. ItemEnd(b, i) = o + BulkEnd
        BY <1>1, <1>2, <1>8, <3>2, <4>1, EndRead
      <4>3. BulkEnd \in Int
        <5>1. Number \in Int /\ LineEnd \in Nat
          BY <1>1, <1>8, <3>2, LineRead
        <5> QED BY <5>1 DEF BulkEnd
      <4> QED BY <1>3, <4>1, <4>2, <4>3
    <3> QED BY <3>1, <3>2
  <2>5. ASSUME ~(k < m) PROVE ~Broken(stream)
    <3>1. k = Len(stream.items)
      BY <1>2, <1>3, <1>4, <2>5
    <3>2. SUFFICES ASSUME Broken(stream) PROVE FALSE
      OBVIOUS
    <3>3. b[i] = 42 /\ Len(stream.items[k].path) = MaxTasks
      BY <1>2, <2>1, <3>1, <3>2 DEF Broken, Item
    <3>4. Cur.type = "array" /\ Len(tasks) = MaxTasks
      BY <1>1, <2>1, <3>3, TypeFacts DEF At, Stacked
    <3> QED BY <2>3, <3>4 DEF TooDeep
  <2> QED BY <1>1, <1>6, <2>4, <2>5
<1> QED BY <1>7, <1>8

LEMMA GetReplyEndsStep ==
    ASSUME ReaderInv, GetReplyEnds
    PROVE  ReaderInv'
<1>1. /\ busy /\ busy' = FALSE /\ UNCHANGED <<stream, fed, tasks, err>>
      /\ err \/ tasks = <<>> \/ Incomplete
      /\ drained' = (~err /\ tasks # <<>>)
  BY DEF GetReplyEnds, ReaderInv
<1>2. stream \in Streams /\ Buffers(stream, fed, buf) /\ pos \in 0 .. Len(buf) /\ Returned(stream, out)
      /\ {err, busy, drained} \subseteq BOOLEAN
  BY DEF ReaderInv
<1>3. CASE err
  <2>1. Failed
    BY <1>3 DEF ReaderInv
  <2>2. UNCHANGED <<buf, pos, out, reply>> /\ ~drained' /\ drained' \in BOOLEAN /\ busy' \in BOOLEAN
    BY <1>1, <1>3 DEF GetReplyEnds
  <2>3. Failed'
    BY <1>1, <2>1, <2>2 DEF Failed
  <2> QED BY <1>1, <1>2, <1>3, <2>2, <2>3 DEF ReaderInv
<1>4. CASE ~err
  <2>1. PICK k \in 1 .. Len(stream.items) : At(k)
    BY <1>4 DEF ReaderInv
  <2>2. PICK n : n = fed - Len(buf) + pos
    OBVIOUS
  <2>3. /\ Buffers(stream, fed, buf)' /\ (pos \in 0 .. Len(buf))'
        /\ fed - Len(buf') + pos' = n
    <3>1. CASE pos >= DiscardAt
      <4>1. buf' = SubSeq(buf, pos + 1, Len(buf)) /\ pos' = 0
        BY <1>4, <3>1 DEF GetReplyEnds
      <4>2. buf \in Seq(0 .. 255) /\ fed \in 0 .. Len(stream.bytes) /\ Len(buf) <= fed
            /\ \A i \in 1 .. Len(buf) : buf[i] = stream.bytes[fed - Len(buf) + i]
        BY <1>2 DEF Buffers
      <4>3. PICK c, l, f, p : c = buf' /\ l = Len(buf) /\ f = fed /\ p = pos
        OBVIOUS
      <4>4. l \in Nat /\ p \in 0 .. l /\ f \in Nat /\ l <= f
        <5>1. Len(stream.bytes) \in Nat /\ Len(buf) \in Nat
          BY <1>2, <4>2, StreamTypes
        <5> QED BY <1>2, <4>2, <4>3, <5>1
      <4>5. c \in Seq(0 .. 255) /\ Len(c) = l - p /\ \A i \in 1 .. l - p : c[i] = buf[p + i]
        BY ZenonT(60), <1>2, <4>1, <4>2, <4>3, CutFacts
      <4>6. ASSUME NEW i \in 1 .. l - p PROVE c[i] = stream.bytes[f - (l - p) + i]
        <5>1. p + i \in 1 .. l /\ f - l + (p + i) = f - (l - p) + i
          BY <4>4
        <5> QED BY <4>2, <4>3, <4>5, <5>1
      <4>7. l - p <= f /\ f - (l - p) + 0 = f - l + p /\ 0 \in 0 .. l - p
        BY <4>4
      <4>8. Buffers(stream, f, c)
        BY <4>2, <4>3, <4>5, <4>6, <4>7 DEF Buffers
      <4>9. Buffers(stream, fed, buf)'
        BY <1>1, <4>3, <4>8
      <4> QED BY <1>1, <2>2, <4>1, <4>3, <4>5, <4>7, <4>9
    <3>2. CASE ~(pos >= DiscardAt)
      <4>1. UNCHANGED <<buf, pos>>
        BY <3>2 DEF GetReplyEnds
      <4> QED BY <1>1, <1>2, <2>2, <4>1
    <3> QED BY <3>1, <3>2
  <2>4. /\ k \in 1 .. Len(stream.items)
        /\ BeforeType(stream, k, n, tasks) \/ BehindType(stream, k, n, tasks)
        /\ tasks = <<>> => Len(stream.items[k].path) = 1
        /\ tasks # <<>> => Stacked(stream, k, tasks)
        /\ stream.items[k].path[1] = Len(out) + IF busy /\ tasks = <<>> THEN 1 ELSE 0
        /\ reply = PartsOf(stream, k, Len(out))
    BY <2>1, <2>2 DEF At
  <2>5. PICK r \in Nat : r = Len(out)
    <3>1. out \in Seq(SUBSET Part)
      BY <1>2 DEF Returned
    <3> QED BY <3>1
  <2>6. CASE tasks = <<>>
    <3>1. stream.items[k].path[1] = r + 1 /\ Len(stream.items[k].path) = 1
      BY <1>1, <2>4, <2>5, <2>6
    <3>2. /\ r + 1 \in 1 .. Len(stream.replies)
          /\ reply = stream.replies[r + 1]
          /\ PartsOf(stream, k, r + 1) = {}
      BY <1>2, <2>4, <2>5, <3>1, PartsDone
    <3>3. out' = Append(out, reply) /\ reply' = {} /\ ~drained' /\ drained' \in BOOLEAN
      BY <1>1, <1>4, <2>6 DEF GetReplyEnds
    <3>4. /\ out' \in Seq(SUBSET Part) /\ Len(out') = r + 1
          /\ \A i \in 1 .. r : out'[i] = out[i]
          /\ out'[r + 1] = reply
      <4>1. out \in Seq(SUBSET Part) /\ reply \in SUBSET Part
        <5>1. stream.replies \in Seq(SUBSET Part)
          BY <1>2, StreamTypes
        <5> QED BY <1>2, <3>2, <5>1, ElementType DEF Returned
      <4>2. PICK x : x = reply
        OBVIOUS
      <4>3. /\ Append(out, x) \in Seq(SUBSET Part) /\ Len(Append(out, x)) = Len(out) + 1
            /\ \A i \in 1 .. Len(out) : Append(out, x)[i] = out[i]
            /\ Append(out, x)[Len(out) + 1] = x
        BY <4>1, <4>2, AppendType, AppendFacts
      <4> QED BY <2>5, <3>3, <4>2, <4>3
    <3>5. PICK o : o = out'
      OBVIOUS
    <3>6. Returned(stream, o)
      <4>1. ASSUME NEW i \in 1 .. r + 1 PROVE o[i] = stream.replies[i]
        <5>1. i \in 1 .. r \/ i = r + 1
          BY <2>5
        <5>2. CASE i \in 1 .. r
          BY <1>2, <2>5, <3>4, <3>5, <5>2 DEF Returned
        <5>3. CASE i = r + 1
          BY <3>2, <3>4, <3>5, <5>3
        <5> QED BY <5>1, <5>2, <5>3
      <4>2. r + 1 <= Len(stream.replies)
        BY <3>2
      <4> QED BY <3>4, <3>5, <4>1, <4>2 DEF Returned
    <3>7. Returned(stream, out)'
      BY <1>1, <3>5, <3>6
    <3>8. At(k)'
      <4>1. stream.items[k].path[1] = Len(out') + 0
        BY <2>5, <3>1, <3>4
      <4>2. reply' = PartsOf(stream, k, Len(out'))
        BY <3>2, <3>3, <3>4
      <4> QED BY <1>1, <2>3, <2>4, <2>6, <3>3, <4>1, <4>2 DEF At
    <3>9. k \in 1 .. Len(stream'.items) /\ ~err'
      BY <1>1, <1>4, <2>1
    <3>10. (stream \in Streams)' /\ ({err, busy, drained} \subseteq BOOLEAN)'
      BY <1>1, <1>2, <3>3
    <3> QED BY <2>3, <3>7, <3>8, <3>9, <3>10 DEF ReaderInv
  <2>7. CASE tasks # <<>>
    <3>1. Incomplete
      BY <1>1, <1>4, <2>7
    <3>2. ~Readable(stream, k, fed)
      BY <2>1, <3>1, NotReadable
    <3>3. UNCHANGED <<out, reply>> /\ drained' \in BOOLEAN
      BY <1>1, <2>7 DEF GetReplyEnds
    <3>4. At(k)'
      BY <1>1, <2>3, <2>4, <2>7, <3>2, <3>3 DEF At
    <3>5. Returned(stream, out)'
      BY <1>1, <1>2, <3>3
    <3>6. k \in 1 .. Len(stream'.items) /\ ~err'
      BY <1>1, <1>4, <2>1
    <3>7. (stream \in Streams)' /\ ({err, busy, drained} \subseteq BOOLEAN)'
      BY <1>1, <1>2, <3>3
    <3> QED BY <2>3, <3>4, <3>5, <3>6, <3>7 DEF ReaderInv
  <2> QED BY <2>6, <2>7
<1> QED BY <1>3, <1>4

LEMMA FeedStep ==
    ASSUME ReaderInv, NEW n \in 1 .. Len(stream.bytes), Feed(n)
    PROVE  ReaderInv'
<1>1. /\ ~busy /\ ~err /\ fed + n <= Len(stream.bytes)
      /\ buf' = buf \o SubSeq(stream.bytes, fed + 1, fed + n)
      /\ fed' = fed + n /\ drained' = FALSE
      /\ UNCHANGED <<stream, pos, tasks, reply, err, busy, out>>
  BY DEF Feed
<1>2. /\ stream \in Streams /\ pos \in 0 .. Len(buf) /\ Returned(stream, out)
      /\ {err, busy, drained} \subseteq BOOLEAN
      /\ fed \in 0 .. Len(stream.bytes) /\ buf \in Seq(0 .. 255) /\ Len(buf) <= fed
      /\ \A i \in 1 .. Len(buf) : buf[i] = stream.bytes[fed - Len(buf) + i]
  BY DEF ReaderInv, Buffers
<1>3. PICK b, l, f : b = stream.bytes /\ l = Len(buf) /\ f = fed
  OBVIOUS
<1>4. b \in Seq(0 .. 255) /\ Len(b) \in Nat /\ l \in Nat /\ f \in Nat /\ n \in Nat /\ f + n <= Len(b) /\ l <= f
  <2>1. stream.bytes \in Seq(0 .. 255) /\ Len(stream.bytes) \in Nat /\ Len(buf) \in Nat
    BY <1>2, StreamTypes
  <2> QED BY <1>1, <1>2, <1>3, <2>1
<1>5. PICK g : g = SubSeq(b, f + 1, f + n)
  OBVIOUS
<1>6. g \in Seq(0 .. 255) /\ Len(g) = n /\ \A i \in 1 .. n : g[i] = b[f + i]
  <2>1. f + n \in 0 .. Len(b) /\ f + 1 \in Nat \ {0}
    BY <1>4
  <2>2. g \in Seq(0 .. 255)
    BY <1>4, <1>5, <2>1, SubSeqType
  <2> QED BY <1>4, <1>5, <2>2
<1>7. PICK c : c = buf \o g
  OBVIOUS
<1>8. /\ c \in Seq(0 .. 255) /\ Len(c) = l + n
      /\ \A i \in 1 .. l : c[i] = buf[i]
      /\ \A i \in 1 .. n : c[l + i] = g[i]
  <2>1. buf \in Seq(0 .. 255) /\ g \in Seq(0 .. 255)
    BY <1>2, <1>6
  <2>2. /\ buf \o g \in Seq(0 .. 255) /\ Len(buf \o g) = Len(buf) + Len(g)
        /\ \A i \in 1 .. Len(buf) : (buf \o g)[i] = buf[i]
        /\ \A i \in 1 .. Len(g) : (buf \o g)[Len(buf) + i] = g[i]
    BY ONLY <2>1, ConcatFacts
  <2> QED BY <1>3, <1>6, <1>7, <2>2
<1>9. ASSUME NEW i \in 1 .. l + n PROVE c[i] = b[(f + n) - (l + n) + i]
  <2>1. CASE i \in 1 .. l
    <3>1. (f + n) - (l + n) + i = f - l + i
      BY <1>4
    <3> QED BY <1>2, <1>3, <1>8, <2>1, <3>1
  <2>2. CASE i \in l + 1 .. l + n
    <3>1. i - l \in 1 .. n /\ l + (i - l) = i /\ (f + n) - (l + n) + i = f + (i - l)
      BY <1>4, <2>2
    <3>2. c[l + (i - l)] = g[i - l] /\ g[i - l] = b[f + (i - l)]
      BY <1>6, <1>8, <3>1
    <3> QED BY <3>1, <3>2
  <2> QED BY <1>4, <2>1, <2>2
<1>10. Buffers(stream, f + n, c)
  <2>1. f + n \in 0 .. Len(b) /\ l + n <= f + n
    BY <1>4
  <2> QED BY <1>3, <1>8, <1>9, <2>1 DEF Buffers
<1>11. buf' = c /\ fed' = f + n
  BY <1>1, <1>3, <1>5, <1>7
<1>12. Buffers(stream, fed, buf)' /\ (pos \in 0 .. Len(buf))'
  <2>1. pos \in 0 .. l + n
    BY <1>2, <1>3, <1>4
  <2> QED BY <1>1, <1>8, <1>10, <1>11, <2>1
<1>13. fed' - Len(buf') + pos' = fed - Len(buf) + pos
  <2>1. pos \in Nat /\ (f + n) - (l + n) + pos = f - l + pos
    BY <1>2, <1>3, <1>4
  <2> QED BY <1>1, <1>3, <1>8, <1>11, <2>1
<1>14. PICK k \in 1 .. Len(stream.items) : At(k)
  BY <1>1 DEF ReaderInv
<1>15. At(k)'
  BY <1>1, <1>13, <1>14 DEF At
<1>16. k \in 1 .. Len(stream'.items) /\ ~err' /\ drained' \in BOOLEAN
  BY <1>1, <1>14
<1> QED BY <1>1, <1>2, <1>12, <1>15, <1>16 DEF ReaderInv

LEMMA GetReplyStep ==
    ASSUME ReaderInv, GetReply
    PROVE  ReaderInv'
<1>1. /\ ~busy /\ ~err /\ busy' = TRUE
      /\ tasks' = IF tasks = <<>> THEN <<Task(-1)>> ELSE tasks
      /\ UNCHANGED <<stream, fed, buf, pos, reply, err, out, drained>>
  BY DEF GetReply
<1>2. PICK k \in 1 .. Len(stream.items) : At(k)
  BY <1>1 DEF ReaderInv
<1>3. CASE tasks = <<>>
  <2>1. PICK x : x = Task(-1)
    OBVIOUS
  <2>2. x \in TaskType /\ x.type = "none"
    BY <2>1 DEF Task, TaskType
  <2>3. PICK u : u = <<x>>
    OBVIOUS
  <2>4. u \in Seq(TaskType) /\ Len(u) = 1 /\ u[1] = x /\ u # <<>>
    BY <2>2, <2>3
  <2>5. tasks' = u
    BY <1>1, <1>3, <2>1, <2>3
  <2>6. Stacked(stream, k, u)
    <3>1. Len(stream.items[k].path) = 1
      BY <1>2, <1>3 DEF At
    <3>2. (\A i \in 2 .. 1 : FALSE) /\ (\A i \in 1 .. 1 - 1 : FALSE)
      OBVIOUS
    <3> QED BY <2>4, <3>1, <3>2 DEF Stacked
  <2>7. ~BehindType(stream, k, fed - Len(buf) + pos, tasks)
    BY <1>3 DEF BehindType
  <2>8. BeforeType(stream, k, fed - Len(buf) + pos, u)
    BY <1>2, <2>2, <2>4, <2>7 DEF At, BeforeType
  <2>9. ~drained
    BY <1>2, <1>3 DEF At
  <2>10. stream.items[k].path[1] = Len(out) + 0 /\ reply = PartsOf(stream, k, Len(out))
    BY <1>1, <1>2 DEF At
  <2>11. At(k)'
    BY <1>1, <1>2, <2>4, <2>5, <2>6, <2>8, <2>9, <2>10 DEF At
  <2> QED BY <1>1, <1>2, <2>11 DEF ReaderInv
<1>4. CASE tasks # <<>>
  <2>1. tasks' = tasks
    BY <1>1, <1>4
  <2>2. At(k)'
    BY <1>1, <1>2, <1>4, <2>1 DEF At
  <2> QED BY <1>1, <1>2, <2>2 DEF ReaderInv
<1> QED BY <1>3, <1>4

LEMMA ReaderStarts ==
    ASSUME Init
    PROVE  ReaderInv
<1>1. /\ stream \in Streams /\ fed = 0 /\ buf = <<>> /\ pos = 0 /\ tasks = <<>> /\ reply = {}
      /\ err = FALSE /\ busy = FALSE /\ out = <<>> /\ drained = FALSE
  BY DEF Init
<1>2. Len(<<>>) = 0 /\ (\A i \in 1 .. 0 : FALSE) /\ <<>> \in Seq(0 .. 255) /\ <<>> \in Seq(SUBSET Part)
  OBVIOUS
<1>3. Len(stream.bytes) \in Nat /\ Len(stream.replies) \in Nat /\ Len(stream.items) \in Nat \ {0}
  BY <1>1, StreamTypes
<1>4. Buffers(stream, fed, buf) /\ Returned(stream, out)
  BY <1>1, <1>2, <1>3 DEF Buffers, Returned
<1>5. 1 \in 1 .. Len(stream.items) /\ stream.items[1] = [at |-> 1, path |-> <<0>>]
  BY <1>1, <1>3, StreamsAssumption DEF ItemsFollow
<1>6. stream.items[1].at = 1 /\ stream.items[1].path = <<0>>
  BY <1>5
<1>7. Len(<<0>>) = 1 /\ <<0>>[1] = 0 /\ 0 - 0 + 0 = 1 - 1
  OBVIOUS
<1>8. BeforeType(stream, 1, fed - Len(buf) + pos, tasks)
  BY <1>1, <1>2, <1>6, <1>7 DEF BeforeType
<1>9. reply = PartsOf(stream, 1, Len(out))
  <2>1. \A j \in 1 .. 1 - 1 : FALSE
    OBVIOUS
  <2> QED BY <1>1, <2>1 DEF PartsOf
<1>10. At(1)
  BY <1>1, <1>2, <1>5, <1>6, <1>7, <1>8, <1>9 DEF At
<1>11. {err, busy, drained} \subseteq BOOLEAN /\ pos \in 0 .. Len(buf) /\ ~err
  <2>1. pos \in 0 .. Len(buf)
    BY <1>1, <1>2
  <2>2. {err, busy, drained} \subseteq BOOLEAN /\ ~err
    BY <1>1
  <2> QED BY <2>1, <2>2
<1> QED BY <1>1, <1>4, <1>5, <1>10, <1>11 DEF ReaderInv

LEMMA ReaderSteps ==
    ASSUME ReaderInv, [Next]_vars
    PROVE  ReaderInv'
<1>1. CASE UNCHANGED vars
  BY <1>1 DEF ReaderInv, At, Failed, vars, readerVars
<1>2. ASSUME NEW n \in 1 .. Len(stream.bytes), Feed(n) PROVE ReaderInv'
  BY <1>2, FeedStep
<1>3. CASE Loop
  BY <1>3, ReadTypeStep, LineItemStep, BulkItemStep, MultiBulkItemStep, GetReplyEndsStep DEF Loop
<1> QED BY <1>1, <1>2, <1>3, GetReplyStep DEF Next

LEMMA ReaderHolds == Spec => []ReaderInv
<1>1. Init => ReaderInv
  BY ReaderStarts
<1>2. ReaderInv /\ [Next]_vars => ReaderInv'
  BY ReaderSteps
<1> QED BY <1>1, <1>2, PTL DEF Spec

-----------------------------------------------------------------------------
(* The properties. *)

\* The stack is as deep as r->rstack allows: what is around an item is an array.
LEMMA StackFits ==
    ASSUME ReaderInv, tasks # <<>>
    PROVE  /\ tasks \in Seq(TaskType) /\ Len(tasks) <= MaxTasks
           /\ \A i \in 2 .. Len(tasks) :
                 tasks[i - 1].type = "array" /\ tasks[i].idx \in 0 .. tasks[i - 1].elements - 1
<1>1. PICK k \in 1 .. Len(stream.items) : At(k)
  BY Reading
<1>2. stream \in Streams /\ Stacked(stream, k, tasks)
  BY <1>1 DEF At, ReaderInv
<1>3. PICK t, n : t = tasks /\ n = Len(tasks)
  OBVIOUS
<1>4. t \in Seq(TaskType) /\ n \in Nat /\ n = Len(t) /\ Len(stream.items) \in Nat
      /\ n = Len(stream.items[k].path)
  <2>1. t \in Seq(TaskType) /\ Len(t) = Len(stream.items[k].path)
    BY <1>2, <1>3 DEF Stacked
  <2> QED BY <1>2, <1>3, <2>1, StreamTypes
<1>5. ASSUME NEW i \in 2 .. n
      PROVE  t[i - 1].type = "array" /\ t[i].idx \in 0 .. t[i - 1].elements - 1
  <2>1. i - 1 \in 1 .. n - 1
    BY <1>4
  <2>2. t[i].idx \in Nat /\ t[i - 1].elements \in Nat /\ t[i].idx < t[i - 1].elements
    BY <1>2, <1>3, StackedLast
  <2>3. t[i - 1].type = "array"
    BY <1>2, <1>3, <2>1 DEF Stacked
  <2> QED BY <2>2, <2>3
<1>6. n <= MaxTasks
  <2>1. CASE n <= 1
    BY <1>4, <2>1, ReaderAssumption
  <2>2. CASE n > 1
    <3>1. n - 1 \in 1 .. n - 1 /\ n \in 2 .. n
      BY <1>4, <2>2
    <3>2. PICK j \in 1 .. Len(stream.items) - 1 :
             /\ stream.items[j].path = SubSeq(stream.items[k].path, 1, n - 1)
             /\ t[n - 1].elements = Arity(stream.bytes, stream.items[j].at)
      BY <1>2, <1>3, <3>1 DEF Stacked
    <3>3. t[n].idx \in Nat /\ t[n].idx < t[n - 1].elements /\ t[n - 1].elements \in Nat
      BY <1>2, <1>3, <3>1, StackedLast
    <3>4. stream.bytes[stream.items[j].at] = 42
      BY <3>2, <3>3 DEF Arity
    <3>5. Len(stream.items[j].path) < MaxTasks
      BY <1>2, <3>4, ItemsAreWhole
    <3>6. Len(stream.items[j].path) = n - 1
      <4>1. stream.items[k].path \in Seq(Nat)
        BY <1>2, StreamTypes
      <4>2. PICK c \in 0 .. Len(stream.items[k].path) : c = n - 1
        <5>1. n - 1 \in 0 .. n
          BY <1>4, <2>2
        <5> QED BY <1>4, <5>1
      <4>3. Len(SubSeq(stream.items[k].path, 1, c)) = c
        BY <4>1, CutFacts
      <4> QED BY <3>2, <4>2, <4>3
    <3> QED BY <1>4, <3>5, <3>6, ReaderAssumption
  <2> QED BY <1>4, <2>1, <2>2
<1> QED BY <1>3, <1>4, <1>5, <1>6

LEMMA InvReplies ==
    ASSUME ReaderInv
    PROVE  RepliesOfStream
<1>1. stream \in Streams /\ Buffers(stream, fed, buf) /\ pos \in 0 .. Len(buf) /\ Returned(stream, out)
  BY DEF ReaderInv
<1>2. err \in BOOLEAN /\ busy \in BOOLEAN /\ drained \in BOOLEAN
  BY DEF ReaderInv
<1>3. fed \in 0 .. Len(stream.bytes) /\ buf \in Seq(0 .. 255)
  BY <1>1 DEF Buffers
<1>4. /\ tasks \in Seq(TaskType) /\ Len(tasks) <= MaxTasks
      /\ \A i \in 2 .. Len(tasks) :
            tasks[i - 1].type = "array" /\ tasks[i].idx \in 0 .. tasks[i - 1].elements - 1
  <2>1. CASE tasks # <<>>
    BY <2>1, StackFits
  <2>2. CASE tasks = <<>>
    <3>1. <<>> \in Seq(TaskType) /\ Len(<<>>) = 0 /\ 0 <= MaxTasks /\ \A i \in 2 .. 0 : FALSE
      BY ReaderAssumption
    <3> QED BY <2>2, <3>1
  <2> QED BY <2>1, <2>2
<1>5. TypeOK
  BY <1>1, <1>2, <1>3, <1>4 DEF TypeOK
<1>6. Len(out) <= Len(stream.replies) /\ \A i \in DOMAIN out : out[i] = stream.replies[i]
  <2>1. out \in Seq(SUBSET Part) /\ \A i \in 1 .. Len(out) : out[i] = stream.replies[i]
    BY <1>1 DEF Returned
  <2>2. DOMAIN out = 1 .. Len(out)
    BY <2>1
  <2> QED BY <1>1, <2>1, <2>2 DEF Returned
<1> QED BY <1>4, <1>5, <1>6 DEF RepliesOfStream

LEMMA InvError ==
    ASSUME ReaderInv
    PROVE  ErrorOfStream
<1>1. SUFFICES ASSUME err PROVE stream.bad \in 1 .. fed /\ out = stream.replies
  BY DEF ErrorOfStream
<1>2. Failed /\ Returned(stream, out) /\ stream \in Streams
  BY <1>1 DEF ReaderInv
<1>3. /\ out \in Seq(SUBSET Part) /\ stream.replies \in Seq(SUBSET Part)
      /\ Len(out) = Len(stream.replies)
      /\ \A i \in 1 .. Len(out) : out[i] = stream.replies[i]
  BY <1>2, StreamTypes DEF Failed, Returned
<1>4. out = stream.replies
  BY <1>3, SameSeq
<1> QED BY <1>2, <1>4 DEF Failed

LEMMA InvDrained ==
    ASSUME ReaderInv
    PROVE  NoneHeldBack
<1>1. SUFFICES ASSUME drained
               PROVE  /\ Len(out) = Cardinality({i \in DOMAIN stream.ends : stream.ends[i] <= fed})
                      /\ stream.bad = 0 \/ fed < stream.bad
  BY DEF NoneHeldBack
<1>2. ~err
  BY <1>1 DEF ReaderInv, Failed
<1>3. PICK k \in 1 .. Len(stream.items) : At(k)
  BY <1>2 DEF ReaderInv
<1>4. tasks # <<>> /\ ~Readable(stream, k, fed)
  BY <1>1, <1>3 DEF At
<1>5. PICK m, i, b : m = Len(stream.items) /\ i = Item(k) /\ b = stream.bytes
  OBVIOUS
<1>6. /\ stream \in Streams /\ i \in Nat \ {0} /\ fed \in Nat
      /\ Len(buf) \in Nat /\ pos \in Nat /\ pos <= Len(buf) /\ fed - Len(buf) \in Nat
  BY <1>3, <1>5, Where
<1>7. m \in Nat \ {0} /\ k \in 1 .. m /\ m \in 1 .. m
  <2>1. m \in Nat \ {0}
    BY <1>5, <1>6, StreamTypes
  <2> QED BY <1>3, <1>5, <2>1
<1>8. i - 1 <= fed
  <2>1. fed - Len(buf) + pos = i - 1 \/ fed - Len(buf) + pos = i
    BY <1>3, <1>5 DEF At, BeforeType, BehindType, Item
  <2> QED BY <1>6, <2>1
<1>9. PICK n \in Nat : n = Len(out) /\ stream.items[k].path[1] = n
  <2>1. out \in Seq(SUBSET Part)
    BY DEF ReaderInv, Returned
  <2>2. Len(out) \in Nat
    BY <2>1
  <2>3. stream.items[k].path[1] = Len(out) + 0
    BY <1>3, <1>4 DEF At
  <2> QED BY <2>2, <2>3
<1>10. RepliesNamed(stream)
  BY <1>6, StreamsAssumption
<1>11. PICK e \in Nat : e = Len(stream.ends) /\ e = Len(stream.replies) /\ DOMAIN stream.ends = 1 .. e
       /\ n <= e
  <2>1. stream.ends \in Seq(Nat) /\ Len(stream.ends) = Len(stream.replies)
    BY <1>6, StreamTypes
  <2>2. Len(stream.ends) \in Nat /\ DOMAIN stream.ends = 1 .. Len(stream.ends)
    BY <2>1
  <2>3. Len(out) <= Len(stream.replies)
    BY DEF ReaderInv, Returned
  <2> QED BY <1>9, <2>1, <2>2, <2>3
\* A later item begins behind what was fed.
<1>12. ASSUME NEW j \in 1 .. m, k < j PROVE fed < stream.items[j].at - 1
  <2>1. k < m /\ k \in 1 .. m - 1
    BY <1>7, <1>12
  <2>2. PICK x \in Nat : x = ItemEnd(b, i)
    BY <1>5, <1>6, <2>1, ItemsAreWhole DEF Item
  <2>3. ~(x <= fed)
    BY <1>4, <1>5, <2>1, <2>2 DEF Readable, Item
  <2>4. x <= stream.items[j].at - 1 /\ stream.items[j].at \in Nat
    <3>1. x < stream.items[j].at /\ stream.items[j].at \in Nat
      BY <1>5, <1>6, <1>7, <1>12, <2>2, ItemsInOrder, ItemsAreWhole DEF Item
    <3> QED BY <2>2, <3>1
  <2> QED BY SMTT(30), <1>6, <2>2, <2>3, <2>4
<1>13. ASSUME NEW j \in 1 .. m, j <= k PROVE stream.items[j].at - 1 <= fed
  <2>1. CASE j = k
    BY <1>5, <1>8, <2>1 DEF Item
  <2>2. CASE j < k
    <3>1. stream.items[j].at < i /\ stream.items[j].at \in Nat
      BY <1>5, <1>6, <1>7, <2>2, ItemsInOrder, ItemsAreWhole DEF Item
    <3> QED BY <1>6, <1>8, <3>1
  <2> QED BY <1>7, <1>13, <2>1, <2>2
<1>14. ASSUME NEW r \in 1 .. e PROVE stream.ends[r] <= fed <=> r <= n
  <2>1. PICK j \in 2 .. m : stream.items[j].path = <<r>> /\ stream.ends[r] = stream.items[j].at - 1
    BY <1>5, <1>10, <1>11 DEF RepliesNamed
  <2>2. j \in 1 .. m /\ r \in Nat
    BY <1>7, <1>11
  <2>3. stream.items[j].path[1] = r /\ Len(stream.items[j].path) = 1
    BY <2>1
  <2>4. CASE j <= k
    <3>1. stream.ends[r] <= fed
      BY <1>13, <2>1, <2>2, <2>4
    <3>2. r <= n
      <4>1. CASE j = k
        BY <1>9, <2>2, <2>3, <4>1
      <4>2. CASE j < k
        BY <1>5, <1>6, <1>7, <1>9, <2>2, <2>3, <4>2, RootsInOrder
      <4> QED BY <1>7, <2>2, <2>4, <4>1, <4>2
    <3> QED BY <3>1, <3>2
  <2>5. CASE ~(j <= k)
    <3>1. k < j
      BY <1>7, <2>2, <2>5
    <3>2. n < r
      BY <1>5, <1>6, <1>7, <1>9, <2>2, <2>3, <3>1, RootsInOrder
    <3>3. fed < stream.ends[r]
      BY <1>12, <2>1, <2>2, <3>1
    <3>4. stream.ends[r] \in Int
      <4>1. stream.items[j].at \in Nat
        BY <1>5, <1>6, <2>2, ItemsAreWhole
      <4> QED BY <2>1, <4>1
    <3> QED BY <1>6, <2>2, <3>2, <3>3, <3>4
  <2> QED BY <2>4, <2>5
<1>15. {x \in DOMAIN stream.ends : stream.ends[x] <= fed} = 1 .. n
  <2>1. \A x : x \in 1 .. n <=> x \in 1 .. e /\ x <= n
    BY <1>9, <1>11
  <2> QED BY <1>11, <1>14, <2>1
<1>16. Cardinality(1 .. n) = n
  <2>1. Cardinality(1 .. n) = IF 1 > n THEN 0 ELSE n - 1 + 1
    BY FS_Interval
  <2> QED BY <2>1
<1>17. stream.bad = 0 \/ fed < stream.bad
  <2>1. stream.bad = IF Broken(stream) THEN stream.items[m].at ELSE 0
    BY <1>5, <1>10 DEF RepliesNamed
  <2>2. CASE Broken(stream) /\ k = m
    <3>1. ~(i <= fed)
      BY <1>4, <1>5, <1>7, <2>2 DEF Readable, Item
    <3>2. stream.bad = i
      BY <1>5, <2>1, <2>2 DEF Item
    <3> QED BY <1>6, <3>1, <3>2
  <2>3. CASE Broken(stream) /\ k # m
    <3>1. k < m
      BY <1>7, <2>3
    <3>2. fed < stream.items[m].at - 1 /\ stream.items[m].at \in Nat
      BY <1>5, <1>6, <1>7, <1>12, <3>1, ItemsAreWhole
    <3> QED BY <1>6, <2>1, <2>3, <3>2
  <2> QED BY <2>1, <2>2, <2>3
<1> QED BY <1>9, <1>15, <1>16, <1>17

\* redisReaderFeed and redisReaderGetReply: for every stream, however it is cut
\* and whenever replies are asked for, those returned are the stream's, whole
\* and in order; the position stays in r->buf and the tasks in r->rstack, also
\* across the discarding of what was read.
THEOREM CutsDoNotMatter == Spec => []RepliesOfStream
<1>1. ReaderInv => RepliesOfStream
  BY InvReplies
<1> QED BY <1>1, ReaderHolds, PTL

\* redisReaderGetReply gives no reply only if none is there: processItem waits
\* for bytes only when the item that it is at is really incomplete.
THEOREM NothingHeldBack == Spec => []NoneHeldBack
<1>1. ReaderInv => NoneHeldBack
  BY InvDrained
<1> QED BY <1>1, ReaderHolds, PTL

\* __redisReaderSetError: an error is reported only for a byte of the stream
\* that breaks the protocol, and behind every reply before it.
THEOREM ErrorsAreOfStream == Spec => []ErrorOfStream
<1>1. ReaderInv => ErrorOfStream
  BY InvError
<1> QED BY <1>1, ReaderHolds, PTL

=============================================================================
