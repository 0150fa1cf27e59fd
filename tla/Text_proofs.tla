---------------------------- MODULE Text_proofs ----------------------------
(***************************************************************************)
(* What the proofs about texts rest on: induction over numbers and over    *)
(* sequences, in the form of a set that is closed, and what the folds of   *)
(* the community modules compute, for every sequence.                      *)
(***************************************************************************)
EXTENDS Text, SequenceTheorems, WellFoundedInduction, TLAPS
-----------------------------------------------------------------------------
(***************************************************************************)
(* Induction.                                                              *)
(***************************************************************************)
\* A nonempty set of numbers has a least element.
LEMMA Least ==
  ASSUME NEW T, T \subseteq Nat, T # {}
  PROVE  \E m \in T : \A k \in T : m <= k
<1>1. PICK m \in T : \A k \in T : <<k, m>> \notin OpToRel(<, Nat)
  BY NatLessThanWellFounded, WFMin
<1>2. \A k \in T : ~(k < m)
  BY <1>1, Zenon DEF OpToRel
<1> QED
  BY <1>2

\* A set that has 0, and the successor of each number it has, has all numbers.
LEMMA Induction ==
  ASSUME NEW T, 0 \in T, \A n \in Nat : n \in T => n + 1 \in T
  PROVE  Nat \subseteq T
<1>1. SUFFICES ASSUME Nat \ T # {} PROVE FALSE
  OBVIOUS
<1>2. PICK m \in Nat \ T : \A k \in Nat \ T : m <= k
  BY <1>1, Least
<1>3. m # 0 /\ m - 1 \in Nat /\ m - 1 \in T
  BY <1>2
<1> QED
  BY <1>3

\* A set that has the empty sequence, and of each sequence it has the longer
\* ones by one element, has all sequences.
LEMMA SequenceInduction ==
  ASSUME NEW S, NEW T, <<>> \in T,
         \A s \in Seq(S), b \in S : s \in T => Append(s, b) \in T
  PROVE  Seq(S) \subseteq T
<1> DEFINE Upto(n) == \A s \in Seq(S) : Len(s) = n => s \in T
           N == {n \in Nat : Upto(n)}
<1>1. Upto(0)
  BY EmptySeq
<1>2. ASSUME NEW n \in Nat, Upto(n) PROVE Upto(n + 1)
  <2>1. SUFFICES ASSUME NEW s \in Seq(S), Len(s) = n + 1 PROVE s \in T
    OBVIOUS
  <2>2. PICK t \in Seq(S), b \in S : s = Append(t, b)
    BY <2>1, SequenceEmptyOrAppend
  <2>3. Len(t) = n
    BY <2>1, <2>2, AppendProperties, LenProperties
  <2> QED
    BY <1>2, <2>2, <2>3
<1>3. Nat \subseteq N
  <2> HIDE DEF Upto
  <2>1. 0 \in N /\ \A n \in Nat : n \in N => n + 1 \in N
    BY <1>1, <1>2
  <2> HIDE DEF N
  <2> QED
    BY <2>1, Induction
<1> QED
  BY <1>3, LenProperties

\* Named, for a prover to match it before it works out what Append is.
Longer(w, u, b) == Append(w \o u, b) = w \o Append(u, b)

LEMMA ConcatAppend ==
  ASSUME NEW S, NEW w \in Seq(S), NEW u \in Seq(S), NEW b \in S
  PROVE  Longer(w, u, b)
<1>1. \A x \in Seq(S) : x \o <<b>> = Append(x, b) /\ x \o u \in Seq(S)
  OBVIOUS
<1>2. PICK o : o = <<b>>
  OBVIOUS
<1>3. o \in Seq(S)
  BY <1>2
<1>4. (w \o u) \o o = w \o (u \o o)
  BY <1>3
<1>5. (w \o u) \o o = Append(w \o u, b) /\ u \o o = Append(u, b)
  BY <1>1, <1>2
<1> QED
  BY <1>4, <1>5, Zenon DEF Longer

Regrouped(w, u, v) == w \o (u \o v) = (w \o u) \o v

LEMMA ConcatRegroup ==
  ASSUME NEW S, NEW w \in Seq(S), NEW u \in Seq(S), NEW v \in Seq(S)
  PROVE  Regrouped(w, u, v)
BY ConcatAssociative DEF Regrouped

\* A text cut in two.
LEMMA CutAt ==
  ASSUME NEW S, NEW s \in Seq(S), NEW i \in 0..Len(s)
  PROVE  /\ SubSeq(s, 1, i) \in Seq(S) /\ After(i, s) \in Seq(S)
         /\ Len(SubSeq(s, 1, i)) = i
         /\ SubSeq(s, 1, i) \o After(i, s) = s
<1>1. PICK n : n = Len(s)
  OBVIOUS
<1>2. n \in Nat /\ i \in 0..n
  BY <1>1, LenProperties
<1>3. \A j \in 1..n : s[j] \in S
  BY <1>1, LenProperties
<1>4. PICK a : a = SubSeq(s, 1, i)
  OBVIOUS
<1>5. a \in Seq(S) /\ Len(a) = i /\ \A j \in 1..i : a[j] = s[j]
  BY <1>1, <1>2, <1>3, <1>4
<1>6. PICK b : b = After(i, s)
  OBVIOUS
<1>7. b \in Seq(S) /\ Len(b) = n - i /\ \A j \in 1..n - i : b[j] = s[i + j]
  BY <1>1, <1>2, <1>3, <1>6 DEF After
<1>8. PICK c : c = a \o b
  OBVIOUS
<1>9. c \in Seq(S) /\ Len(c) = n /\ \A j \in 1..n : c[j] = IF j <= i THEN a[j] ELSE b[j - i]
  BY <1>2, <1>5, <1>7, <1>8, ConcatProperties
<1>10. \A j \in 1..n : c[j] = s[j]
  <2>1. SUFFICES ASSUME NEW j \in 1..n PROVE c[j] = s[j]
    OBVIOUS
  <2>2. CASE j <= i
    BY <1>2, <1>5, <1>9, <2>2
  <2>3. CASE j > i
    <3>1. j - i \in 1..n - i /\ i + (j - i) = j
      BY <1>2, <2>3
    <3>2. b[j - i] = s[i + (j - i)]
      BY <1>7, <3>1
    <3> QED
      BY <1>2, <1>9, <2>3, <3>1, <3>2
  <2> QED
    BY <1>2, <2>2, <2>3
<1>11. c = s
  BY <1>1, <1>9, <1>10, SeqEqual
<1> QED
  BY <1>4, <1>5, <1>6, <1>7, <1>8, <1>11

LEMMA OneIs ==
  ASSUME NEW S, NEW b \in S
  PROVE  <<b>> \in Seq(S)
OBVIOUS

LEMMA TwoIn ==
  ASSUME NEW S, NEW a \in S, NEW b \in S
  PROVE  <<a, b>> \in Seq(S)
OBVIOUS

LEMMA OneMore ==
  ASSUME NEW S, NEW s \in Seq(S), NEW b \in S
  PROVE  s \o <<b>> = Append(s, b) /\ s \o <<b>> \in Seq(S)
OBVIOUS

LEMMA ConcatIn ==
  ASSUME NEW S, NEW s \in Seq(S), NEW t \in Seq(S)
  PROVE  s \o t \in Seq(S)
OBVIOUS

LEMMA TwoOnes == \A a, b : <<a, b>> = <<a>> \o <<b>>
<1>1. SUFFICES ASSUME NEW a, NEW b PROVE <<a, b>> = <<a>> \o <<b>>
  OBVIOUS
<1>2. PICK S : S = {a, b}
  OBVIOUS
<1>3. a \in S /\ b \in S
  BY <1>2
<1>4. PICK s : s = <<a>>
  OBVIOUS
<1>5. PICK t : t = <<b>>
  OBVIOUS
<1>6. PICK u : u = <<a, b>>
  OBVIOUS
<1>7. s \in Seq(S) /\ t \in Seq(S) /\ Len(s) = 1 /\ Len(t) = 1 /\ s[1] = a /\ t[1] = b
  BY <1>3, <1>4, <1>5
<1>8. u \in Seq(S) /\ Len(u) = 2 /\ u[1] = a /\ u[2] = b
  BY <1>3, <1>6
<1>9. PICK v : v = s \o t
  OBVIOUS
<1>10. v \in Seq(S) /\ Len(v) = 2 /\ v[1] = a /\ v[2] = b
  BY <1>7, <1>9, ConcatProperties
<1>11. \A i \in 1..2 : u[i] = v[i]
  BY <1>8, <1>10
<1>12. u = v
  BY <1>8, <1>10, <1>11, SeqEqual
<1> QED
  BY <1>4, <1>5, <1>6, <1>9, <1>12

LEMMA AppendTwo == \A a, b : Append(<<a>>, b) = <<a, b>>
<1>1. SUFFICES ASSUME NEW a, NEW b PROVE Append(<<a>>, b) = <<a, b>>
  OBVIOUS
<1>2. PICK S : S = {a, b}
  OBVIOUS
<1>3. PICK s : s = <<a>>
  OBVIOUS
<1>4. s \in Seq(S) /\ b \in S
  BY <1>2, <1>3, OneIs
<1>5. s \o <<b>> = Append(s, b)
  BY <1>4, OneMore
<1> QED
  BY <1>3, <1>5, TwoOnes

\* Seen from one element: the elements of an appended sequence.
LEMMA AppendElements ==
  ASSUME NEW S, NEW s \in Seq(S), NEW b \in S
  PROVE  /\ Append(s, b) \in Seq(S)
         /\ Len(s) \in Nat /\ Len(Append(s, b)) = Len(s) + 1
         /\ DOMAIN s = 1..Len(s) /\ DOMAIN Append(s, b) = 1..Len(s) + 1
         /\ \A i \in 1..Len(s) : Append(s, b)[i] = s[i]
         /\ Append(s, b)[Len(s) + 1] = b
BY AppendProperties, LenProperties

LEMMA AppendSet ==
  ASSUME NEW S, NEW s \in Seq(S), NEW b \in S
  PROVE  ToSet(Append(s, b)) = ToSet(s) \union {b}
BY AppendElements DEF ToSet
-----------------------------------------------------------------------------
(***************************************************************************)
(* A fold over a sequence, by the function F from what there is and the    *)
(* next element to what there is then.                                     *)
(***************************************************************************)
Folds(A, B, F, a) == a \in A /\ F \in [A \X B -> A]

FoldOf(F, a, s, h) == h = [i \in 0..Len(s) |-> IF i = 0 THEN a ELSE F[<<h[i - 1], s[i]>>]]
Fold(F, a, s) == (CHOOSE h : FoldOf(F, a, s, h))[Len(s)]

\* Steps of a fold: what h is after each of the first n elements.
Steps(F, a, s, n, h) == h[0] = a /\ \A i \in 1..n : h[i] = F[<<h[i - 1], s[i]>>]

LEMMA StepsExist ==
  ASSUME NEW A, NEW B, NEW F, NEW a, Folds(A, B, F, a), NEW s \in Seq(B)
  PROVE  \E h \in [0..Len(s) -> A] : Steps(F, a, s, Len(s), h)
<1> DEFINE Up(n) == n <= Len(s) => \E h \in [0..n -> A] : Steps(F, a, s, n, h)
           T == {n \in Nat : Up(n)}
<1>1. Up(0)
  <2>1. [i \in 0..0 |-> a] \in [0..0 -> A] /\ Steps(F, a, s, 0, [i \in 0..0 |-> a])
    BY DEF Steps, Folds
  <2> QED
    BY <2>1
<1>2. ASSUME NEW n \in Nat, Up(n), n + 1 <= Len(s)
      PROVE  \E h \in [0..n + 1 -> A] : Steps(F, a, s, n + 1, h)
  <2>1. n <= Len(s) /\ s[n + 1] \in B
    BY <1>2, LenProperties
  <2>2. PICK h \in [0..n -> A] : Steps(F, a, s, n, h)
    BY <1>2, <2>1
  <2> DEFINE k == [i \in 0..n + 1 |-> IF i = n + 1 THEN F[<<h[n], s[n + 1]>>] ELSE h[i]]
  <2>3. k \in [0..n + 1 -> A]
    BY <2>1 DEF Folds
  <2>4. Steps(F, a, s, n + 1, k)
    <3>1. k[0] = a
      BY <2>2 DEF Steps
    <3>2. ASSUME NEW i \in 1..n PROVE k[i] = F[<<k[i - 1], s[i]>>]
      BY <2>2 DEF Steps
    <3>3. k[n + 1] = F[<<k[n], s[n + 1]>>]
      <4>1. k[n + 1] = F[<<h[n], s[n + 1]>>] /\ k[n] = h[n]
        OBVIOUS
      <4> HIDE DEF k
      <4> QED
        BY <4>1
    <3> HIDE DEF k
    <3>4. ASSUME NEW i \in 1..n + 1 PROVE k[i] = F[<<k[i - 1], s[i]>>]
      <4>1. CASE i = n + 1
        BY <4>1, <3>3
      <4>2. CASE i # n + 1
        BY <4>2, <3>2
      <4> QED
        BY <4>1, <4>2
    <3> QED
      BY <3>1, <3>4 DEF Steps
  <2> QED
    BY <2>3, <2>4
<1>3. \A n \in Nat : Up(n) => Up(n + 1)
  BY <1>2
<1>4. Nat \subseteq T
  <2> HIDE DEF Up
  <2>1. 0 \in T /\ \A n \in Nat : n \in T => n + 1 \in T
    BY <1>1, <1>3
  <2> HIDE DEF T
  <2> QED
    BY <2>1, Induction
<1>5. Len(s) \in Nat /\ Up(Len(s))
  <2> HIDE DEF Up
  <2> QED
    BY <1>4, LenProperties
<1> QED
  BY <1>5

LEMMA StepsUnique ==
  ASSUME NEW F, NEW a, NEW s, NEW t, NEW n \in Nat, \A i \in 1..n : s[i] = t[i],
         NEW h, NEW k, Steps(F, a, s, n, h), Steps(F, a, t, n, k)
  PROVE  h[n] = k[n]
<1> DEFINE Same(i) == i <= n => h[i] = k[i]
           T == {i \in Nat : Same(i)}
<1>1. Same(0)
  BY DEF Steps
<1>2. ASSUME NEW i \in Nat, Same(i), i + 1 <= n PROVE h[i + 1] = k[i + 1]
  <2>1. i + 1 \in 1..n /\ (i + 1) - 1 = i /\ h[i] = k[i]
    BY <1>2
  <2>2. h[i + 1] = F[<<h[i], s[i + 1]>>] /\ k[i + 1] = F[<<k[i], t[i + 1]>>]
    BY <2>1 DEF Steps
  <2> QED
    BY <2>1, <2>2
<1>3. \A i \in Nat : Same(i) => Same(i + 1)
  BY <1>2
<1>4. Nat \subseteq T
  <2> HIDE DEF Same
  <2>1. 0 \in T /\ \A i \in Nat : i \in T => i + 1 \in T
    BY <1>1, <1>3
  <2> HIDE DEF T
  <2> QED
    BY <2>1, Induction
<1>5. Same(n)
  <2> HIDE DEF Same
  <2> QED
    BY <1>4
<1> QED
  BY <1>5

\* The steps there are end where the fold does.
LEMMA FoldSteps ==
  ASSUME NEW A, NEW B, NEW F, NEW a, Folds(A, B, F, a), NEW s \in Seq(B)
  PROVE  \E h \in [0..Len(s) -> A] : Steps(F, a, s, Len(s), h) /\ Fold(F, a, s) = h[Len(s)]
<1>1. PICK h \in [0..Len(s) -> A] : Steps(F, a, s, Len(s), h)
  BY StepsExist
<1>2. Len(s) \in Nat
  BY LenProperties
<1> DEFINE k == CHOOSE k : FoldOf(F, a, s, k)
<1>3. h = [i \in 0..Len(s) |-> IF i = 0 THEN a ELSE F[<<h[i - 1], s[i]>>]]
  BY <1>1, <1>2 DEF Steps
<1>4. FoldOf(F, a, s, h)
  BY <1>3 DEF FoldOf
<1>5. FoldOf(F, a, s, k)
  BY <1>4
<1>6. Fold(F, a, s) = k[Len(s)]
  BY DEF Fold
<1> HIDE DEF k
<1>7. Steps(F, a, s, Len(s), k)
  BY <1>5, <1>2 DEF Steps, FoldOf
<1>8. h[Len(s)] = k[Len(s)]
  BY <1>1, <1>2, <1>7, StepsUnique
<1> QED
  BY <1>1, <1>6, <1>8

\* What follows is all that the other proofs use of folds.
LEMMA FoldEmpty ==
  ASSUME NEW A, NEW B, NEW F, NEW a, Folds(A, B, F, a)
  PROVE  Fold(F, a, <<>>) = a
<1>0. PICK e : e = <<>>
  OBVIOUS
<1>1. e \in Seq(B)
  BY <1>0, EmptySeq
<1>2. PICK h \in [0..Len(e) -> A] : Steps(F, a, e, Len(e), h) /\ Fold(F, a, e) = h[Len(e)]
  BY <1>1, FoldSteps
<1>3. Len(e) = 0
  BY <1>0, EmptySeq
<1> QED
  BY <1>0, <1>2, <1>3 DEF Steps

LEMMA FoldAppend ==
  ASSUME NEW A, NEW B, NEW F, NEW a, Folds(A, B, F, a), NEW s \in Seq(B), NEW b \in B
  PROVE  /\ Fold(F, a, s) \in A
         /\ Fold(F, a, Append(s, b)) = F[<<Fold(F, a, s), b>>]
<1> DEFINE t == Append(s, b)
           n == Len(s)
<1>1. t \in Seq(B) /\ n \in Nat /\ Len(t) = n + 1 /\ t[n + 1] = b /\ \A i \in 1..n : s[i] = t[i]
  BY AppendElements
<1> HIDE DEF t
<1>2. PICK h \in [0..n -> A] : Steps(F, a, s, n, h) /\ Fold(F, a, s) = h[n]
  BY FoldSteps
<1>3. PICK k \in [0..Len(t) -> A] : Steps(F, a, t, Len(t), k) /\ Fold(F, a, t) = k[Len(t)]
  BY <1>1, FoldSteps
<1> HIDE DEF n
<1>4. Steps(F, a, t, n, k) /\ k[n + 1] = F[<<k[n], b>>]
  BY <1>1, <1>3 DEF Steps
<1>5. h[n] = k[n]
  BY <1>1, <1>2, <1>4, StepsUnique
<1>6. h[n] \in A
  BY <1>1, <1>2
<1> QED
  BY <1>1, <1>2, <1>3, <1>4, <1>5, <1>6 DEF t

LEMMA FoldType ==
  ASSUME NEW A, NEW B, NEW F, NEW a, Folds(A, B, F, a), NEW s \in Seq(B)
  PROVE  Fold(F, a, s) \in A
<1>1. PICK h \in [0..Len(s) -> A] : Steps(F, a, s, Len(s), h) /\ Fold(F, a, s) = h[Len(s)]
  BY FoldSteps
<1> QED
  BY <1>1, LenProperties

LEMMA FoldOne ==
  ASSUME NEW A, NEW B, NEW F, NEW a, Folds(A, B, F, a), NEW b \in B
  PROVE  Fold(F, a, <<b>>) = F[<<a, b>>]
<1>0. PICK e : e = <<>>
  OBVIOUS
<1>1. e \in Seq(B)
  BY <1>0, EmptySeq
<1>2. Fold(F, a, e) = a
  BY <1>0, FoldEmpty
<1>3. Fold(F, a, Append(e, b)) = F[<<Fold(F, a, e), b>>]
  BY <1>1, FoldAppend
<1> QED
  BY <1>0, <1>2, <1>3

LEMMA FoldConcat ==
  ASSUME NEW A, NEW B, NEW F, NEW a, Folds(A, B, F, a), NEW s \in Seq(B), NEW t \in Seq(B)
  PROVE  Fold(F, a, s \o t) = Fold(F, Fold(F, a, s), t)
<1> DEFINE m == Fold(F, a, s)
           T == {u \in Seq(B) : Fold(F, a, s \o u) = Fold(F, m, u)}
<1>1. Folds(A, B, F, m)
  BY FoldType DEF Folds
<1>2. <<>> \in T
  <2>1. <<>> \in Seq(B) /\ s \o <<>> = s
    BY EmptySeq, ConcatEmptySeq
  <2>2. Fold(F, m, <<>>) = m
    BY <1>1, FoldEmpty
  <2> QED
    BY <2>1, <2>2
<1>3. ASSUME NEW u \in Seq(B), NEW b \in B, u \in T PROVE Append(u, b) \in T
  <2> DEFINE w == s \o u
  <2>1. w \in Seq(B) /\ Append(u, b) \in Seq(B) /\ s \o Append(u, b) = Append(w, b)
    OBVIOUS
  <2> HIDE DEF w
  <2>2. Fold(F, a, Append(w, b)) = F[<<Fold(F, a, w), b>>]
    BY <2>1, FoldAppend
  <2>3. Fold(F, m, Append(u, b)) = F[<<Fold(F, m, u), b>>]
    BY <1>1, FoldAppend
  <2> QED
    BY <1>3, <2>1, <2>2, <2>3 DEF w
<1>4. Seq(B) \subseteq T
  <2> HIDE DEF T
  <2> QED
    BY <1>2, <1>3, SequenceInduction
<1> QED
  BY <1>4
-----------------------------------------------------------------------------
(***************************************************************************)
(* FoldLeft of the community modules goes from a set of indices to the set *)
(* without its greatest.  Folded says so of g, which has the value of each *)
(* set of the first n indices.                                             *)
(***************************************************************************)
\* Max of a nonempty subset of 1..n
LEMMA MaxIn ==
  ASSUME NEW n \in Nat, NEW s \in SUBSET (1..n), s # {}
  PROVE  Max(s) \in s /\ \A k \in s : k <= Max(s)
<1> DEFINE T == {n - k : k \in s}
<1>1. PICK m \in T : \A k \in T : m <= k
  <2>1. \A k \in s : n - k \in Nat
    OBVIOUS
  <2>2. T \subseteq Nat /\ T # {}
    BY <2>1
  <2> HIDE DEF T
  <2> QED
    BY <2>2, Least
<1>2. n - m \in s /\ \A k \in s : n - m >= k
  BY <1>1
<1>3. \E x \in s : \A y \in s : x >= y
  BY <1>2
<1>4. Max(s) \in s /\ \A k \in s : Max(s) >= k
  BY <1>3, Zenon DEF Max
<1> QED
  BY <1>4

\* F : A \X B -> A ; s sequence.
Folded(F, a, s, n, g) ==
  g = [t \in SUBSET (1..n) |-> IF t = {} THEN a ELSE F[<<g[t \ {Max(t)}], s[Max(t)]>>]]

LEMMA FoldExists ==
  ASSUME NEW A, NEW B, NEW F, NEW a, Folds(A, B, F, a), NEW s \in Seq(B)
  PROVE  \E g \in [SUBSET (1..Len(s)) -> A] : Folded(F, a, s, Len(s), g)
<1> DEFINE Up(n) == n <= Len(s) => \E g \in [SUBSET (1..n) -> A] : Folded(F, a, s, n, g)
           T == {n \in Nat : Up(n)}
<1>1. 0 \in T
  <2> DEFINE g == [t \in SUBSET (1..0) |-> a]
  <2>1. g \in [SUBSET (1..0) -> A]
    BY DEF Folds
  <2>2. 1..0 = {}
    OBVIOUS
  <2>3. Folded(F, a, s, 0, g)
    BY <2>2 DEF Folded
  <2> QED
    BY <2>1, <2>3
<1>2. ASSUME NEW n \in Nat, n \in T PROVE n + 1 \in T
  <2>0. SUFFICES Up(n + 1)
    <3> HIDE DEF Up
    <3> QED OBVIOUS
  <2>0a. Up(n)
    BY <1>2
  <2>1. SUFFICES ASSUME n + 1 <= Len(s)
        PROVE \E g \in [SUBSET (1..n + 1) -> A] : Folded(F, a, s, n + 1, g)
    OBVIOUS
  <2>1a. n <= Len(s)
    BY <2>1, LenProperties
  <2>2. PICK g \in [SUBSET (1..n) -> A] : Folded(F, a, s, n, g)
    BY <2>0a, <2>1a
  <2> DEFINE h == [t \in SUBSET (1..n + 1) |->
                     IF n + 1 \in t THEN F[<<g[t \ {n + 1}], s[n + 1]>>] ELSE g[t]]
  <2>3. ASSUME NEW t \in SUBSET (1..n + 1)
        PROVE  IF n + 1 \in t THEN t \ {n + 1} \in SUBSET (1..n) ELSE t \in SUBSET (1..n)
    OBVIOUS
  <2>4. s[n + 1] \in B
    BY <2>1, LenProperties
  <2>5. h \in [SUBSET (1..n + 1) -> A]
    BY <2>3, <2>4 DEF Folds
  <2>6. ASSUME NEW t \in SUBSET (1..n + 1)
        PROVE  h[t] = IF t = {} THEN a ELSE F[<<h[t \ {Max(t)}], s[Max(t)]>>]
    <3>1. CASE t = {}
      BY <3>1, <2>2, <2>3 DEF Folded
    <3>2. CASE t # {} /\ n + 1 \in t
      <4>1. Max(t) = n + 1
        <5>1. Max(t) \in t /\ \A k \in t : k <= Max(t)
          <6>1. n + 1 \in Nat
            OBVIOUS
          <6> QED BY <3>2, MaxIn, <6>1, Zenon
        <5>2. Max(t) \in 1..n + 1 /\ n + 1 <= Max(t)
          BY <5>1, <3>2
        <5>3. QED BY <5>2
      <4>2. h[t \ {n + 1}] = g[t \ {n + 1}]
        OBVIOUS
      <4> QED
        BY <4>1, <4>2, <3>2
    <3>3. CASE t # {} /\ n + 1 \notin t
      <4>0. t \in SUBSET (1..n)
        BY <3>3, <2>3
      <4>1. Max(t) \in t
        BY <3>3, MaxIn, <4>0
      <4>2. h[t \ {Max(t)}] = g[t \ {Max(t)}]
        BY <3>3
      <4>3. g[t] = F[<<g[t \ {Max(t)}], s[Max(t)]>>]
        BY <4>0, <3>3, <2>2 DEF Folded
      <4> QED
        BY <4>1, <4>2, <4>3, <3>3
    <3> QED
      BY <3>1, <3>2, <3>3
  <2>7. Folded(F, a, s, n + 1, h)
    <3> HIDE DEF h
    <3> QED BY <2>5, <2>6 DEF Folded
  <2> QED
    BY <2>5, <2>7
<1>3. Nat \subseteq T
  <2> HIDE DEF T
  <2> QED BY <1>1, <1>2, Induction
<1>4. Len(s) \in Nat /\ Len(s) <= Len(s)
  BY LenProperties
<1>5. Up(Len(s))
  <2> HIDE DEF Up
  <2> QED BY <1>3, <1>4
<1> QED
  BY <1>4, <1>5


\* With the types of what each step of it takes.
Table(A, B, F, a, s, g) ==
  /\ g \in [SUBSET DOMAIN s -> A] /\ g[{}] = a
  /\ \A t \in SUBSET DOMAIN s : t # {} =>
       /\ g[t \ {Max(t)}] \in A /\ s[Max(t)] \in B
       /\ g[t] = F[<<g[t \ {Max(t)}], s[Max(t)]>>]

LEMMA TableExists ==
  ASSUME NEW A, NEW B, NEW F, NEW a, Folds(A, B, F, a), NEW s \in Seq(B)
  PROVE  \E g : Table(A, B, F, a, s, g)
<1>1. PICK g \in [SUBSET (1..Len(s)) -> A] : Folded(F, a, s, Len(s), g)
  BY FoldExists
<1>2. DOMAIN s = 1..Len(s) /\ Len(s) \in Nat /\ \A i \in 1..Len(s) : s[i] \in B
  BY LenProperties
<1>3. ASSUME NEW t \in SUBSET (1..Len(s)), t # {}
      PROVE  g[t \ {Max(t)}] \in A /\ s[Max(t)] \in B
  <2>1. Max(t) \in t
    BY <1>2, <1>3, MaxIn
  <2> QED
    BY <1>1, <1>2, <2>1
<1> QED
  BY <1>1, <1>2, <1>3 DEF Folded, Table

\* Of a g that is only known to obey F where it is applied to what it takes.
Unfolds(A, B, F, a, s, g) ==
  /\ g[{}] = a
  /\ \A t \in SUBSET DOMAIN s : t # {} /\ g[t \ {Max(t)}] \in A /\ s[Max(t)] \in B =>
       g[t] = F[<<g[t \ {Max(t)}], s[Max(t)]>>]

LEMMA FoldIs ==
  ASSUME NEW A, NEW B, NEW F, NEW a, Folds(A, B, F, a), NEW s \in Seq(B), NEW g, Unfolds(A, B, F, a, s, g)
  PROVE  g[DOMAIN s] = Fold(F, a, s)
<1>1. PICK h \in [0..Len(s) -> A] : Steps(F, a, s, Len(s), h) /\ Fold(F, a, s) = h[Len(s)]
  BY FoldSteps
<1>2. Len(s) \in Nat /\ DOMAIN s = 1..Len(s) /\ \A i \in 1..Len(s) : s[i] \in B
  BY LenProperties
<1> DEFINE Same(n) == n <= Len(s) => g[1..n] = h[n]
           T == {n \in Nat : Same(n)}
<1>3. Same(0)
  <2>1. 1..0 = {} /\ h[0] = a
    BY <1>1 DEF Steps
  <2> QED
    BY <2>1 DEF Unfolds
<1>4. ASSUME NEW n \in Nat, Same(n), n + 1 <= Len(s) PROVE g[1..n + 1] = h[n + 1]
  <2> DEFINE t == 1..n + 1
  <2>1. t \in SUBSET (1..Len(s)) /\ t # {}
    BY <1>2, <1>4
  <2>2. Max(t) = n + 1
    <3>1. n + 1 \in Nat /\ t \in SUBSET (1..n + 1) /\ n + 1 \in t
      OBVIOUS
    <3> HIDE DEF t
    <3>2. Max(t) \in t /\ \A k \in t : k <= Max(t)
      BY <2>1, <3>1, MaxIn
    <3>3. Max(t) \in 1..n + 1 /\ n + 1 <= Max(t)
      BY <3>1, <3>2
    <3> QED
      BY <3>3
  <2>3. t \ {n + 1} = 1..n
    OBVIOUS
  <2>4. g[1..n] = h[n] /\ h[n] \in A /\ s[n + 1] \in B
    BY <1>2, <1>4
  <2>5. g[t] = F[<<h[n], s[n + 1]>>]
    <3> HIDE DEF t
    <3> QED
      BY <1>2, <2>1, <2>2, <2>3, <2>4 DEF Unfolds
  <2>6. h[n + 1] = F[<<h[n], s[n + 1]>>]
    <3>1. n + 1 \in 1..Len(s) /\ (n + 1) - 1 = n
      BY <1>2, <1>4
    <3> QED
      BY <1>1, <3>1 DEF Steps
  <2> QED
    BY <2>5, <2>6
<1>5. \A n \in Nat : Same(n) => Same(n + 1)
  BY <1>4
<1>6. Nat \subseteq T
  <2> HIDE DEF Same
  <2>1. 0 \in T /\ \A n \in Nat : n \in T => n + 1 \in T
    BY <1>3, <1>5
  <2> HIDE DEF T
  <2> QED
    BY <2>1, Induction
<1>7. Same(Len(s))
  <2> HIDE DEF Same
  <2> QED
    BY <1>2, <1>6
<1> QED
  BY <1>1, <1>2, <1>7
-----------------------------------------------------------------------------
Pieces(S) == Seq(Seq(S)) \ {<<>>}
SplitStep(S, c) ==
  [x \in Pieces(S) \X S |->
     IF x[2] = c THEN Append(x[1], <<>>) ELSE [x[1] EXCEPT ![Len(x[1])] = Append(@, x[2])]]

LEMMA SplitFolds ==
  ASSUME NEW S, NEW c
  PROVE  Folds(Pieces(S), S, SplitStep(S, c), << <<>> >>)
<1>1. << <<>> >> \in Pieces(S)
  BY DEF Pieces
<1>2. ASSUME NEW p \in Pieces(S), NEW b \in S
      PROVE  (IF b = c THEN Append(p, <<>>) ELSE [p EXCEPT ![Len(p)] = Append(@, b)]) \in Pieces(S)
  <2>1. CASE b = c
    <3>1. <<>> \in Seq(S) /\ p \in Seq(Seq(S))
      BY DEF Pieces
    <3>2. Append(p, <<>>) \in Seq(Seq(S)) /\ Append(p, <<>>) # <<>>
      BY <3>1, AppendProperties
    <3> QED
      BY <2>1, <3>2 DEF Pieces
  <2>2. CASE b # c
    <3>1. Len(p) \in 1..Len(p) /\ p[Len(p)] \in Seq(S)
      BY EmptySeq, LenProperties DEF Pieces
    <3>2. Append(p[Len(p)], b) \in Seq(S)
      BY <3>1
    <3> QED
      BY <2>2, <3>1, <3>2, ExceptSeq, EmptySeq DEF Pieces
  <2> QED
    BY <2>1, <2>2
<1> QED
  BY <1>1, <1>2 DEF Folds, SplitStep

LEMMA SplitIs ==
  ASSUME NEW S, NEW c, NEW s \in Seq(S)
  PROVE  Split(c, s) = Fold(SplitStep(S, c), << <<>> >>, s)
<1> DEFINE op(p, b) == IF b = c THEN Append(p, <<>>) ELSE [p EXCEPT ![Len(p)] = Append(@, b)]
           A == Pieces(S)
           a == << <<>> >>
           F == SplitStep(S, c)
           G(g) == g = [t \in SUBSET DOMAIN s |->
                          IF t = {} THEN a ELSE op(g[t \ {Max(t)}], s[Max(t)])]
           g == CHOOSE g : G(g)
<1>1. Split(c, s) = g[DOMAIN s]
  BY DEF Split, FoldLeft, MapThenFoldSet
<1>2. Folds(A, S, F, a)
  BY SplitFolds
<1>3. \A p \in A, b \in S : F[<<p, b>>] = op(p, b)
  BY DEF SplitStep
<1> HIDE DEF op, A, F, a
<1>4. PICK f : Table(A, S, F, a, s, f)
  BY <1>2, TableExists
<1>5. G(f)
  BY <1>3, <1>4 DEF Table
<1>6. G(g)
  BY <1>5
<1> HIDE DEF g
<1>7. Unfolds(A, S, F, a, s, g)
  BY <1>3, <1>6 DEF Unfolds
<1>8. g[DOMAIN s] = Fold(F, a, s)
  BY <1>2, <1>7, FoldIs
<1> QED
  BY <1>1, <1>8 DEF A, F, a
-----------------------------------------------------------------------------
(***************************************************************************)
(* Keep.                                                                   *)
(***************************************************************************)
KeepStep(S, T) == [x \in Seq(S) \X S |-> IF x[2] \in T THEN Append(x[1], x[2]) ELSE x[1]]

LEMMA KeepFolds ==
  ASSUME NEW S, NEW T
  PROVE  Folds(Seq(S), S, KeepStep(S, T), <<>>)
<1>1. \A p \in Seq(S), b \in S : (IF b \in T THEN Append(p, b) ELSE p) \in Seq(S)
  BY AppendProperties
<1> QED
  BY <1>1, EmptySeq DEF Folds, KeepStep

LEMMA KeepIs ==
  ASSUME NEW S, NEW T, NEW s \in Seq(S)
  PROVE  Keep(s, T) = Fold(KeepStep(S, T), <<>>, s)
<1> DEFINE op(p, b) == IF b \in T THEN Append(p, b) ELSE p
           A == Seq(S)
           a == <<>>
           F == KeepStep(S, T)
           G(g) == g = [t \in SUBSET DOMAIN s |->
                          IF t = {} THEN a ELSE op(g[t \ {Max(t)}], s[Max(t)])]
           g == CHOOSE g : G(g)
<1>1. Keep(s, T) = g[DOMAIN s]
  BY DEF Keep, FoldLeft, MapThenFoldSet
<1>2. Folds(A, S, F, a)
  BY KeepFolds
<1>3. \A p \in A, b \in S : F[<<p, b>>] = op(p, b)
  BY DEF KeepStep
<1> HIDE DEF op, A, F, a
<1>4. PICK f : Table(A, S, F, a, s, f)
  BY <1>2, TableExists
<1>5. G(f)
  BY <1>3, <1>4 DEF Table
<1>6. G(g)
  BY <1>5
<1> HIDE DEF g
<1>7. Unfolds(A, S, F, a, s, g)
  BY <1>3, <1>6 DEF Unfolds
<1>8. g[DOMAIN s] = Fold(F, a, s)
  BY <1>2, <1>7, FoldIs
<1> QED
  BY <1>1, <1>8 DEF A, F, a

LEMMA KeepEmpty == \A T : Keep(<<>>, T) = <<>>
<1>1. SUFFICES ASSUME NEW T PROVE Keep(<<>>, T) = <<>>
  OBVIOUS
<1>2. PICK e : e = <<>>
  OBVIOUS
<1>3. e \in Seq({})
  BY <1>2, EmptySeq
<1>4. Keep(e, T) = Fold(KeepStep({}, T), <<>>, e)
  BY <1>3, KeepIs
<1>5. Fold(KeepStep({}, T), <<>>, <<>>) = <<>>
  BY KeepFolds, FoldEmpty
<1> QED
  BY <1>2, <1>4, <1>5

LEMMA KeepAppend ==
  ASSUME NEW S, NEW T, NEW s \in Seq(S), NEW b \in S
  PROVE  /\ Keep(s, T) \in Seq(S)
         /\ Keep(Append(s, b), T) = IF b \in T THEN Append(Keep(s, T), b) ELSE Keep(s, T)
<1> DEFINE F == KeepStep(S, T)
           a == <<>>
           t == Append(s, b)
<1>1. Folds(Seq(S), S, F, a)
  BY KeepFolds
<1>2. t \in Seq(S)
  OBVIOUS
<1>3. Keep(s, T) = Fold(F, a, s)
  BY KeepIs
<1> HIDE DEF t
<1>4. Keep(t, T) = Fold(F, a, t)
  BY <1>2, KeepIs
<1>5. \A p \in Seq(S) : F[<<p, b>>] = IF b \in T THEN Append(p, b) ELSE p
  BY DEF KeepStep
<1> HIDE DEF F, a
<1>6. Fold(F, a, s) \in Seq(S) /\ Fold(F, a, Append(s, b)) = F[<<Fold(F, a, s), b>>]
  BY <1>1, FoldAppend
<1> QED
  BY <1>3, <1>4, <1>5, <1>6 DEF t

\* Every element that is in T stays, and no other.
LEMMA KeepSet ==
  ASSUME NEW S, NEW T, NEW s \in Seq(S)
  PROVE  Keep(s, T) \in Seq(S) /\ ToSet(Keep(s, T)) = ToSet(s) \intersect T
<1> DEFINE Good(u) == Keep(u, T) \in Seq(S) /\ ToSet(Keep(u, T)) = ToSet(u) \intersect T
           R == {u \in Seq(S) : Good(u)}
<1>1. <<>> \in R
  <2>1. Keep(<<>>, T) = <<>> /\ <<>> \in Seq(S)
    BY KeepEmpty, EmptySeq
  <2>2. ToSet(<<>>) = {}
    BY DEF ToSet
  <2> QED
    BY <2>1, <2>2
<1>2. ASSUME NEW u \in Seq(S), NEW b \in S, Good(u) PROVE Good(Append(u, b))
  <2> DEFINE k == Keep(u, T)
  <2>1. k \in Seq(S) /\ Keep(Append(u, b), T) = IF b \in T THEN Append(k, b) ELSE k
    BY KeepAppend
  <2>2. ToSet(k) = ToSet(u) \intersect T
    BY <1>2
  <2>3. \A w \in Seq(S) : ToSet(Append(w, b)) = ToSet(w) \union {b}
    <3>1. SUFFICES ASSUME NEW w \in Seq(S) PROVE ToSet(Append(w, b)) = ToSet(w) \union {b}
      OBVIOUS
    <3> QED
      BY AppendSet
  <2> HIDE DEF k
  <2> QED
    BY <2>1, <2>2, <2>3 DEF k
<1>3. Seq(S) \subseteq R
  <2> HIDE DEF Good
  <2>1. \A u \in Seq(S), b \in S : u \in R => Append(u, b) \in R
    BY <1>2
  <2>2. <<>> \in R
    BY <1>1
  <2> HIDE DEF R
  <2> QED
    BY <2>1, <2>2, SequenceInduction
<1> QED
  BY <1>3

LEMMA KeepAll ==
  ASSUME NEW S, NEW T, NEW s \in Seq(S), ToSet(s) \subseteq T
  PROVE  Keep(s, T) = s
<1> DEFINE Good(u) == ToSet(u) \subseteq T => Keep(u, T) = u
           R == {u \in Seq(S) : Good(u)}
<1>1. <<>> \in R
  BY KeepEmpty, EmptySeq
<1>2. ASSUME NEW u \in Seq(S), NEW b \in S, Good(u), ToSet(Append(u, b)) \subseteq T
      PROVE  Keep(Append(u, b), T) = Append(u, b)
  <2>1. ToSet(u) \subseteq T /\ b \in T
    BY <1>2, AppendElements DEF ToSet
  <2> QED
    BY <1>2, <2>1, KeepAppend
<1>3. Seq(S) \subseteq R
  <2>1. \A u \in Seq(S), b \in S : Good(u) => Good(Append(u, b))
    BY <1>2
  <2> HIDE DEF Good
  <2>2. \A u \in Seq(S), b \in S : u \in R => Append(u, b) \in R
    BY <2>1
  <2>3. <<>> \in R
    BY <1>1
  <2> HIDE DEF R
  <2> QED
    BY <2>2, <2>3, SequenceInduction
<1> QED
  BY <1>3
-----------------------------------------------------------------------------
(***************************************************************************)
(* FlattenSeq, and the text put together of what M has for each element.   *)
(***************************************************************************)
Concat(S) == [x \in Seq(S) \X Seq(S) |-> x[1] \o x[2]]

LEMMA ConcatFolds ==
  ASSUME NEW S
  PROVE  Folds(Seq(S), Seq(S), Concat(S), <<>>)
<1>1. \A p, q \in Seq(S) : p \o q \in Seq(S)
  BY ConcatProperties
<1> QED
  BY <1>1, EmptySeq DEF Folds, Concat

LEMMA FlattenIs ==
  ASSUME NEW S, NEW s \in Seq(Seq(S))
  PROVE  FlattenSeq(s) = Fold(Concat(S), <<>>, s)
<1> DEFINE A == Seq(S)
           a == <<>>
           F == Concat(S)
           n == Len(s)
<1>1. Folds(A, A, F, a)
  BY ConcatFolds
<1>2. n \in Nat /\ \A i \in 1..n : s[i] \in A
  BY LenProperties
<1>3. \A p \in A, q \in A : F[<<p, q>>] = p \o q
  BY DEF Concat
<1>4. \A q \in A : a \o q = q
  BY ConcatEmptySeq
<1>5. n = 0 => s = a
  BY EmptySeq
<1>6. CASE n = 0
  <2>1. FlattenSeq(s) = s
    BY <1>6 DEF FlattenSeq
  <2>2. Fold(F, a, <<>>) = a
    <3> HIDE DEF A, F, a
    <3> QED
      BY <1>1, FoldEmpty
  <2> QED
    BY <1>5, <1>6, <2>1, <2>2
<1>7. CASE n # 0
  <2> DEFINE G(g) == g = [i \in 1..n |-> IF i = 1 THEN s[i] ELSE g[i - 1] \o s[i]]
             g == CHOOSE g : G(g)
  <2>1. FlattenSeq(s) = g[n]
    BY <1>7 DEF FlattenSeq
  <2> HIDE DEF A, F, a, n
  <2>2. PICK h \in [0..Len(s) -> A] : Steps(F, a, s, Len(s), h) /\ Fold(F, a, s) = h[Len(s)]
    BY <1>1, FoldSteps DEF A
  <2>3. h[0] = a /\ \A i \in 1..n : h[i - 1] \in A /\ h[i] = h[i - 1] \o s[i]
    <3>1. n = Len(s)
      BY DEF n
    <3>2. h \in [0..n -> A] /\ h[0] = a /\ \A i \in 1..n : h[i] = F[<<h[i - 1], s[i]>>]
      BY <2>2, <3>1 DEF Steps
    <3>3. ASSUME NEW i \in 1..n PROVE h[i - 1] \in A
      <4>1. i - 1 \in 0..n
        BY <1>2
      <4> QED
        BY <3>2, <4>1
    <3> QED
      BY <1>2, <1>3, <3>2, <3>3
  <2>4. \A i \in 1..n : h[i] = IF i = 1 THEN s[i] ELSE h[i - 1] \o s[i]
    <3>1. SUFFICES ASSUME NEW i \in 1..n PROVE h[i] = IF i = 1 THEN s[i] ELSE h[i - 1] \o s[i]
      OBVIOUS
    <3>2. h[i] = h[i - 1] \o s[i] /\ s[i] \in A
      BY <1>2, <2>3
    <3>3. i = 1 => h[i - 1] = a
      BY <2>3
    <3> QED
      BY <1>4, <3>2, <3>3
  <2> DEFINE f == [i \in 1..n |-> h[i]]
  <2>5. G(f)
    BY <1>2, <2>4
  <2>6. G(g)
    BY <2>5
  <2> HIDE DEF g
  <2> DEFINE Same(i) == i + 1 <= n => g[i + 1] = h[i + 1]
             R == {i \in Nat : Same(i)}
  <2>7. Same(0)
    BY <1>2, <2>4, <2>6
  <2>8. ASSUME NEW i \in Nat, Same(i), (i + 1) + 1 <= n PROVE g[(i + 1) + 1] = h[(i + 1) + 1]
    <3>1. (i + 1) + 1 \in 1..n /\ i + 1 <= n /\ (i + 1) + 1 # 1 /\ ((i + 1) + 1) - 1 = i + 1
      BY <1>2, <2>8
    <3>2. g[(i + 1) + 1] = g[i + 1] \o s[(i + 1) + 1]
      BY <2>6, <3>1
    <3>3. h[(i + 1) + 1] = h[i + 1] \o s[(i + 1) + 1]
      BY <2>3, <3>1
    <3> QED
      BY <2>8, <3>1, <3>2, <3>3
  <2>9. Nat \subseteq R
    <3>1. \A i \in Nat : Same(i) => Same(i + 1)
      BY <2>8
    <3> HIDE DEF Same
    <3>2. 0 \in R /\ \A i \in Nat : i \in R => i + 1 \in R
      BY <2>7, <3>1
    <3> HIDE DEF R
    <3> QED
      BY <3>2, Induction
  <2>10. Same(n - 1) /\ n - 1 \in Nat
    <3>1. n - 1 \in Nat
      BY <1>2, <1>7
    <3> HIDE DEF Same
    <3> QED
      BY <2>9, <3>1
  <2>11. g[n] = h[n]
    BY <1>2, <1>7, <2>10
  <2> QED
    BY <2>1, <2>2, <2>11 DEF n, F, a
<1> QED
  BY <1>6, <1>7

Mapped(M, s) == [i \in DOMAIN s |-> M[s[i]]]
Spelled(M, s) == FlattenSeq(Mapped(M, s))

Maps(S, R, M) == \A x \in S : M[x] \in R

LEMMA MappedAppend ==
  ASSUME NEW S, NEW R, NEW M, Maps(S, R, M), NEW s \in Seq(S), NEW b \in S
  PROVE  /\ Mapped(M, s) \in Seq(R)
         /\ Mapped(M, Append(s, b)) = Append(Mapped(M, s), M[b])
<1> DEFINE t == Append(s, b)
           n == Len(s)
<1>1. n \in Nat /\ DOMAIN s = 1..n /\ DOMAIN t = 1..n + 1 /\ t[n + 1] = b
      /\ (\A i \in 1..n : t[i] = s[i] /\ s[i] \in S)
  BY AppendElements, LenProperties
<1>2. Mapped(M, s) \in [1..n -> R]
  BY <1>1 DEF Mapped, Maps
<1>3. Mapped(M, s) \in Seq(R) /\ Len(Mapped(M, s)) = n
  BY <1>1, <1>2, SeqDef
<1>4. Mapped(M, t) = [i \in 1..n + 1 |-> IF i = n + 1 THEN M[b] ELSE Mapped(M, s)[i]]
  <2> HIDE DEF t, n
  <2> QED
    BY <1>1 DEF Mapped
<1>5. Append(Mapped(M, s), M[b]) = [i \in 1..n + 1 |-> IF i = n + 1 THEN M[b] ELSE Mapped(M, s)[i]]
  <2> HIDE DEF n
  <2> QED
    BY <1>1, <1>3
<1> QED
  BY <1>3, <1>4, <1>5

LEMMA FlattenAppend ==
  ASSUME NEW S, NEW s \in Seq(Seq(S)), NEW b \in Seq(S)
  PROVE  FlattenSeq(s) \in Seq(S) /\ FlattenSeq(Append(s, b)) = FlattenSeq(s) \o b
<1> DEFINE A == Seq(S)
           F == Concat(S)
           a == <<>>
           t == Append(s, b)
<1>1. Folds(A, A, F, a)
  BY ConcatFolds
<1>2. t \in Seq(A)
  OBVIOUS
<1>3. FlattenSeq(s) = Fold(F, a, s)
  BY FlattenIs
<1> HIDE DEF t
<1>4. FlattenSeq(t) = Fold(F, a, t)
  BY <1>2, FlattenIs
<1>5. \A p \in A : F[<<p, b>>] = p \o b
  BY DEF Concat
<1> HIDE DEF F, a
<1>6. Fold(F, a, s) \in A /\ Fold(F, a, Append(s, b)) = F[<<Fold(F, a, s), b>>]
  <2>1. s \in Seq(A) /\ b \in A
    OBVIOUS
  <2> HIDE DEF A
  <2> QED
    BY <1>1, <2>1, FoldAppend
<1> QED
  BY <1>3, <1>4, <1>5, <1>6 DEF t

LEMMA SpelledEmpty == \A M : Spelled(M, <<>>) = <<>>
BY DEF Spelled, Mapped, FlattenSeq

LEMMA SpelledAppend ==
  ASSUME NEW S, NEW R, NEW M, Maps(S, Seq(R), M), NEW s \in Seq(S), NEW b \in S
  PROVE  Spelled(M, s) \in Seq(R) /\ Spelled(M, Append(s, b)) = Spelled(M, s) \o M[b]
<1>1. PICK T : T = Seq(R)
  OBVIOUS
<1>2. Maps(S, T, M)
  BY <1>1
<1>3. Mapped(M, s) \in Seq(T) /\ Mapped(M, Append(s, b)) = Append(Mapped(M, s), M[b])
  BY <1>2, MappedAppend
<1>4. M[b] \in Seq(R)
  BY DEF Maps
<1>5. PICK m : m = Mapped(M, s)
  OBVIOUS
<1>6. m \in Seq(Seq(R))
  BY <1>1, <1>3, <1>5
<1>7. FlattenSeq(m) \in Seq(R) /\ FlattenSeq(Append(m, M[b])) = FlattenSeq(m) \o M[b]
  BY <1>4, <1>6, FlattenAppend
<1> QED
  BY <1>3, <1>5, <1>7 DEF Spelled
-----------------------------------------------------------------------------
(***************************************************************************)
(* Split, and the first of the bytes looked for.                           *)
(***************************************************************************)
LEMMA SplitEmpty == \A c : Split(c, <<>>) = << <<>> >>
<1>1. SUFFICES ASSUME NEW c PROVE Split(c, <<>>) = << <<>> >>
  OBVIOUS
<1>2. PICK e : e = <<>>
  OBVIOUS
<1>3. e \in Seq({})
  BY <1>2, EmptySeq
<1>4. Split(c, e) = Fold(SplitStep({}, c), << <<>> >>, e)
  BY <1>3, SplitIs
<1>5. Fold(SplitStep({}, c), << <<>> >>, <<>>) = << <<>> >>
  BY SplitFolds, FoldEmpty
<1> QED
  BY <1>2, <1>4, <1>5

LEMMA SplitType ==
  ASSUME NEW S, NEW c, NEW s \in Seq(S)
  PROVE  Split(c, s) \in Pieces(S)
<1>1. Split(c, s) = Fold(SplitStep(S, c), << <<>> >>, s)
  BY SplitIs
<1>2. Folds(Pieces(S), S, SplitStep(S, c), << <<>> >>)
  BY SplitFolds
<1> QED
  BY <1>1, <1>2, FoldType

SplitsNext(c, s, b) ==
  Split(c, Append(s, b)) =
    IF b = c THEN Append(Split(c, s), <<>>)
             ELSE [Split(c, s) EXCEPT ![Len(Split(c, s))] = Append(@, b)]

LEMMA SplitNext ==
  ASSUME NEW S, NEW c, NEW s \in Seq(S), NEW b \in S
  PROVE  SplitsNext(c, s, b)
<1> DEFINE F == SplitStep(S, c)
           a == << <<>> >>
           t == Append(s, b)
<1>1. Folds(Pieces(S), S, F, a)
  BY SplitFolds
<1>2. t \in Seq(S)
  OBVIOUS
<1>3. Split(c, s) = Fold(F, a, s)
  BY SplitIs
<1> HIDE DEF t
<1>4. Split(c, t) = Fold(F, a, t)
  BY <1>2, SplitIs
<1>5. \A q \in Pieces(S) :
        F[<<q, b>>] = IF b = c THEN Append(q, <<>>) ELSE [q EXCEPT ![Len(q)] = Append(@, b)]
  BY DEF SplitStep
<1> HIDE DEF F, a
<1>6. Fold(F, a, s) \in Pieces(S) /\ Fold(F, a, Append(s, b)) = F[<<Fold(F, a, s), b>>]
  BY <1>1, FoldAppend
<1> QED
  <2>1. PICK p : p = Fold(F, a, s)
    OBVIOUS
  <2>2. Fold(F, a, Append(s, b)) = IF b = c THEN Append(p, <<>>) ELSE [p EXCEPT ![Len(p)] = Append(@, b)]
    BY <1>5, <1>6, <2>1
  <2> QED
    BY <1>3, <1>4, <2>1, <2>2 DEF t, SplitsNext

\* What has no c in it goes to the last piece.
Grown(p, u) == [p EXCEPT ![Len(p)] = @ \o u]

LEMMA SplitOn ==
  ASSUME NEW S, NEW c, NEW s \in Seq(S), NEW u \in Seq(S \ {c})
  PROVE  Split(c, s \o u) = Grown(Split(c, s), u)
<1> DEFINE Good(w) == Split(c, s \o w) = Grown(Split(c, s), w)
           T == {w \in Seq(S \ {c}) : Good(w)}
<1>1. PICK p : p = Split(c, s)
  OBVIOUS
<1>2. PICK n : n = Len(p)
  OBVIOUS
<1>3. p \in Seq(Seq(S)) /\ n \in Nat /\ n >= 1 /\ DOMAIN p = 1..n /\ p[n] \in Seq(S)
  <2>1. p \in Pieces(S)
    BY <1>1, SplitType
  <2> QED
    BY <1>2, <2>1, LenProperties DEF Pieces
<1>4. Seq(S \ {c}) \subseteq Seq(S)
  BY SeqMonotonic
<1>5. \A w : Grown(p, w) = [p EXCEPT ![n] = @ \o w]
  BY <1>2 DEF Grown
<1>6. \A w \in Seq(S) : Grown(p, w) \in Seq(Seq(S)) /\ Len(Grown(p, w)) = n /\ Grown(p, w)[n] = p[n] \o w
  <2>1. SUFFICES ASSUME NEW w \in Seq(S)
                 PROVE  Grown(p, w) \in Seq(Seq(S)) /\ Len(Grown(p, w)) = n /\ Grown(p, w)[n] = p[n] \o w
    OBVIOUS
  <2>2. PICK x : x = p[n] \o w
    OBVIOUS
  <2>3. x \in Seq(S)
    BY <1>3, <2>2, ConcatIn
  <2>4. PICK R : R = Seq(S)
    OBVIOUS
  <2>5. n \in 1..Len(p) /\ p \in Seq(R) /\ x \in R
    BY <1>2, <1>3, <2>3, <2>4
  <2>6. [p EXCEPT ![n] = x] \in Seq(R) /\ Len([p EXCEPT ![n] = x]) = Len(p)
        /\ \A j \in 1..Len(p) : [p EXCEPT ![n] = x][j] = IF j = n THEN x ELSE p[j]
    BY <2>5, ExceptSeq
  <2>7. Grown(p, w) = [p EXCEPT ![n] = x]
    BY <1>5, <2>2
  <2> QED
    BY <1>2, <2>2, <2>4, <2>5, <2>6, <2>7
<1>7. Good(<<>>)
  <2>1. s \o <<>> = s
    BY ConcatEmptySeq
  <2>2. p[n] \o <<>> = p[n]
    BY <1>3, ConcatEmptySeq
  <2>3. Grown(p, <<>>) = p
    <3>1. PICK x : x = p[n] \o <<>>
      OBVIOUS
    <3>2. Grown(p, <<>>) = [p EXCEPT ![n] = x]
      BY <1>5, <3>1
    <3>3. x = p[n]
      BY <2>2, <3>1
    <3>4. [p EXCEPT ![n] = x] = p
      BY <1>3, <3>3
    <3> QED
      BY <3>2, <3>4
  <2> QED
    BY <1>1, <2>1, <2>3
<1>8. ASSUME NEW w \in Seq(S \ {c}), NEW b \in S \ {c}, Good(w) PROVE Good(Append(w, b))
  <2>1. w \in Seq(S) /\ b \in S /\ b # c
    BY <1>4
  <2>2. PICK t : t = s \o w
    OBVIOUS
  <2>3. t \in Seq(S)
    BY <2>1, <2>2, ConcatIn
  <2>4. PICK q : q = Split(c, t)
    OBVIOUS
  <2>5. Split(c, Append(t, b)) = [q EXCEPT ![Len(q)] = Append(@, b)]
    <3>1. b \in S
      OBVIOUS
    <3>2. SplitsNext(c, t, b)
      BY <2>3, <3>1, SplitNext
    <3> QED
      BY <2>1, <2>4, <3>2 DEF SplitsNext
  <2>6. q = Grown(p, w)
    BY <1>1, <1>8, <2>2, <2>4
  <2>7. PICK x : x = Append(w, b)
    OBVIOUS
  <2>8. Append(t, b) = s \o x
    <3>1. Longer(s, w, b)
      BY <2>1, ConcatAppend
    <3> QED
      BY <2>2, <2>7, <3>1 DEF Longer
  <2>9. Append(p[n] \o w, b) = p[n] \o x
    <3>1. PICK y : y = p[n]
      OBVIOUS
    <3>2. y \in Seq(S)
      BY <1>3, <3>1
    <3>3. Longer(y, w, b)
      BY <2>1, <3>2, ConcatAppend
    <3> QED
      BY <2>7, <3>1, <3>3 DEF Longer
  <2>10. Len(q) = n /\ q[n] = p[n] \o w
    BY <1>6, <2>1, <2>6
  <2>11. [q EXCEPT ![Len(q)] = Append(@, b)] = [q EXCEPT ![n] = p[n] \o x]
    BY <2>9, <2>10
  <2>12. [q EXCEPT ![n] = p[n] \o x] = [p EXCEPT ![n] = p[n] \o x]
    BY <1>5, <2>6
  <2>13. [p EXCEPT ![n] = p[n] \o x] = Grown(p, x)
    BY <1>5
  <2> QED
    BY <1>1, <2>5, <2>7, <2>8, <2>11, <2>12, <2>13
<1>9. Seq(S \ {c}) \subseteq T
  <2> HIDE DEF Good
  <2>1. <<>> \in T /\ \A w \in Seq(S \ {c}), b \in S \ {c} : w \in T => Append(w, b) \in T
    BY <1>7, <1>8, EmptySeq
  <2> HIDE DEF T
  <2> QED
    BY <2>1, SequenceInduction
<1> QED
  BY <1>9

LEMMA GrownLast ==
  ASSUME NEW S, NEW m \in Seq(Seq(S)), NEW v \in Seq(S)
  PROVE  Grown(Append(m, <<>>), v) = Append(m, v)
<1>1. PICK e : e = <<>>
  OBVIOUS
<1>2. PICK n : n = Len(m)
  OBVIOUS
<1>3. PICK R : R = Seq(S)
  OBVIOUS
<1>4. m \in Seq(R) /\ e \in R /\ v \in R
  BY <1>1, <1>3, EmptySeq
<1>5. PICK p, q : p = Append(m, e) /\ q = Append(m, v)
  OBVIOUS
<1>6. /\ p \in Seq(R) /\ q \in Seq(R) /\ n \in Nat /\ Len(p) = n + 1 /\ Len(q) = n + 1
      /\ p[n + 1] = e /\ q[n + 1] = v /\ \A i \in 1..n : p[i] = m[i] /\ q[i] = m[i]
  BY <1>2, <1>4, <1>5, AppendElements
<1>7. e \o v = v
  BY <1>1, ConcatEmptySeq
<1>8. Grown(p, v) = [p EXCEPT ![n + 1] = v]
  <2>1. PICK x : x = p[n + 1] \o v
    OBVIOUS
  <2>2. x = v
    BY <1>6, <1>7, <2>1
  <2>3. Grown(p, v) = [p EXCEPT ![n + 1] = x]
    BY <1>6, <2>1 DEF Grown
  <2> QED
    BY <2>2, <2>3
<1>9. PICK g : g = [p EXCEPT ![n + 1] = v]
  OBVIOUS
<1>10. n + 1 \in 1..Len(p)
  BY <1>6
<1>11. g \in Seq(R) /\ Len(g) = Len(p) /\ \A j \in 1..Len(p) : g[j] = IF j = n + 1 THEN v ELSE p[j]
  <2>1. p \in Seq(R)
    BY <1>6
  <2>2. v \in R
    BY <1>4
  <2> QED
    BY <1>9, <1>10, <2>1, <2>2, ExceptSeq
<1>12. \A j \in 1..Len(g) : g[j] = q[j]
  BY <1>6, <1>11
<1>13. g = q
  BY <1>6, <1>11, <1>12, SeqEqual
<1> QED
  BY <1>1, <1>5, <1>8, <1>9, <1>13

LEMMA FirstIs ==
  ASSUME NEW S, NEW c, NEW s \in Seq(S), NEW i \in 1..Len(s), s[i] = c,
         \A j \in 1..i - 1 : s[j] # c
  PROVE  Index(c, s) = i
<1>1. Len(s) \in Nat
  BY LenProperties
<1> DEFINE I == {j \in 1..Len(s) : s[j] = c}
<1>2. Index(c, s) = IF I # {} THEN Min(I) ELSE 0
  BY DEF Index, SelectInSeq
<1>3. i \in I /\ \A j \in I : i <= j
  BY <1>1
<1>4. I \subseteq Nat
  BY <1>1
<1> HIDE DEF I
<1>5. \A x \in I : (\A y \in I : x <= y) => x = i
  BY <1>3, <1>4
<1>6. Min(I) = i
  BY <1>3, <1>5, Zenon DEF Min
<1> QED
  BY <1>2, <1>3, <1>6

\* A text cut at its first c.
Joined(k, c, v, w) == w = k \o <<c>> \o v

LEMMA CutAtFirst ==
  ASSUME NEW S, NEW c \in S, NEW k \in Seq(S), NEW v \in Seq(S), ~Occurs(c, k),
         NEW w, Joined(k, c, v, w)
  PROVE  /\ w \in Seq(S) /\ Occurs(c, w)
         /\ Before(Index(c, w), w) = k /\ After(Index(c, w), w) = v
<1> DEFINE n == Len(k)
           m == Len(v)
<1>1. n \in Nat /\ m \in Nat /\ DOMAIN k = 1..n
  BY LenProperties
<1>0. w = k \o <<c>> \o v
  BY DEF Joined
<1>2. w \in Seq(S) /\ Len(w) = n + 1 + m
  BY <1>0
<1>3. \A j \in 1..n : w[j] = k[j]
  BY <1>0
<1>4. w[n + 1] = c /\ n + 1 \in 1..Len(w)
  BY <1>0, <1>1, <1>2
<1>5. \A j \in 1..m : w[n + 1 + j] = v[j]
  BY <1>0, <1>1, <1>2
<1>6. \A j \in 1..n : w[j] # c
  BY <1>1, <1>3 DEF Occurs
<1> HIDE DEF n, m
<1>7. Index(c, w) = n + 1
  <2>1. PICK i : i = n + 1
    OBVIOUS
  <2>2. i \in 1..Len(w) /\ w[i] = c /\ \A j \in 1..i - 1 : w[j] # c
    BY <1>1, <1>4, <1>6, <2>1
  <2> QED
    BY <1>2, <2>1, <2>2, FirstIs
<1>8. SubSeq(w, 1, n) = k
  BY <1>1, <1>2, <1>3 DEF n
<1>9. SubSeq(w, n + 2, n + 1 + m) = v
  BY <1>1, <1>2, <1>5 DEF m
<1>10. Occurs(c, w)
  BY <1>2, <1>4, LenProperties DEF Occurs
<1>11. (n + 1) - 1 = n /\ (n + 1) + 1 = n + 2
  BY <1>1
<1> QED
  BY <1>2, <1>7, <1>8, <1>9, <1>10, <1>11 DEF Before, After
-----------------------------------------------------------------------------
(***************************************************************************)
(* Places in a text, and what is in one.                                   *)
(***************************************************************************)
LEMMA MinIn ==
  ASSUME NEW I, I \subseteq Nat, I # {}
  PROVE  Min(I) \in I /\ \A k \in I : Min(I) <= k
<1>1. PICK m \in I : \A k \in I : m <= k
  BY Least
<1>2. \A x \in I : (\A y \in I : x <= y) => x = m
  BY <1>1
<1>3. Min(I) = m
  BY <1>1, <1>2, Zenon DEF Min
<1> QED
  BY <1>1, <1>3

\* The first c of a text that has one.
LEMMA IndexIs ==
  ASSUME NEW S, NEW c, NEW s \in Seq(S), Occurs(c, s)
  PROVE  /\ Index(c, s) \in 1..Len(s) /\ s[Index(c, s)] = c
         /\ \A j \in 1..Index(c, s) - 1 : s[j] # c
<1> DEFINE I == {j \in 1..Len(s) : s[j] = c}
<1>1. Len(s) \in Nat /\ DOMAIN s = 1..Len(s)
  BY LenProperties
<1>2. Index(c, s) = IF I # {} THEN Min(I) ELSE 0
  BY DEF Index, SelectInSeq
<1>3. I # {} /\ I \subseteq Nat
  BY <1>1 DEF Occurs
<1>4. \A j \in 1..Len(s) : j \in I <=> s[j] = c
  OBVIOUS
<1>5. I \subseteq 1..Len(s)
  OBVIOUS
<1> HIDE DEF I
<1>6. Min(I) \in I /\ \A k \in I : Min(I) <= k
  BY <1>3, MinIn
<1>7. PICK i : i = Index(c, s)
  OBVIOUS
<1>8. i \in I /\ \A k \in I : i <= k
  BY <1>2, <1>3, <1>6, <1>7
<1>9. i \in 1..Len(s) /\ s[i] = c
  BY <1>4, <1>5, <1>8
<1>10. \A j \in 1..i - 1 : s[j] # c
  BY <1>1, <1>4, <1>8, <1>9
<1> QED
  BY <1>7, <1>9, <1>10

LEMMA TextElements ==
  ASSUME NEW S, NEW s \in Seq(S)
  PROVE  ToSet(s) \subseteq S
BY LenProperties DEF ToSet

LEMMA ConcatSet ==
  ASSUME NEW S, NEW s \in Seq(S), NEW t \in Seq(S)
  PROVE  ToSet(s \o t) = ToSet(s) \union ToSet(t)
<1>0. PICK w : w = s \o t
  OBVIOUS
<1>1. PICK n, m : n = Len(s) /\ m = Len(t)
  OBVIOUS
<1>2. /\ w \in Seq(S) /\ n \in Nat /\ m \in Nat /\ Len(w) = n + m
      /\ \A i \in 1..n + m : w[i] = IF i <= n THEN s[i] ELSE t[i - n]
  BY <1>0, <1>1, ConcatProperties, LenProperties
<1>3. DOMAIN s = 1..n /\ DOMAIN t = 1..m /\ DOMAIN w = 1..n + m
  BY <1>1, <1>2, LenProperties
<1>4. \A i \in 1..n : i \in 1..n + m /\ w[i] = s[i]
  BY <1>2
<1>5. \A i \in 1..m : n + i \in 1..n + m /\ w[n + i] = t[i]
  BY <1>2
<1>6. \A i \in 1..n + m : i \in 1..n \/ (i - n \in 1..m /\ w[i] = t[i - n])
  BY <1>2
<1>7. ToSet(s) = {s[i] : i \in 1..n} /\ ToSet(t) = {t[i] : i \in 1..m} /\ ToSet(w) = {w[i] : i \in 1..n + m}
  BY <1>3 DEF ToSet
<1>8. ASSUME NEW x \in ToSet(s) \union ToSet(t) PROVE x \in ToSet(w)
  BY <1>4, <1>5, <1>7
<1>9. ASSUME NEW x \in ToSet(w) PROVE x \in ToSet(s) \union ToSet(t)
  BY <1>4, <1>6, <1>7
<1> QED
  BY <1>0, <1>8, <1>9

LEMMA PrefixIs ==
  ASSUME NEW S, NEW p \in Seq(S), NEW e \in Seq(S)
  PROVE  IsPrefix(p, e) <=> Len(p) <= Len(e) /\ \A j \in 1..Len(p) : p[j] = e[j]
<1>1. Len(p) \in Nat /\ Len(e) \in Nat
  BY LenProperties
<1>2. SubSeq(p, 1, Len(p)) = p
  BY <1>1
<1>3. ASSUME Len(p) <= Len(e) PROVE SubSeq(e, 1, Len(p)) = p <=> \A j \in 1..Len(p) : p[j] = e[j]
  <2>1. PICK q : q = SubSeq(e, 1, Len(p))
    OBVIOUS
  <2>2. q \in Seq(S) /\ Len(q) = Len(p) /\ \A j \in 1..Len(p) : q[j] = e[j]
    BY <1>1, <1>3, <2>1
  <2>3. (\A j \in 1..Len(p) : p[j] = q[j]) => p = q
    BY <2>2, SeqEqual
  <2> QED
    BY <2>1, <2>2, <2>3
<1> QED
  BY <1>2, <1>3 DEF IsPrefix
-----------------------------------------------------------------------------
(***************************************************************************)
(* Texts made of others: mapped, split after a separator, trimmed.         *)
(***************************************************************************)
LEMMA MappedType ==
  ASSUME NEW S, NEW R, NEW M, Maps(S, R, M), NEW s \in Seq(S)
  PROVE  Mapped(M, s) \in Seq(R) /\ Len(Mapped(M, s)) = Len(s)
<1>1. Len(s) \in Nat /\ DOMAIN s = 1..Len(s) /\ \A i \in 1..Len(s) : s[i] \in S
  BY LenProperties
<1>2. Mapped(M, s) \in [1..Len(s) -> R]
  BY <1>1 DEF Mapped, Maps
<1> QED
  BY <1>1, <1>2, SeqDef

LEMMA MappedConcat ==
  ASSUME NEW S, NEW R, NEW M, Maps(S, R, M), NEW s \in Seq(S), NEW t \in Seq(S)
  PROVE  Mapped(M, s \o t) = Mapped(M, s) \o Mapped(M, t)
<1>1. PICK n, m, w : n = Len(s) /\ m = Len(t) /\ w = s \o t
  OBVIOUS
<1>2. /\ w \in Seq(S) /\ n \in Nat /\ m \in Nat /\ Len(w) = n + m
      /\ \A i \in 1..n + m : w[i] = IF i <= n THEN s[i] ELSE t[i - n]
  BY <1>1, ConcatProperties, LenProperties
<1>3. PICK a, b, c : a = Mapped(M, s) /\ b = Mapped(M, t) /\ c = Mapped(M, w)
  OBVIOUS
<1>4. /\ a \in Seq(R) /\ Len(a) = n /\ b \in Seq(R) /\ Len(b) = m /\ c \in Seq(R) /\ Len(c) = n + m
  <2>1. \A x \in Seq(S) : Mapped(M, x) \in Seq(R) /\ Len(Mapped(M, x)) = Len(x)
    BY MappedType
  <2> QED
    BY <1>1, <1>2, <1>3, <2>1, Zenon
<1>5. /\ \A i \in 1..n : a[i] = M[s[i]]
      /\ \A i \in 1..m : b[i] = M[t[i]]
      /\ \A i \in 1..n + m : c[i] = M[w[i]]
  <2>1. DOMAIN s = 1..n /\ DOMAIN t = 1..m /\ DOMAIN w = 1..n + m
    BY <1>1, <1>2, LenProperties
  <2> QED
    BY <1>3, <2>1 DEF Mapped
<1>6. PICK d : d = a \o b
  OBVIOUS
<1>7. d \in Seq(R) /\ Len(d) = n + m /\ \A i \in 1..n + m : d[i] = IF i <= n THEN a[i] ELSE b[i - n]
  BY <1>4, <1>6, ConcatProperties
<1>8. ASSUME NEW i \in 1..n + m PROVE c[i] = d[i]
  <2>1. CASE i <= n
    <3>1. i \in 1..n
      BY <1>2, <2>1
    <3> QED
      BY <1>2, <1>5, <1>7, <2>1, <3>1
  <2>2. CASE i > n
    <3>1. i - n \in 1..m /\ ~(i <= n)
      BY <1>2, <2>2
    <3>2. w[i] = t[i - n] /\ d[i] = b[i - n]
      BY <1>2, <1>7, <3>1
    <3> QED
      BY <1>5, <3>1, <3>2
  <2> QED
    BY <1>2, <2>1, <2>2
<1>9. c = d
  BY <1>2, <1>4, <1>7, <1>8, SeqEqual
<1> QED
  BY <1>1, <1>3, <1>6, <1>9

\* Texts longer by one byte are the same if what they are longer than is, and the byte.
LEMMA AppendSame ==
  ASSUME NEW S, NEW s \in Seq(S), NEW t \in Seq(S), NEW a \in S, NEW b \in S,
         Append(s, a) = Append(t, b)
  PROVE  s = t /\ a = b
<1>1. PICK u, v : u = Append(s, a) /\ v = Append(t, b)
  OBVIOUS
<1>2. /\ Len(s) \in Nat /\ Len(u) = Len(s) + 1 /\ u[Len(s) + 1] = a /\ \A i \in 1..Len(s) : u[i] = s[i]
      /\ Len(t) \in Nat /\ Len(v) = Len(t) + 1 /\ v[Len(t) + 1] = b /\ \A i \in 1..Len(t) : v[i] = t[i]
  BY <1>1, AppendElements
<1>3. u = v
  BY <1>1
<1>4. Len(s) = Len(t)
  BY <1>2, <1>3
<1>5. \A i \in 1..Len(s) : s[i] = t[i]
  BY <1>2, <1>3, <1>4
<1>6. s = t
  BY <1>4, <1>5, SeqEqual
<1> QED
  BY <1>2, <1>3, <1>4, <1>6

\* The last piece of a sequence, made longer.
SetsLast(m, a, z, b) ==
  [Append(m, a) EXCEPT ![Len(Append(m, a))] = Append(@, b)] = Append(m, z)

LEMMA LastSet ==
  ASSUME NEW R, NEW m \in Seq(R), NEW a \in R, NEW b, NEW z \in R, z = Append(a, b)
  PROVE  SetsLast(m, a, z, b)
<1>1. PICK p, q, n : p = Append(m, a) /\ q = Append(m, z) /\ n = Len(m) + 1
  OBVIOUS
<1>2. /\ p \in Seq(R) /\ q \in Seq(R) /\ Len(m) \in Nat /\ Len(p) = n /\ Len(q) = n
      /\ p[n] = a /\ q[n] = z /\ \A i \in 1..Len(m) : p[i] = m[i] /\ q[i] = m[i]
  BY <1>1, AppendElements
<1>3. PICK g : g = [p EXCEPT ![n] = z]
  OBVIOUS
<1>4. n \in 1..Len(p)
  BY <1>1, <1>2
<1>5. g \in Seq(R) /\ Len(g) = n /\ \A j \in 1..n : g[j] = IF j = n THEN z ELSE p[j]
  BY <1>2, <1>3, <1>4, ExceptSeq
<1>6. \A j \in 1..n : g[j] = q[j]
  BY <1>1, <1>2, <1>5
<1>7. g = q
  BY <1>2, <1>5, <1>6, SeqEqual
<1> QED
  BY <1>1, <1>2, <1>3, <1>7 DEF SetsLast

\* A text that ends with a c, or is empty: the pieces before its end.
Stops(c, s, C) == Split(c, s) = Append(C, <<>>)
StopsBefore(c, s, C, u) == Split(c, s \o u) = C \o Split(c, u)

\* After a c, the pieces are those of what follows.
LEMMA SplitAfter ==
  ASSUME NEW S, NEW c, NEW s \in Seq(S), NEW C \in Seq(Seq(S)), Stops(c, s, C), NEW u \in Seq(S)
  PROVE  StopsBefore(c, s, C, u)
<1> DEFINE Good(w) == Split(c, s \o w) = C \o Split(c, w)
           T == {w \in Seq(S) : Good(w)}
<1>0. Split(c, s) = Append(C, <<>>)
  BY DEF Stops
<1>1. PICK R : R = Seq(S)
  OBVIOUS
<1>2. C \in Seq(R) /\ <<>> \in R
  BY <1>1, EmptySeq
<1>3. Good(<<>>)
  <2>1. s \o <<>> = s
    BY ConcatEmptySeq
  <2>2. PICK e : e = <<>>
    OBVIOUS
  <2>3. C \o <<e>> = Append(C, e)
    BY <1>2, <2>2, OneMore
  <2> QED
    BY <1>0, <2>1, <2>2, <2>3, SplitEmpty
<1>4. ASSUME NEW w \in Seq(S), NEW b \in S, Good(w) PROVE Good(Append(w, b))
  <2>1. PICK t, x, p, q : t = s \o w /\ x = Append(w, b) /\ p = Split(c, w) /\ q = Split(c, t)
    OBVIOUS
  <2>2. t \in Seq(S) /\ x \in Seq(S) /\ Append(t, b) = s \o x
    <3>1. Longer(s, w, b)
      BY ConcatAppend
    <3> QED
      BY <2>1, <3>1, ConcatIn, AppendProperties DEF Longer
  <2>3. p \in Seq(R) /\ p # <<>>
    BY <1>1, <2>1, SplitType DEF Pieces
  <2>4. q = C \o p
    BY <1>4, <2>1
  <2>5. Split(c, Append(t, b)) = IF b = c THEN Append(q, <<>>) ELSE [q EXCEPT ![Len(q)] = Append(@, b)]
    <3>1. SplitsNext(c, t, b)
      BY <2>2, SplitNext
    <3> QED
      BY <2>1, <3>1 DEF SplitsNext
  <2>6. Split(c, x) = IF b = c THEN Append(p, <<>>) ELSE [p EXCEPT ![Len(p)] = Append(@, b)]
    <3>1. SplitsNext(c, w, b)
      BY SplitNext
    <3> QED
      BY <2>1, <3>1 DEF SplitsNext
  <2>7. CASE b = c
    <3>1. PICK e : e = <<>>
      OBVIOUS
    <3>2. Longer(C, p, e)
      BY <1>2, <2>3, <3>1, ConcatAppend
    <3> QED
      BY <2>1, <2>2, <2>4, <2>5, <2>6, <2>7, <3>1, <3>2 DEF Longer
  <2>8. CASE b # c
    <3>0. PICK m \in Seq(R), a \in R : p = Append(m, a)
      BY <2>3, SequenceEmptyOrAppend
    <3>1. PICK z : z = Append(a, b)
      OBVIOUS
    <3>2. z \in R
      BY <1>1, <3>1, AppendProperties
    <3>3. PICK k : k = C \o m
      OBVIOUS
    <3>4. k \in Seq(R) /\ q = Append(k, a) /\ Append(k, z) = C \o Append(m, z)
      <4>1. Longer(C, m, a) /\ Longer(C, m, z)
        BY <1>2, <3>2, ConcatAppend
      <4> QED
        BY <1>2, <2>4, <3>0, <3>3, <4>1, ConcatIn DEF Longer
    <3>5. [p EXCEPT ![Len(p)] = Append(@, b)] = Append(m, z)
      <4>1. SetsLast(m, a, z, b)
        BY <3>1, <3>2, LastSet
      <4> QED
        BY <3>0, <4>1 DEF SetsLast
    <3>6. [q EXCEPT ![Len(q)] = Append(@, b)] = Append(k, z)
      <4>1. SetsLast(k, a, z, b)
        BY <3>1, <3>2, <3>4, LastSet
      <4> QED
        BY <3>4, <4>1 DEF SetsLast
    <3> QED
      BY <2>1, <2>2, <2>5, <2>6, <2>8, <3>0, <3>4, <3>5, <3>6
  <2> QED
    BY <2>7, <2>8
<1>5. Seq(S) \subseteq T
  <2> HIDE DEF Good
  <2>1. <<>> \in T /\ \A w \in Seq(S), b \in S : w \in T => Append(w, b) \in T
    BY <1>3, <1>4, EmptySeq
  <2> HIDE DEF T
  <2> QED
    BY <2>1, SequenceInduction
<1> QED
  BY <1>5 DEF StopsBefore

\* A line and its end.
LEMMA SplitLine ==
  ASSUME NEW S, NEW c \in S, NEW u \in Seq(S \ {c})
  PROVE  Split(c, Append(u, c)) = Append(<<u>>, <<>>)
<1>1. u \in Seq(S)
  <2>1. Seq(S \ {c}) \subseteq Seq(S)
    BY SeqMonotonic
  <2> QED
    BY <2>1
<1>2. PICK e, m : e = <<>> /\ m = <<>>
  OBVIOUS
<1>3. e \in Seq(S) /\ m \in Seq(Seq(S))
  BY <1>2, EmptySeq
<1>4. Split(c, e \o u) = Grown(Split(c, e), u)
  BY <1>3, SplitOn
<1>5. e \o u = u /\ Split(c, e) = Append(m, e)
  BY <1>1, <1>2, SplitEmpty, ConcatEmptySeq
<1>6. Grown(Append(m, <<>>), u) = Append(m, u)
  BY <1>1, <1>3, GrownLast
<1>7. Split(c, u) = <<u>>
  BY <1>2, <1>4, <1>5, <1>6
<1>8. SplitsNext(c, u, c)
  BY <1>1, SplitNext
<1> QED
  BY <1>7, <1>8 DEF SplitsNext

\* There is no place of a c that does not occur.
LEMMA NoneThere ==
  ASSUME NEW S, NEW c, NEW s \in Seq(S), ~Occurs(c, s)
  PROVE  Index(c, s) = 0
<1>1. DOMAIN s = 1..Len(s)
  BY LenProperties
<1>2. {i \in 1..Len(s) : s[i] = c} = {}
  BY <1>1 DEF Occurs
<1> QED
  BY <1>2 DEF Index, SelectInSeq

\* TrimLeft and TrimPrefix, of texts that begin with no blank and with the prefix.
LEMMA NothingTrimmed ==
  ASSUME NEW S, NEW s \in Seq(S), s # <<>>, s[1] \notin Blanks
  PROVE  TrimLeft(s) = s
<1> DEFINE I == {i \in 1..Len(s) : s[i] \notin Blanks}
           solid == SelectInSeq(s, LAMBDA b : b \notin Blanks)
<1>1. Len(s) \in Nat /\ Len(s) # 0
  BY LenProperties, EmptySeq
<1>2. solid = IF I # {} THEN Min(I) ELSE 0
  BY DEF SelectInSeq
<1>3. 1 \in I /\ I \subseteq Nat /\ \A i \in I : 1 <= i
  BY <1>1
<1>4. TrimLeft(s) = IF solid = 0 THEN <<>> ELSE After(solid - 1, s)
  BY DEF TrimLeft
<1> HIDE DEF I, solid
<1>5. Min(I) \in I /\ \A i \in I : Min(I) <= i
  BY <1>3, MinIn
<1>6. solid = 1
  <2>1. PICK m : m = Min(I)
    OBVIOUS
  <2>2. m \in Nat /\ m <= 1 /\ 1 <= m
    BY <1>3, <1>5, <2>1
  <2>3. m = 1
    BY <2>2
  <2> QED
    BY <1>2, <1>3, <2>1, <2>3
<1>7. TrimLeft(s) = SubSeq(s, 1, Len(s))
  <2>1. (1 - 1) + 1 = 1
    OBVIOUS
  <2> QED
    BY <1>4, <1>6, <2>1 DEF After
<1> QED
  BY <1>1, <1>7

LEMMA PrefixOff ==
  ASSUME NEW S, NEW p \in Seq(S), NEW s \in Seq(S)
  PROVE  TrimPrefix(p, p \o s) = s
<1>1. PICK w, n, m : w = p \o s /\ n = Len(p) /\ m = Len(s)
  OBVIOUS
<1>2. /\ w \in Seq(S) /\ n \in Nat /\ m \in Nat /\ Len(w) = n + m
      /\ \A i \in 1..n + m : w[i] = IF i <= n THEN p[i] ELSE s[i - n]
  BY <1>1, ConcatProperties, LenProperties
<1>3. IsPrefix(p, w)
  <2>1. Len(p) <= Len(w) /\ \A i \in 1..Len(p) : p[i] = w[i]
    BY <1>1, <1>2
  <2>2. w \in Seq(S)
    BY <1>2
  <2> QED
    BY <2>1, <2>2, PrefixIs
<1>4. PICK a : a = After(n, w)
  OBVIOUS
<1>5. a \in Seq(S) /\ Len(a) = m /\ \A i \in 1..m : a[i] = w[n + i]
  <2>1. \A j \in 1..n + m : w[j] \in S
    BY <1>2, LenProperties
  <2> QED
    <3>1. PICK k : k = n + m
      OBVIOUS
    <3>2. n \in 0..k /\ k \in Nat /\ k - n = m
      BY <1>2, <3>1
    <3>3. a \in Seq(S) /\ Len(a) = k - n /\ \A i \in 1..k - n : a[i] = w[n + i]
      BY <1>2, <1>4, <2>1, <3>1, <3>2 DEF After
    <3> QED
      BY <3>2, <3>3
<1>6. \A i \in 1..m : a[i] = s[i]
  <2>1. SUFFICES ASSUME NEW i \in 1..m PROVE a[i] = s[i]
    OBVIOUS
  <2>2. n + i \in 1..n + m /\ ~(n + i <= n) /\ (n + i) - n = i
    BY <1>2
  <2> QED
    BY <1>2, <1>5, <2>2
<1>7. a = s
  BY <1>1, <1>5, <1>6, SeqEqual
<1> QED
  BY <1>1, <1>3, <1>4, <1>7 DEF TrimPrefix

\* A text without a c at its end, if it has one there.
LEMMA TrimIs ==
  ASSUME NEW S, NEW c, NEW l \in Seq(S)
  PROVE  /\ TrimSuffix(c, l) \in Seq(S)
         /\ TrimSuffix(c, l) = l \/ Append(TrimSuffix(c, l), c) = l
<1>1. CASE l = <<>>
  BY <1>1 DEF TrimSuffix
<1>2. CASE l # <<>>
  <2>1. PICK t \in Seq(S), b \in S : l = Append(t, b)
    BY <1>2, SequenceEmptyOrAppend
  <2>2. Len(t) \in Nat /\ Len(l) = Len(t) + 1 /\ l[Len(l)] = b /\ \A i \in 1..Len(t) : l[i] = t[i]
    BY <2>1, AppendElements
  <2>3. Front(l) = t
    BY <2>2 DEF Front
  <2>4. TrimSuffix(c, l) = IF b = c THEN t ELSE l
    BY <1>2, <2>2, <2>3 DEF TrimSuffix, Last
  <2> QED
    BY <2>1, <2>4
<1> QED
  BY <1>1, <1>2
-----------------------------------------------------------------------------
(***************************************************************************)
(* Parts of texts: what trimming leaves, what is in the midst of a text,   *)
(* and that the pieces between separators are.                             *)
(***************************************************************************)
\* The part of a text that follows its first i bytes.
LEMMA AfterIs ==
  ASSUME NEW S, NEW s \in Seq(S), NEW i \in 0..Len(s)
  PROVE  /\ After(i, s) \in Seq(S) /\ Len(After(i, s)) = Len(s) - i
         /\ \A j \in 1..Len(s) - i : After(i, s)[j] = s[i + j]
<1>1. PICK n, a : n = Len(s) /\ a = After(i, s)
  OBVIOUS
<1>2. n \in Nat /\ i \in 0..n /\ \A j \in 1..n : s[j] \in S
  BY <1>1, LenProperties
<1>3. a \in Seq(S) /\ Len(a) = n - i /\ \A j \in 1..n - i : a[j] = s[i + j]
  BY <1>1, <1>2 DEF After
<1> QED
  BY <1>1, <1>3

\* TrimLeft cuts off the blanks up to the first byte that is none.
Solid(s, i) == (\A j \in 1..i : s[j] \in Blanks) /\ (i = Len(s) \/ s[i + 1] \notin Blanks)

\* Every text is trimmed on the left at some such place.
LEMMA SolidExists ==
  ASSUME NEW S, NEW s \in Seq(S)
  PROVE  \E i \in 0..Len(s) : Solid(s, i) /\ TrimLeft(s) = After(i, s)
<1> DEFINE I == {i \in 1..Len(s) : s[i] \notin Blanks}
           solid == SelectInSeq(s, LAMBDA b : b \notin Blanks)
<1>1. PICK n : n = Len(s)
  OBVIOUS
<1>2. n \in Nat
  BY <1>1, LenProperties
<1>3. solid = IF I # {} THEN Min(I) ELSE 0
  BY DEF SelectInSeq
<1>4. TrimLeft(s) = IF solid = 0 THEN <<>> ELSE After(solid - 1, s)
  BY DEF TrimLeft
<1>5. /\ I \subseteq Nat /\ \A i \in I : i \in 1..n /\ s[i] \notin Blanks
      /\ \A i \in 1..n : s[i] \notin Blanks => i \in I
  BY <1>1, <1>2
<1> HIDE DEF I, solid
<1>6. CASE I = {}
  <2>1. PICK e : e = After(n, s)
    OBVIOUS
  <2>2. n \in 0..n /\ n - n = 0
    BY <1>2
  <2>3. e \in Seq(S) /\ Len(e) = 0
    BY <1>1, <2>1, <2>2, AfterIs
  <2>4. After(n, s) = <<>>
    BY <2>1, <2>3, EmptySeq
  <2>5. Solid(s, n)
    BY <1>1, <1>5, <1>6 DEF Solid
  <2> QED
    BY <1>1, <1>3, <1>4, <1>6, <2>2, <2>4, <2>5
<1>7. CASE I # {}
  <2>1. PICK m : m = Min(I)
    OBVIOUS
  <2>2. m \in I /\ \A k \in I : m <= k
    BY <1>5, <1>7, <2>1, MinIn
  <2>3. m \in 1..n /\ s[m] \notin Blanks
    BY <1>5, <2>2
  <2>4. \A j \in 1..m - 1 : s[j] \in Blanks
    BY <1>2, <1>5, <2>2, <2>3
  <2>5. (m - 1) + 1 = m /\ m - 1 \in 0..n /\ m # 0
    BY <1>2, <2>3
  <2>6. Solid(s, m - 1)
    BY <2>3, <2>4, <2>5 DEF Solid
  <2>7. TrimLeft(s) = After(m - 1, s)
    BY <1>3, <1>4, <1>7, <2>1, <2>5
  <2> QED
    BY <1>1, <2>5, <2>6, <2>7
<1> QED
  BY <1>6, <1>7

\* There is one such place, so that is where it is trimmed.
LEMMA SolidOne ==
  ASSUME NEW S, NEW s \in Seq(S), NEW i \in 0..Len(s), Solid(s, i)
  PROVE  TrimLeft(s) = After(i, s)
<1>1. PICK k \in 0..Len(s) : Solid(s, k) /\ TrimLeft(s) = After(k, s)
  BY SolidExists
<1>2. Len(s) \in Nat
  BY LenProperties
<1>3. ~(k < i)
  <2>1. k < i => k + 1 \in 1..i /\ k # Len(s)
    BY <1>2
  <2> QED
    BY <1>1, <2>1 DEF Solid
<1>4. ~(i < k)
  <2>1. i < k => i + 1 \in 1..k /\ i # Len(s)
    BY <1>2
  <2> QED
    BY <1>1, <2>1 DEF Solid
<1>5. i = k
  BY <1>2, <1>3, <1>4
<1> QED
  BY <1>1, <1>5

\* What is trimmed on the left begins with no blank.
LEMMA LeftTrims ==
  ASSUME NEW S, NEW s \in Seq(S)
  PROVE  /\ TrimLeft(s) \in Seq(S)
         /\ TrimLeft(s) = <<>> \/ TrimLeft(s)[1] \notin Blanks
         /\ \E b \in Seq(S) : ToSet(b) \subseteq Blanks /\ s = b \o TrimLeft(s)
<1>1. PICK i \in 0..Len(s) : Solid(s, i) /\ TrimLeft(s) = After(i, s)
  BY SolidExists
<1>2. PICK n, t, b : n = Len(s) /\ t = After(i, s) /\ b = SubSeq(s, 1, i)
  OBVIOUS
<1>3. n \in Nat /\ i \in 0..n /\ \A j \in 1..n : s[j] \in S
  BY <1>2, LenProperties
<1>4. t \in Seq(S) /\ Len(t) = n - i /\ \A j \in 1..n - i : t[j] = s[i + j]
  BY <1>2, AfterIs
<1>5. b \in Seq(S) /\ s = b \o t
  BY <1>2, CutAt
<1>6. Len(b) = i /\ \A j \in 1..i : b[j] = s[j]
  BY <1>2, <1>3
<1>7. ToSet(b) \subseteq Blanks
  <2>1. DOMAIN b = 1..i
    BY <1>5, <1>6, LenProperties
  <2> QED
    BY <1>1, <1>6, <2>1 DEF Solid, ToSet
<1>8. t = <<>> \/ t[1] \notin Blanks
  <2>1. CASE i = n
    <3>1. Len(t) = 0
      BY <1>3, <1>4, <2>1
    <3> QED
      BY <1>4, <3>1, EmptySeq
  <2>2. CASE i # n
    <3>1. 1 \in 1..n - i
      BY <1>3, <2>2
    <3> QED
      BY <1>1, <1>2, <1>4, <2>2, <3>1 DEF Solid
  <2> QED
    BY <2>1, <2>2
<1> QED
  BY <1>1, <1>2, <1>4, <1>5, <1>7, <1>8

\* Blanks before a text that begins with none are what is trimmed.
LEMMA LeftTrimmed ==
  ASSUME NEW S, NEW b \in Seq(S), ToSet(b) \subseteq Blanks, NEW t \in Seq(S),
         t = <<>> \/ t[1] \notin Blanks, NEW s, s = b \o t
  PROVE  TrimLeft(s) = t
<1>1. PICK n, m : n = Len(b) /\ m = Len(t)
  OBVIOUS
<1>2. /\ s \in Seq(S) /\ n \in Nat /\ m \in Nat /\ Len(s) = n + m
      /\ \A i \in 1..n + m : s[i] = IF i <= n THEN b[i] ELSE t[i - n]
  BY <1>1, ConcatProperties, LenProperties
<1>3. \A i \in 1..n : s[i] \in Blanks
  <2>1. \A i \in 1..n : b[i] \in ToSet(b)
    BY <1>1, LenProperties DEF ToSet
  <2> QED
    BY <1>2, <2>1
<1>4. n = Len(s) \/ s[n + 1] \notin Blanks
  <2>1. CASE t = <<>>
    <3>1. m = 0
      BY <1>1, <2>1, EmptySeq
    <3> QED
      BY <1>2, <3>1
  <2>2. CASE t # <<>>
    <3>1. m # 0
      BY <1>1, <2>2, EmptySeq
    <3>2. n + 1 \in 1..n + m /\ ~(n + 1 <= n) /\ (n + 1) - n = 1
      BY <1>2, <3>1
    <3> QED
      BY <1>2, <2>2, <3>2
  <2> QED
    BY <2>1, <2>2
<1>5. TrimLeft(s) = After(n, s)
  <2>1. n \in 0..Len(s) /\ Solid(s, n)
    BY <1>2, <1>3, <1>4 DEF Solid
  <2> QED
    BY <1>2, <2>1, SolidOne
<1>6. PICK a : a = After(n, s)
  OBVIOUS
<1>7. a \in Seq(S) /\ Len(a) = m /\ \A j \in 1..m : a[j] = s[n + j]
  <2>1. n \in 0..Len(s) /\ Len(s) - n = m
    BY <1>2
  <2>2. a \in Seq(S) /\ Len(a) = Len(s) - n /\ \A j \in 1..Len(s) - n : a[j] = s[n + j]
    BY <1>2, <1>6, <2>1, AfterIs
  <2> QED
    BY <2>1, <2>2
<1>8. \A j \in 1..m : a[j] = t[j]
  <2>1. SUFFICES ASSUME NEW j \in 1..m PROVE a[j] = t[j]
    OBVIOUS
  <2>2. n + j \in 1..n + m /\ ~(n + j <= n) /\ (n + j) - n = j
    BY <1>2
  <2> QED
    BY <1>2, <1>7, <2>2
<1>9. a = t
  BY <1>1, <1>7, <1>8, SeqEqual
<1> QED
  BY <1>5, <1>6, <1>9

\* A prefix that is cut off, or is not there.
LEMMA PrefixCut ==
  ASSUME NEW S, NEW p \in Seq(S), NEW s \in Seq(S)
  PROVE  /\ TrimPrefix(p, s) \in Seq(S)
         /\ TrimPrefix(p, s) = s \/ s = p \o TrimPrefix(p, s)
<1>1. CASE IsPrefix(p, s)
  <2>1. Len(p) <= Len(s) /\ \A j \in 1..Len(p) : p[j] = s[j]
    BY <1>1, PrefixIs
  <2>2. PICK n, a, q : n = Len(p) /\ a = After(n, s) /\ q = SubSeq(s, 1, n)
    OBVIOUS
  <2>3. n \in 0..Len(s) /\ \A j \in 1..Len(s) : s[j] \in S
    BY <2>1, <2>2, LenProperties
  <2>4. q \in Seq(S) /\ a \in Seq(S) /\ Len(q) = n /\ q \o a = s
    BY <2>2, <2>3, CutAt
  <2>5. \A j \in 1..n : q[j] = s[j]
    BY <2>2, <2>3
  <2>6. q = p
    BY <2>1, <2>2, <2>4, <2>5, SeqEqual
  <2> QED
    BY <1>1, <2>2, <2>4, <2>6 DEF TrimPrefix
<1>2. CASE ~IsPrefix(p, s)
  BY <1>2 DEF TrimPrefix
<1> QED
  BY <1>1, <1>2

\* A text that begins otherwise has no prefix to cut off.
LEMMA PrefixStays ==
  ASSUME NEW S, NEW p \in Seq(S), NEW s \in Seq(S), p # <<>>, s = <<>> \/ s[1] # p[1]
  PROVE  TrimPrefix(p, s) = s
<1>1. Len(p) \in Nat \ {0}
  BY EmptySeq
<1>2. ~IsPrefix(p, s)
  <2>1. SUFFICES ASSUME Len(p) <= Len(s), \A j \in 1..Len(p) : p[j] = s[j] PROVE FALSE
    BY PrefixIs
  <2>2. 1 \in 1..Len(p) /\ Len(s) # 0
    BY <1>1, <2>1
  <2>3. s # <<>>
    BY <2>2, EmptySeq
  <2> QED
    BY <2>1, <2>2, <2>3
<1> QED
  BY <1>2 DEF TrimPrefix

\* A text that trimming at both ends leaves as it is.
LEMMA EndsTrimmed ==
  ASSUME NEW S, NEW w \in Seq(S)
  PROVE  w = TrimLeft(TrimRight(w)) <=> w = <<>> \/ (w[1] \notin Blanks /\ w[Len(w)] \notin Blanks)
<1> DEFINE I == {i \in 1..Len(w) : w[i] \notin Blanks}
           k == SelectLastInSeq(w, LAMBDA b : b \notin Blanks)
<1>1. PICK n : n = Len(w)
  OBVIOUS
<1>2. n \in Nat /\ \A j \in 1..n : w[j] \in S
  BY <1>1, LenProperties
<1>3. k = IF I # {} THEN Max(I) ELSE 0
  BY DEF SelectLastInSeq
<1>4. TrimRight(w) = SubSeq(w, 1, k)
  BY DEF TrimRight
<1>5. I \in SUBSET (1..n) /\ \A i \in 1..n : i \in I <=> w[i] \notin Blanks
  BY <1>1
<1> HIDE DEF I, k
<1>6. k \in 0..n /\ (k # 0 => w[k] \notin Blanks) /\ \A i \in I : i <= k
  <2>1. CASE I = {}
    BY <1>2, <1>3, <2>1
  <2>2. CASE I # {}
    <3>1. PICK m : m = Max(I)
      OBVIOUS
    <3>2. m \in I /\ \A i \in I : i <= m
      BY <1>2, <1>5, <2>2, <3>1, MaxIn
    <3>3. m \in 1..n /\ w[m] \notin Blanks
      BY <1>5, <3>2
    <3> QED
      BY <1>3, <2>2, <3>1, <3>2, <3>3
  <2> QED
    BY <2>1, <2>2
<1>7. PICK r : r = SubSeq(w, 1, k)
  OBVIOUS
<1>8. r \in Seq(S) /\ Len(r) = k
  BY <1>2, <1>6, <1>7
<1>9. PICK t : t = TrimLeft(r)
  OBVIOUS
<1>10. t \in Seq(S) /\ Len(t) <= k /\ (t = <<>> \/ t[1] \notin Blanks)
  <2>1. PICK b \in Seq(S) : r = b \o t
    BY <1>8, <1>9, LeftTrims
  <2>2. t \in Seq(S) /\ (t = <<>> \/ t[1] \notin Blanks)
    BY <1>8, <1>9, LeftTrims
  <2>3. Len(r) = Len(b) + Len(t) /\ Len(b) \in Nat /\ Len(t) \in Nat
    BY <2>1, <2>2, ConcatProperties, LenProperties
  <2> QED
    BY <1>8, <2>2, <2>3
<1>11. ASSUME w = t PROVE w = <<>> \/ (w[1] \notin Blanks /\ w[n] \notin Blanks)
  <2>1. k = n
    BY <1>1, <1>6, <1>10, <1>11
  <2>2. n = 0 => w = <<>>
    BY <1>1, EmptySeq
  <2> QED
    BY <1>6, <1>10, <1>11, <2>1, <2>2
<1>12. ASSUME w = <<>> PROVE w = t
  <2>1. n = 0
    BY <1>1, <1>12, EmptySeq
  <2>2. k = 0
    BY <1>6, <2>1
  <2>3. Len(t) = 0
    BY <1>10, <2>2, LenProperties
  <2> QED
    BY <1>10, <1>12, <2>3, EmptySeq
<1>13. ASSUME w # <<>>, w[1] \notin Blanks, w[n] \notin Blanks PROVE w = t
  <2>1. n # 0
    BY <1>1, <1>13, EmptySeq
  <2>2. n \in I
    BY <1>2, <1>5, <1>13, <2>1
  <2>3. k = n
    BY <1>2, <1>6, <2>2
  <2>4. r = w
    BY <1>1, <1>7, <2>3, SubSeqFull
  <2>5. TrimLeft(w) = w
    BY <1>13, NothingTrimmed
  <2> QED
    BY <1>9, <2>4, <2>5
<1> QED
  BY <1>1, <1>4, <1>7, <1>9, <1>11, <1>12, <1>13

\* A text that ends with no blank is not trimmed on the right.
LEMMA RightTrimmed ==
  ASSUME NEW S, NEW w \in Seq(S), w # <<>>, w[Len(w)] \notin Blanks
  PROVE  TrimRight(w) = w
<1> DEFINE I == {i \in 1..Len(w) : w[i] \notin Blanks}
           k == SelectLastInSeq(w, LAMBDA b : b \notin Blanks)
<1>1. PICK n : n = Len(w)
  OBVIOUS
<1>2. n \in Nat \ {0}
  BY <1>1, EmptySeq
<1>3. k = IF I # {} THEN Max(I) ELSE 0
  BY DEF SelectLastInSeq
<1>4. TrimRight(w) = SubSeq(w, 1, k)
  BY DEF TrimRight
<1>5. I \in SUBSET (1..n) /\ n \in I
  BY <1>1, <1>2
<1> HIDE DEF I, k
<1>6. PICK m : m = Max(I)
  OBVIOUS
<1>7. m \in I /\ \A i \in I : i <= m
  BY <1>2, <1>5, <1>6, MaxIn
<1>8. m = n
  BY <1>2, <1>5, <1>7
<1>9. k = n
  BY <1>3, <1>5, <1>6, <1>8
<1> QED
  BY <1>1, <1>4, <1>9, SubSeqFull

\* A text and one of its bytes, with what is on either side.
Around(i, s) == s = Before(i, s) \o (<<s[i]>> \o After(i, s))

\* A text is what is before one of its bytes, that byte, and what is after.
LEMMA CutAround ==
  ASSUME NEW S, NEW s \in Seq(S), NEW i \in 1..Len(s)
  PROVE  /\ Before(i, s) \in Seq(S) /\ Len(Before(i, s)) = i - 1
         /\ After(i, s) \in Seq(S) /\ s[i] \in S /\ Around(i, s)
         /\ \A j \in 1..i - 1 : Before(i, s)[j] = s[j]
<1>1. PICK n, h, a, b, x : n = Len(s) /\ h = i - 1 /\ b = Before(i, s) /\ a = After(i, s) /\ x = s[i]
  OBVIOUS
<1>2. n \in Nat /\ h \in 0..n /\ i \in 1..n /\ i = h + 1 /\ \A j \in 1..n : s[j] \in S
  BY <1>1, LenProperties
<1>3. b = SubSeq(s, 1, h)
  BY <1>1 DEF Before
<1>4. b \in Seq(S) /\ Len(b) = h /\ \A j \in 1..h : b[j] = s[j]
  BY <1>2, <1>3
<1>5. a \in Seq(S) /\ x \in S
  <2>1. i \in 0..n
    BY <1>2
  <2> QED
    BY <1>1, <1>2, <2>1, AfterIs
<1>7. s = b \o SubSeq(s, i, n)
  <2>1. After(h, s) = SubSeq(s, i, n)
    BY <1>1, <1>2 DEF After
  <2>2. SubSeq(s, 1, h) \o After(h, s) = s
    BY <1>1, <1>2, CutAt
  <2> QED
    BY <1>3, <2>1, <2>2
<1>8. SubSeq(s, i, n) = <<x>> \o a
  <2>1. i \in 1..Len(s) /\ n \in i..Len(s)
    BY <1>1, <1>2
  <2>2. SubSeq(s, i, n) = <<s[i]>> \o SubSeq(s, i + 1, n)
    BY <2>1, SubSeqRecursiveFirst
  <2> QED
    BY <1>1, <2>2 DEF After
<1> QED
  BY <1>1, <1>4, <1>5, <1>7, <1>8 DEF Around

\* A text begins as its first part does and ends as its last.
LEMMA ConcatEnds ==
  ASSUME NEW S, NEW s \in Seq(S), NEW t \in Seq(S)
  PROVE  /\ s # <<>> => s \o t # <<>> /\ (s \o t)[1] = s[1]
         /\ t # <<>> => s \o t # <<>> /\ (s \o t)[Len(s \o t)] = t[Len(t)]
<1>1. PICK n, m, w : n = Len(s) /\ m = Len(t) /\ w = s \o t
  OBVIOUS
<1>2. /\ w \in Seq(S) /\ n \in Nat /\ m \in Nat /\ Len(w) = n + m
      /\ \A i \in 1..n + m : w[i] = IF i <= n THEN s[i] ELSE t[i - n]
  BY <1>1, ConcatProperties, LenProperties
<1>3. (s # <<>> => n # 0) /\ (t # <<>> => m # 0) /\ (w = <<>> => n + m = 0)
  BY <1>1, <1>2, EmptySeq
<1>4. s # <<>> => w # <<>> /\ w[1] = s[1]
  BY <1>2, <1>3
<1>5. ASSUME t # <<>> PROVE w # <<>> /\ w[n + m] = t[m]
  <2>1. m # 0 /\ n + m \in 1..n + m /\ ~(n + m <= n) /\ (n + m) - n = m
    BY <1>2, <1>3, <1>5
  <2> QED
    BY <1>2, <1>3, <2>1
<1> QED
  BY <1>1, <1>2, <1>4, <1>5

\* What a text ends with, where the parser and the properties look.
LEMMA TextEnds ==
  ASSUME NEW S, NEW s \in Seq(S), s # <<>>
  PROVE  /\ Len(s) \in Nat \ {0} /\ Head(s) = s[1] /\ Last(s) = s[Len(s)]
         /\ s[1] \in ToSet(s) /\ s[Len(s)] \in ToSet(s)
<1>1. Len(s) \in Nat \ {0} /\ DOMAIN s = 1..Len(s)
  BY EmptySeq, LenProperties
<1>2. 1 \in DOMAIN s /\ Len(s) \in DOMAIN s
  BY <1>1
<1>3. Head(s) = s[1]
  OBVIOUS
<1> QED
  BY <1>1, <1>2, <1>3 DEF Last, ToSet

\* A text put together and cut there again is its parts.
LEMMA CutConcat ==
  ASSUME NEW S, NEW s \in Seq(S), NEW t \in Seq(S)
  PROVE  SubSeq(s \o t, 1, Len(s)) = s /\ After(Len(s), s \o t) = t
<1>1. PICK n, m, w : n = Len(s) /\ m = Len(t) /\ w = s \o t
  OBVIOUS
<1>2. /\ w \in Seq(S) /\ n \in Nat /\ m \in Nat /\ Len(w) = n + m
      /\ \A i \in 1..n + m : w[i] = IF i <= n THEN s[i] ELSE t[i - n]
  BY <1>1, ConcatProperties, LenProperties
<1>3. PICK a, b : a = SubSeq(w, 1, n) /\ b = After(n, w)
  OBVIOUS
<1>4. n \in 0..Len(w) /\ Len(w) - n = m
  BY <1>2
<1>5. a \in Seq(S) /\ Len(a) = n /\ a \o b = w
  BY <1>2, <1>3, <1>4, CutAt
<1>6. b \in Seq(S) /\ Len(b) = m /\ \A j \in 1..m : b[j] = w[n + j]
  BY <1>2, <1>3, <1>4, AfterIs
<1>7. \A j \in 1..n : a[j] = w[j]
  <2>1. \A j \in 1..n + m : w[j] \in S
    BY <1>2, LenProperties
  <2> QED
    BY <1>2, <1>3, <2>1
<1>8. \A j \in 1..n : a[j] = s[j]
  BY <1>2, <1>7
<1>9. \A j \in 1..m : b[j] = t[j]
  <2>1. SUFFICES ASSUME NEW j \in 1..m PROVE b[j] = t[j]
    OBVIOUS
  <2>2. n + j \in 1..n + m /\ ~(n + j <= n) /\ (n + j) - n = j
    BY <1>2
  <2> QED
    BY <1>2, <1>6, <2>2
<1>10. a = s
  BY <1>1, <1>5, <1>8, SeqEqual
<1>11. b = t
  BY <1>1, <1>6, <1>9, SeqEqual
<1> QED
  BY <1>1, <1>3, <1>10, <1>11

Amid(x, v, y, s) == s = x \o (v \o y)

\* What is in the midst of a text is between two places of it.
LEMMA AmidAt ==
  ASSUME NEW S, NEW x \in Seq(S), NEW v \in Seq(S), NEW y \in Seq(S), NEW s, Amid(x, v, y, s)
  PROVE  /\ s \in Seq(S) /\ Len(s) = Len(x) + (Len(v) + Len(y))
         /\ SubSeq(s, 1, Len(x)) = x /\ SubSeq(s, Len(x) + 1, Len(x) + Len(v)) = v
         /\ \A j : j = Len(x) + Len(v) => After(j, s) = y
<1>1. PICK n, m, k, t : n = Len(x) /\ m = Len(v) /\ k = Len(y) /\ t = v \o y
  OBVIOUS
<1>2. n \in Nat /\ m \in Nat /\ k \in Nat
  BY <1>1, LenProperties
<1>3. t \in Seq(S) /\ Len(t) = m + k
  BY <1>1, ConcatProperties
<1>4. s = x \o t
  BY <1>1 DEF Amid
<1>5. s \in Seq(S) /\ Len(s) = n + (m + k)
  BY <1>1, <1>3, <1>4, ConcatProperties
<1>6. SubSeq(s, 1, n) = x /\ After(n, s) = t
  BY <1>1, <1>3, <1>4, CutConcat
<1>7. PICK xv : xv = x \o v
  OBVIOUS
<1>8. xv \in Seq(S) /\ Len(xv) = n + m /\ s = xv \o y
  <2>1. Regrouped(x, v, y)
    BY ConcatRegroup
  <2> QED
    BY <1>1, <1>4, <1>7, <2>1, ConcatProperties DEF Regrouped
<1>9. SubSeq(s, 1, n + m) = xv /\ After(n + m, s) = y
  BY <1>8, CutConcat
<1>10. SubSeq(s, n + 1, n + m) = v
  <2>1. CASE m = 0
    <3>1. v = <<>>
      BY <1>1, <2>1, EmptySeq
    <3>2. n + 1 \in Int /\ n + m \in Int /\ n + m < n + 1
      BY <1>2, <2>1
    <3> QED
      BY <3>1, <3>2, SubSeqEmpty
  <2>2. CASE m # 0
    <3>1. PICK i, j : i = n + 1 /\ j = n + m
      OBVIOUS
    <3>2. i \in n + 1..n + m /\ j \in n + 1..n + m /\ i - n = 1 /\ j - n = m
      BY <1>2, <2>2, <3>1
    <3>3. SubSeq(x \o v, i, j) = SubSeq(v, i - n, j - n)
      BY <1>1, <3>2, SubSeqOfConcat2
    <3>4. SubSeq(xv, i, j) = v
      BY <1>1, <1>7, <3>2, <3>3, SubSeqFull
    <3>5. i \in 1..Len(xv) /\ j \in 1..Len(xv)
      BY <1>2, <1>8, <3>2
    <3>6. SubSeq(xv \o y, i, j) = SubSeq(xv, i, j)
      BY <1>8, <3>5, SubSeqOfConcat1
    <3> QED
      BY <1>8, <3>1, <3>4, <3>6
  <2> QED
    BY <2>1, <2>2
<1> QED
  BY <1>1, <1>5, <1>6, <1>9, <1>10

\* An element of a text, and what is before and after it.
Single(o) == Len(o) = 1

\* Such an element is at the place after what is before it.
LEMMA AmidOne ==
  ASSUME NEW S, NEW o \in Seq(S), Single(o), NEW x \in Seq(S), NEW y \in Seq(S), NEW s, Amid(x, o, y, s)
  PROVE  /\ Len(x) + 1 \in 1..Len(s) /\ s[Len(x) + 1] = o[1]
         /\ Before(Len(x) + 1, s) = x /\ After(Len(x) + 1, s) = y
<1>1. PICK n, k, c : n = Len(x) /\ k = Len(y) /\ c = o[1]
  OBVIOUS
<1>2. n \in Nat /\ k \in Nat
  BY <1>1, LenProperties
<1>3. o \in Seq(S) /\ Len(o) = 1 /\ o[1] = c
  BY <1>1 DEF Single
<1>5. s \in Seq(S) /\ Len(s) = n + (1 + k) /\ SubSeq(s, 1, n) = x /\ After(n + 1, s) = y
  <2>1. /\ s \in Seq(S) /\ Len(s) = Len(x) + (Len(o) + Len(y))
        /\ SubSeq(s, 1, Len(x)) = x
    BY AmidAt
  <2>5. \A j : j = Len(x) + Len(o) => After(j, s) = y
    BY AmidAt
  <2>2. PICK j : j = n + 1
    OBVIOUS
  <2>3. j = Len(x) + Len(o)
    BY <1>1, <1>3, <2>2
  <2>4. After(j, s) = y
    BY <2>5, <2>3
  <2> QED
    BY <1>1, <1>3, <2>1, <2>2, <2>4
<1>6. PICK t : t = o \o y
  OBVIOUS
<1>7. t \in Seq(S) /\ Len(t) = 1 + k /\ t[1] = c
  <2>1. t \in Seq(S) /\ Len(t) = 1 + k /\ \A i \in 1..1 + k : t[i] = IF i <= 1 THEN o[i] ELSE y[i - 1]
    <3>1. t \in Seq(S) /\ Len(t) = Len(o) + Len(y) /\ \A i \in 1..Len(o) + Len(y) : t[i] = IF i <= Len(o) THEN o[i] ELSE y[i - Len(o)]
      BY <1>3, <1>6, ConcatProperties
    <3> QED
      BY <1>1, <1>3, <3>1
  <2> QED
    BY <1>2, <1>3, <2>1
<1>8. s[n + 1] = c
  <2>1. \A i \in 1..n + (1 + k) : s[i] = IF i <= n THEN x[i] ELSE t[i - n]
    <3>1. s = x \o t
      BY <1>6 DEF Amid
    <3> QED
      BY <1>1, <1>7, <3>1, ConcatProperties
  <2>2. n + 1 \in 1..n + (1 + k) /\ ~(n + 1 <= n) /\ (n + 1) - n = 1
    BY <1>2
  <2> QED
    BY <1>7, <2>1, <2>2
<1>9. (n + 1) - 1 = n /\ n + 1 \in 1..Len(s)
  BY <1>2, <1>5
<1> QED
  BY <1>1, <1>5, <1>8, <1>9 DEF Before

\* What is in the midst of a part of a text is in the midst of the text.
LEMMA AmidAmid ==
  ASSUME NEW S, NEW x \in Seq(S), NEW a \in Seq(S), NEW y \in Seq(S), NEW s, Amid(x, a, y, s),
         NEW b \in Seq(S), NEW v \in Seq(S), NEW c \in Seq(S), Amid(b, v, c, a)
  PROVE  x \o b \in Seq(S) /\ c \o y \in Seq(S) /\ Amid(x \o b, v, c \o y, s)
<1>1. PICK vc, cy, m : vc = v \o c /\ cy = c \o y /\ m = v \o cy
  OBVIOUS
<1>2. vc \in Seq(S) /\ cy \in Seq(S)
  BY <1>1, ConcatIn
<1>3. m \in Seq(S)
  BY <1>1, <1>2, ConcatIn
<1>4. s = x \o (a \o y) /\ a = b \o vc
  BY <1>1 DEF Amid
<1>5. a \o y = b \o (vc \o y)
  <2>1. Regrouped(b, vc, y)
    BY <1>2, ConcatRegroup
  <2> QED
    BY <1>4, <2>1 DEF Regrouped
<1>6. vc \o y = m
  <2>1. Regrouped(v, c, y)
    BY ConcatRegroup
  <2> QED
    BY <1>1, <2>1 DEF Regrouped
<1>7. s = (x \o b) \o m
  <2>1. Regrouped(x, b, m)
    BY <1>3, ConcatRegroup
  <2> QED
    BY <1>4, <1>5, <1>6, <2>1 DEF Regrouped
<1>8. x \o b \in Seq(S)
  BY ConcatIn
<1> QED
  BY <1>1, <1>2, <1>7, <1>8 DEF Amid

\* What is in the midst of a text is a part of it.
LEMMA AmidPart ==
  ASSUME NEW S, NEW x \in Seq(S), NEW v \in Seq(S), NEW y \in Seq(S), NEW s, Amid(x, v, y, s), s # <<>>
  PROVE  \E i \in 1..Len(s) : \E j \in i - 1..Len(s) : v = SubSeq(s, i, j)
<1>1. PICK n, m, k : n = Len(x) /\ m = Len(v) /\ k = Len(s)
  OBVIOUS
<1>2. n \in Nat /\ m \in Nat /\ Len(y) \in Nat
  BY <1>1, LenProperties
<1>3. s \in Seq(S) /\ k = n + (m + Len(y)) /\ SubSeq(s, n + 1, n + m) = v
  <2>1. s \in Seq(S) /\ Len(s) = Len(x) + (Len(v) + Len(y))
    BY AmidAt
  <2>2. SubSeq(s, Len(x) + 1, Len(x) + Len(v)) = v
    BY AmidAt
  <2> QED
    BY <1>1, <2>1, <2>2
<1>4. k # 0
  BY <1>1, <1>3, EmptySeq
<1>5. CASE m = 0
  <2>1. v = <<>>
    BY <1>1, <1>5, EmptySeq
  <2>2. SubSeq(s, 1, 0) = <<>>
    BY SubSeqEmpty
  <2>3. 1 \in 1..k /\ 0 \in 1 - 1..k
    BY <1>2, <1>3, <1>4
  <2> QED
    BY <1>1, <2>1, <2>2, <2>3
<1>6. CASE m # 0
  <2>1. PICK i, j : i = n + 1 /\ j = n + m
    OBVIOUS
  <2>2. i \in 1..k /\ j \in i - 1..k
    BY <1>2, <1>3, <1>6, <2>1
  <2>3. v = SubSeq(s, i, j)
    BY <1>3, <2>1
  <2> QED
    BY <1>1, <2>2, <2>3
<1> QED
  BY <1>5, <1>6

\* The same, when where the parts are does not matter.
LEMMA AmidWithin ==
  ASSUME NEW S, NEW a \in Seq(S), NEW s, \E x, y \in Seq(S) : Amid(x, a, y, s),
         NEW v \in Seq(S), \E b, c \in Seq(S) : Amid(b, v, c, a)
  PROVE  \E x, y \in Seq(S) : Amid(x, v, y, s)
<1>1. PICK x \in Seq(S), y \in Seq(S) : Amid(x, a, y, s)
  OBVIOUS
<1>2. PICK b \in Seq(S), c \in Seq(S) : Amid(b, v, c, a)
  OBVIOUS
<1>3. x \o b \in Seq(S) /\ c \o y \in Seq(S) /\ Amid(x \o b, v, c \o y, s)
  BY <1>1, <1>2, AmidAmid
<1> QED
  BY <1>3

\* The pieces of a text are parts of it, and the last one ends it.
InPieces(S, c, s) ==
  LET p == Split(c, s) IN
  /\ \A v \in ToSet(p) : \E x, y \in Seq(S) : Amid(x, v, y, s)
  /\ \E x \in Seq(S) : Amid(x, p[Len(p)], <<>>, s)

\* A part of a text is one of a longer text.
LEMMA AmidLonger ==
  ASSUME NEW S, NEW x \in Seq(S), NEW v \in Seq(S), NEW y \in Seq(S), NEW s, Amid(x, v, y, s), NEW b \in S
  PROVE  Amid(x, v, Append(y, b), Append(s, b))
<1>1. PICK t, u : t = v \o y /\ u = Append(y, b)
  OBVIOUS
<1>2. t \in Seq(S) /\ s = x \o t
  BY <1>1, ConcatIn DEF Amid
<1>3. Longer(v, y, b) /\ Longer(x, t, b)
  BY <1>2, ConcatAppend
<1> QED
  BY <1>1, <1>2, <1>3 DEF Amid, Longer

\* One byte more, and the pieces are still parts.
LEMMA PiecesNext ==
  ASSUME NEW S, NEW c, NEW s \in Seq(S), NEW b \in S, InPieces(S, c, s)
  PROVE  InPieces(S, c, Append(s, b))
<1>1. PICK p, t, e, q : p = Split(c, s) /\ t = Append(s, b) /\ e = <<>> /\ q = Split(c, t)
  OBVIOUS
<1>2. p \in Seq(Seq(S)) /\ p # <<>>
  BY <1>1, SplitType DEF Pieces
<1>3. PICK n : n = Len(p)
  OBVIOUS
<1>4. n \in Nat \ {0} /\ DOMAIN p = 1..n /\ \A i \in 1..n : p[i] \in Seq(S)
  BY <1>2, <1>3, EmptySeq, LenProperties
<1>5. t \in Seq(S) /\ e \in Seq(S)
  BY <1>1, AppendProperties, EmptySeq
<1>6. \A v \in ToSet(p) : \E x, y \in Seq(S) : Amid(x, v, y, s)
  BY <1>1 DEF InPieces
<1>7. PICK x \in Seq(S) : Amid(x, p[n], e, s)
  BY <1>1, <1>3 DEF InPieces
<1>8. ASSUME NEW v \in ToSet(p) PROVE \E x1, y \in Seq(S) : Amid(x1, v, y, t)
  <2>1. PICK x1 \in Seq(S), y \in Seq(S) : Amid(x1, v, y, s)
    BY <1>6
  <2>2. v \in Seq(S)
    BY <1>4 DEF ToSet
  <2>3. Amid(x1, v, Append(y, b), t)
    BY <1>1, <2>1, <2>2, AmidLonger
  <2>4. Append(y, b) \in Seq(S)
    BY AppendProperties
  <2> QED
    BY <2>3, <2>4
<1>9. q = IF b = c THEN Append(p, e) ELSE [p EXCEPT ![n] = Append(@, b)]
  BY <1>1, <1>3, SplitNext DEF SplitsNext
<1>10. CASE b = c
  <2>1. q = Append(p, e)
    BY <1>9, <1>10
  <2>2. Len(q) = n + 1 /\ q[n + 1] = e /\ ToSet(q) = ToSet(p) \union {e}
    BY <1>2, <1>3, <1>5, <2>1, AppendElements, AppendSet
  <2>3. Amid(t, e, e, t)
    <3>1. e \o e = e /\ t \o e = t
      BY <1>1, <1>5, ConcatEmptySeq
    <3> QED
      BY <3>1 DEF Amid
  <2> QED
    BY <1>1, <1>5, <1>8, <2>2, <2>3 DEF InPieces
<1>11. CASE b # c
  <2>1. PICK v, w : v = p[n] /\ w = Append(v, b)
    OBVIOUS
  <2>2. q = [p EXCEPT ![n] = w]
    BY <1>9, <1>11, <2>1
  <2>3. v \in Seq(S) /\ w \in Seq(S)
    BY <1>4, <2>1, AppendProperties
  <2>4. q \in Seq(Seq(S)) /\ Len(q) = n /\ q[n] = w /\ DOMAIN q = 1..n /\ \A i \in 1..n : q[i] = w \/ q[i] = p[i]
    BY <1>2, <1>3, <1>4, <2>2, <2>3, ExceptSeq
  <2>5. Amid(x, w, e, t)
    <3>1. \A u \in Seq(S) : u \o e = u
      BY <1>1, ConcatEmptySeq
    <3>2. s = x \o v
      BY <1>7, <2>1, <2>3, <3>1 DEF Amid
    <3>3. Longer(x, v, b)
      BY <2>3, ConcatAppend
    <3> QED
      BY <1>1, <2>1, <2>3, <3>1, <3>2, <3>3 DEF Amid, Longer
  <2>6. ASSUME NEW u \in ToSet(q) PROVE u = w \/ u \in ToSet(p)
    BY <1>4, <2>4 DEF ToSet
  <2>7. \A u \in ToSet(q) : \E x1, y \in Seq(S) : Amid(x1, u, y, t)
    BY <1>5, <1>8, <2>5, <2>6
  <2> QED
    BY <1>1, <2>4, <2>5, <2>7 DEF InPieces
<1> QED
  BY <1>10, <1>11

\* Every piece of a text is a part of it.
LEMMA PiecesAmid ==
  ASSUME NEW S, NEW c, NEW s \in Seq(S), NEW v \in ToSet(Split(c, s))
  PROVE  v \in Seq(S) /\ \E x, y \in Seq(S) : Amid(x, v, y, s)
<1> DEFINE T == {t \in Seq(S) : InPieces(S, c, t)}
<1>1. InPieces(S, c, <<>>)
  <2>1. PICK e : e = <<>>
    OBVIOUS
  <2>2. e \in Seq(S) /\ Split(c, <<>>) = <<e>> /\ e \o e = e
    BY <2>1, EmptySeq, SplitEmpty, ConcatEmptySeq
  <2>3. Len(<<e>>) = 1 /\ <<e>>[1] = e /\ ToSet(<<e>>) = {e}
    BY DEF ToSet
  <2>4. Amid(e, e, e, e)
    BY <2>2 DEF Amid
  <2> QED
    BY <2>1, <2>2, <2>3, <2>4 DEF InPieces
<1>2. <<>> \in T
  BY <1>1, EmptySeq
<1>3. ASSUME NEW t \in Seq(S), NEW b \in S, t \in T PROVE Append(t, b) \in T
  BY <1>3, PiecesNext, AppendProperties
<1> HIDE DEF T
<1>4. Seq(S) \subseteq T
  BY <1>2, <1>3, SequenceInduction
<1>5. InPieces(S, c, s)
  BY <1>4 DEF T
<1>6. v \in Seq(S)
  <2>1. Split(c, s) \in Seq(Seq(S))
    BY SplitType DEF Pieces
  <2> QED
    BY <2>1, TextElements
<1> QED
  BY <1>5, <1>6 DEF InPieces
=============================================================================
