----------------------------- MODULE SequenceFacts -----------------------------
(***************************************************************************)
(* Lemmas about sequences, for the proofs of the modules that have them:   *)
(* what a queue is after one of its elements was removed, which element a  *)
(* scan for the least finds, and where the rows of an unrolled loop are,   *)
(* however often it goes round.  FlattenSeq is a recursive function: that  *)
(* it is defined is shown by the least number of rounds for which it would *)
(* not be.                                                                 *)
(***************************************************************************)
EXTENDS Integers, Sequences, SequencesExt, SequenceTheorems, WellFoundedInduction, TLAPS

-----------------------------------------------------------------------------
(*                            The least element                            *)

(* Any set of naturals with an element has a least one.                    *)
LEMMA LeastNatural ==
    ASSUME NEW T, T \subseteq Nat, T # {}
    PROVE  \E x \in T : \A y \in T : x <= y
<1>1. PICK x \in T : \A y \in T : ~(<<y, x>> \in OpToRel(<, Nat))
  BY NatLessThanWellFounded, WFMin
<1>2. ASSUME NEW y \in T
      PROVE  x <= y
  <2>1. y < x => <<y, x>> \in OpToRel(<, Nat)
    BY DEF OpToRel
  <2>2. ~(y < x)
    BY <1>1, <2>1, Zenon
  <2>3. QED
    BY <2>2
<1>3. QED
  BY <1>2

(* A scan of q for the first of the least values s below max, among the    *)
(* elements that T still has (fetch, processor.rs of chapter 5).           *)
Below(q, s, T, max) == {i \in DOMAIN q : q[i] \in T /\ s[q[i]] < max}

Precedes(q, s, i, j) == s[q[i]] < s[q[j]] \/ (s[q[i]] = s[q[j]] /\ i <= j)

FirstLeast(q, s, C) == CHOOSE i \in C : \A j \in C : Precedes(q, s, i, j)

(* It finds a position, and no element of T in q has a smaller value than  *)
(* the one there, provided that is at most max.                            *)
LEMMA LeastScanned ==
    ASSUME NEW P, NEW q \in Seq(P), q # <<>>, NEW s \in [P -> Nat], NEW T, NEW max \in Nat,
           NEW C, C = Below(q, s, T, max),
           NEW m, m = IF C = {} THEN 1 ELSE FirstLeast(q, s, C)
    PROVE  /\ m \in 1..Len(q) /\ q[m] \in P
           /\ s[q[m]] <= max => \A j \in DOMAIN q : q[j] \in T => s[q[m]] <= s[q[j]]
<1> DEFINE key(i) == s[q[i]]
           Least(i) == \A j \in C : Precedes(q, s, i, j)
<1>0. /\ DOMAIN q = 1..Len(q)
      /\ Len(q) \in Nat \ {0}
      /\ \A i \in DOMAIN q : q[i] \in P /\ key(i) \in Nat
  BY LenProperties, ElementOfSeq, EmptySeq
<1>1. CASE C = {}
  <2>1. m = 1
    BY <1>1
  <2>2. \A j \in DOMAIN q : q[j] \in T => key(j) >= max
    BY <1>0, <1>1 DEF Below
  <2>3. m \in 1..Len(q)
    BY <1>0, <2>1
  <2>4. q[m] \in P /\ key(m) \in Nat
    BY <1>0, <2>3
  <2>5. QED
    BY <1>0, <2>2, <2>3, <2>4
<1>2. CASE C # {}
  <2>1. C \subseteq DOMAIN q
    BY DEF Below
  <2>2. \E i \in C : Least(i)
    <3> DEFINE K == {key(i) : i \in C}
    <3>1. K # {} /\ K \subseteq Nat
      BY <1>0, <1>2, <2>1
    <3> HIDE DEF K
    <3>2. PICK k \in K : \A x \in K : k <= x
      BY <3>1, LeastNatural
    <3> USE DEF K
    <3> DEFINE I == {i \in C : key(i) = k}
    <3>3. I # {} /\ I \subseteq Nat
      BY <1>0, <2>1
    <3> HIDE DEF I
    <3>4. PICK i \in I : \A x \in I : i <= x
      BY <3>3, LeastNatural
    <3> USE DEF I
    <3>5. Least(i)
      <4> SUFFICES ASSUME NEW j \in C
                   PROVE  key(i) < key(j) \/ (key(i) = key(j) /\ i <= j)
        BY DEF Precedes
      <4>1. k <= key(j) /\ k \in Nat /\ key(j) \in Nat /\ key(i) = k
        BY <3>1, <3>2
      <4>2. key(j) = k => i <= j
        BY <3>4, <3>3
      <4>3. QED
        BY <4>1, <4>2
    <3>6. QED
      BY <3>5
  <2>3. m \in C /\ Least(m)
    <3>1. m = CHOOSE i \in C : Least(i)
      BY <1>2 DEF FirstLeast
    <3> HIDE DEF Least
    <3>2. QED
      BY <2>2, <3>1
  <2>4. m \in DOMAIN q
    BY <2>1, <2>3
  <2>5. q[m] \in P /\ s[q[m]] \in Nat /\ s[q[m]] < max
    BY <1>0, <2>3, <2>4 DEF Below
  <2>6. ASSUME NEW j \in DOMAIN q, q[j] \in T
        PROVE  s[q[m]] <= key(j)
    <3> DEFINE f == s[q[m]]
               k == key(j)
    <3>1. f \in Nat /\ k \in Nat /\ f < max
      BY <1>0, <2>5
    <3>2. CASE j \in C
      <4>1. f < k \/ f = k
        BY <2>3, <3>2 DEF Precedes
      <4> HIDE DEF f, k
      <4>2. f <= k
        BY <3>1, <4>1
      <4>3. QED
        BY <4>2 DEF f, k
    <3>3. CASE j \notin C
      <4>1. ~(k < max)
        BY <2>6, <3>3 DEF Below
      <4> HIDE DEF f, k
      <4>2. f <= k
        BY <3>1, <4>1
      <4>3. QED
        BY <4>2 DEF f, k
    <3>4. QED
      BY <3>2, <3>3
  <2>7. QED
    BY <1>0, <2>4, <2>5, <2>6
<1>3. QED
  BY <1>1, <1>2

-----------------------------------------------------------------------------
(*                              Positions                                  *)

(* VecDeque::remove shortens the queue by one and keeps the others in      *)
(* their order (fetch, processor.rs of chapter 5).                         *)
LEMMA RemoveAtFacts ==
    ASSUME NEW S, NEW s \in Seq(S), NEW i \in 1..Len(s)
    PROVE  /\ RemoveAt(s, i) \in Seq(S)
           /\ Len(RemoveAt(s, i)) = Len(s) - 1
           /\ \A j \in 1..Len(s) - 1 :
                 RemoveAt(s, i)[j] = IF j < i THEN s[j] ELSE s[j + 1]
<1> DEFINE a == SubSeq(s, 1, i - 1)
           b == SubSeq(s, i + 1, Len(s))
<1>0. Len(s) \in Nat
  BY LenProperties
<1>1. /\ a \in Seq(S)
      /\ Len(a) = i - 1
      /\ \A j \in 1..i - 1 : a[j] = s[j]
  <2>1. \A j \in 1..i - 1 : s[j] \in S
    BY ElementOfSeq
  <2>2. QED
    BY <2>1, SubSeqProperties
<1>2. /\ b \in Seq(S)
      /\ Len(b) = Len(s) - i
      /\ \A j \in 1..Len(s) - i : b[j] = s[i + j]
  <2>1. \A j \in i + 1..Len(s) : s[j] \in S
    BY ElementOfSeq
  <2>2. /\ b \in Seq(S)
        /\ Len(b) = IF i + 1 <= Len(s) THEN Len(s) - (i + 1) + 1 ELSE 0
        /\ \A j \in 1..Len(s) - (i + 1) + 1 : b[j] = s[i + 1 + j - 1]
    BY <2>1, SubSeqProperties
  <2>3. QED
    BY <2>2
<1>3. /\ a \o b \in Seq(S)
      /\ Len(a \o b) = Len(a) + Len(b)
      /\ \A j \in 1..Len(a) + Len(b) :
            (a \o b)[j] = IF j <= Len(a) THEN a[j] ELSE b[j - Len(a)]
  BY <1>1, <1>2, ConcatProperties
<1>4. \A j \in 1..Len(s) - 1 : (a \o b)[j] = IF j < i THEN s[j] ELSE s[j + 1]
  <2> SUFFICES ASSUME NEW j \in 1..Len(s) - 1
               PROVE  (a \o b)[j] = IF j < i THEN s[j] ELSE s[j + 1]
    OBVIOUS
  <2> HIDE DEF a, b
  <2>1. CASE j < i
    BY <2>1, <1>0, <1>1, <1>2, <1>3
  <2>2. CASE j >= i
    <3>1. j - (i - 1) \in 1..Len(s) - i
      BY <2>2
    <3>2. b[j - (i - 1)] = s[i + (j - (i - 1))]
      BY <3>1, <1>2
    <3>3. QED
      BY <2>2, <3>2, <1>1, <1>2, <1>3
  <2>3. i \in Int /\ j \in Int
    BY <1>0
  <2>4. j < i \/ j >= i
    BY <2>3
  <2>5. QED
    BY <2>1, <2>2, <2>4
<1>5. RemoveAt(s, i) = a \o b
  BY DEF RemoveAt
<1>6. Len(s) \in Nat /\ Len(a) + Len(b) = Len(s) - 1
  <2>1. Len(a) = i - 1 /\ Len(b) = Len(s) - i
    BY <1>1, <1>2
  <2> HIDE DEF a, b
  <2>2. QED
    BY <1>0, <2>1
<1> HIDE DEF a, b
<1>7. QED
  BY <1>3, <1>4, <1>5, <1>6

(* Concatenation, position by position.                                    *)
LEMMA ConcatAt ==
    ASSUME NEW S, NEW s \in Seq(S), NEW t \in Seq(S)
    PROVE  /\ s \o t \in Seq(S) /\ Len(s \o t) = Len(s) + Len(t)
           /\ \A k \in 1..Len(s) : (s \o t)[k] = s[k]
           /\ \A k \in 1..Len(t) : (s \o t)[Len(s) + k] = t[k]
<1> DEFINE m == Len(s)
           n == Len(t)
<1>0. m \in Nat /\ n \in Nat
  OBVIOUS
<1>1. /\ s \o t \in Seq(S) /\ Len(s \o t) = m + n
      /\ \A k \in 1..m + n : (s \o t)[k] = IF k <= m THEN s[k] ELSE t[k - m]
  BY ConcatProperties
<1> HIDE DEF m, n
<1>3. ASSUME NEW k \in 1..m PROVE (s \o t)[k] = s[k]
  <2>1. k \in 1..m + n /\ k <= m
    BY <1>0
  <2>2. QED
    BY <1>1, <2>1
<1>4. ASSUME NEW k \in 1..n PROVE (s \o t)[m + k] = t[k]
  <2>1. ASSUME NEW h \in 1..m + n, h = m + k PROVE (s \o t)[h] = t[k]
    <3>1. ~(h <= m) /\ h - m = k
      BY <1>0, <2>1
    <3>2. QED
      BY <1>1, <3>1
  <2>2. m + k \in 1..m + n
    BY <1>0
  <2>3. QED
    BY <2>1, <2>2
<1>5. QED
  BY <1>1, <1>3, <1>4 DEF m, n

LEMMA ProductFacts ==
    ASSUME NEW a \in Nat, NEW b \in Nat, NEW m \in Nat
    PROVE  /\ a * m \in Nat /\ (a + 1) * m = a * m + m
           /\ a <= b => a * m <= b * m
<1>1. ASSUME a <= b PROVE a * m <= b * m
  <2>1. b - a \in Nat
    BY <1>1
  <2>2. (b - a) * m >= 0
    BY <2>1
  <2>3. (b - a) * m = b * m - a * m
    OBVIOUS
  <2>4. QED
    BY <2>2, <2>3
<1>2. QED
  BY <1>1

-----------------------------------------------------------------------------
(*                     Recursive functions on sequences                    *)

(* The first n sequences of seqs, one after the other, for each n.          *)
Flattening(f, seqs, n) ==
    f = [i \in 1..n |-> IF i = 1 THEN seqs[i] ELSE f[i - 1] \o seqs[i]]

LEMMA FlatteningExists ==
    ASSUME NEW seqs, NEW n \in Nat
    PROVE  \E f : Flattening(f, seqs, n)
<1> DEFINE Missing == {m \in Nat : ~ \E f : Flattening(f, seqs, m)}
<1> SUFFICES ASSUME Missing # {} PROVE FALSE
  OBVIOUS
<1>1. PICK m \in Missing : \A k \in Missing : m <= k
  <2>1. Missing \subseteq Nat
    OBVIOUS
  <2> HIDE DEF Missing
  <2>2. QED
    BY <2>1, LeastNatural
<1>2. CASE m = 0
  <2>1. Flattening([i \in 1..0 |-> seqs[i]], seqs, 0)
    BY DEF Flattening
  <2>2. QED
    BY <1>2, <2>1
<1>3. CASE m # 0
  <2>1. m - 1 \in Nat /\ ~(m <= m - 1)
    BY <1>3
  <2>2. PICK f : Flattening(f, seqs, m - 1)
    BY <1>1, <2>1
  <2> DEFINE last == IF m = 1 THEN seqs[m] ELSE f[m - 1] \o seqs[m]
             g == [i \in 1..m |-> IF i = m THEN last ELSE f[i]]
  <2>3. ASSUME NEW i \in 1..m
        PROVE  g[i] = IF i = 1 THEN seqs[i] ELSE g[i - 1] \o seqs[i]
    <3>1. CASE i = m
      <4>1. i # 1 => i - 1 \in 1..m /\ i - 1 # m
        BY <3>1
      <4>2. QED
        BY <3>1, <4>1
    <3>2. CASE i # m
      <4>1. i \in 1..m - 1 /\ (i # 1 => i - 1 \in 1..m /\ i - 1 # m)
        BY <3>2
      <4>2. f[i] = IF i = 1 THEN seqs[i] ELSE f[i - 1] \o seqs[i]
        BY <2>2, <4>1 DEF Flattening
      <4>3. QED
        BY <3>2, <4>1, <4>2
    <3>3. QED
      BY <3>1, <3>2
  <2>4. g = [i \in 1..m |-> g[i]]
    OBVIOUS
  <2> HIDE DEF g
  <2>5. Flattening(g, seqs, m)
    BY <2>3, <2>4 DEF Flattening
  <2>6. QED
    BY <2>5
<1>4. QED
  BY <1>2, <1>3

(* A set of sequences that is closed under concatenation has every          *)
(* unrolled loop over its members.                                         *)
LEMMA FlattenClosed ==
    ASSUME NEW C, <<>> \in C, \A s, t \in C : s \o t \in C,
           NEW n \in Nat, NEW seqs \in [1..n -> C]
    PROVE  FlattenSeq(seqs) \in C
<1>1. Len(seqs) = n
  OBVIOUS
<1>2. CASE n = 0
  <2>1. FlattenSeq(seqs) = seqs
    BY <1>1, <1>2 DEF FlattenSeq
  <2>2. seqs \in Seq(C) /\ seqs = <<>>
    BY <1>1, <1>2, EmptySeq
  <2>3. QED
    BY <2>1, <2>2
<1>3. CASE n # 0
  <2> DEFINE f == CHOOSE g : Flattening(g, seqs, n)
  <2>1. Flattening(f, seqs, n)
    BY FlatteningExists, Zenon
  <2>2. FlattenSeq(seqs) = f[n]
    BY <1>1, <1>3 DEF FlattenSeq, Flattening
  <2> HIDE DEF f
  <2> DEFINE Wrong == {m \in 1..n : f[m] \notin C}
  <2>3. ASSUME Wrong # {} PROVE FALSE
    <3>1. PICK m \in Wrong : \A k \in Wrong : m <= k
      <4>1. Wrong \subseteq Nat
        OBVIOUS
      <4> HIDE DEF Wrong
      <4>2. QED
        BY <2>3, <4>1, LeastNatural
    <3>2. f[m] = IF m = 1 THEN seqs[m] ELSE f[m - 1] \o seqs[m]
      BY <2>1, <3>1 DEF Flattening
    <3>3. m # 1 => f[m - 1] \in C
      <4>1. m # 1 => m - 1 \in 1..n /\ ~(m <= m - 1)
        BY <3>1
      <4>2. QED
        BY <3>1, <4>1
    <3>4. seqs[m] \in C
      BY <3>1
    <3>5. f[m] \in C
      BY <3>2, <3>3, <3>4
    <3>6. QED
      BY <3>1, <3>5
  <2>4. QED
    BY <1>3, <2>2, <2>3
<1>4. QED
  BY <1>2, <1>3

LEMMA FlattenTyped ==
    ASSUME NEW S, NEW n \in Nat, NEW seqs \in [1..n -> Seq(S)]
    PROVE  FlattenSeq(seqs) \in Seq(S)
<1>1. <<>> \in Seq(S) /\ \A s, t \in Seq(S) : s \o t \in Seq(S)
  BY EmptySeq, ConcatProperties
<1>2. QED
  BY <1>1, FlattenClosed

(* Sequences of a length.                                                  *)
Row(S, m) == {s \in Seq(S) : Len(s) = m}

(* seq has the n rows of length m, one after the other.                    *)
HasRows(seq, seqs, n, m) ==
    /\ Len(seq) = n * m
    /\ \A k \in 1..n, j \in 1..m : seq[(k - 1) * m + j] = seqs[k][j]

LEMMA FlattenRows ==
    ASSUME NEW S, NEW n \in Nat, NEW m \in Nat, NEW seqs \in [1..n -> Row(S, m)]
    PROVE  HasRows(FlattenSeq(seqs), seqs, n, m)
<1>0. seqs \in [1..n -> Seq(S)] /\ \A k \in 1..n : Len(seqs[k]) = m
  BY DEF Row
<1>1. Len(seqs) = n
  BY <1>0
<1>2. CASE n = 0
  <2>1. FlattenSeq(seqs) = seqs
    BY <1>1, <1>2 DEF FlattenSeq
  <2>2. QED
    BY <1>1, <1>2, <2>1 DEF HasRows
<1>3. CASE n # 0
  <2> DEFINE f == CHOOSE g : Flattening(g, seqs, n)
  <2>1. Flattening(f, seqs, n)
    BY FlatteningExists, Zenon
  <2>2. FlattenSeq(seqs) = f[n]
    BY <1>1, <1>3 DEF FlattenSeq, Flattening
  <2> HIDE DEF f
  <2> DEFINE Right(k) == /\ f[k] \in Seq(S) /\ Len(f[k]) = k * m
                         /\ \A a \in 1..k, j \in 1..m : f[k][(a - 1) * m + j] = seqs[a][j]
             Wrong == {k \in 1..n : ~Right(k)}
  <2>3. ASSUME Wrong # {} PROVE FALSE
    <3>1. PICK k \in Wrong : \A h \in Wrong : k <= h
      <4>1. Wrong \subseteq Nat
        OBVIOUS
      <4> HIDE DEF Wrong
      <4>2. QED
        BY <2>3, <4>1, LeastNatural
    <3>2. k \in 1..n /\ ~Right(k)
      BY <3>1
    <3>3. f[k] = IF k = 1 THEN seqs[k] ELSE f[k - 1] \o seqs[k]
      BY <2>1, <3>2 DEF Flattening
    <3>4. seqs[k] \in Seq(S) /\ Len(seqs[k]) = m
      BY <1>0, <3>2
    <3>5. CASE k = 1
      <4>1. f[k] = seqs[1] /\ 1 * m = m
        BY <3>3, <3>5
      <4>2. \A a \in 1..1, j \in 1..m : a = 1 /\ (a - 1) * m + j = j
        OBVIOUS
      <4>3. QED
        BY <3>2, <3>4, <3>5, <4>1, <4>2
    <3>6. CASE k # 1
      <4> DEFINE h == k - 1
      <4>1. h \in 1..n /\ h \in Nat /\ ~(k <= h) /\ h + 1 = k /\ k \in Nat
        BY <3>2, <3>6
      <4>2. Right(h)
        BY <3>1, <4>1
      <4>3. f[k] = f[h] \o seqs[k]
        BY <3>3, <3>6
      <4> HIDE DEF h
      <4> DEFINE w == h * m
      <4>4. w \in Nat /\ k * m = w + m
        BY <4>1, ProductFacts
      <4>5. Len(f[h]) = w /\ f[h] \in Seq(S)
        BY <4>2
      <4> HIDE DEF w
      <4>6. /\ f[k] \in Seq(S) /\ Len(f[k]) = w + m
            /\ \A i \in 1..w + m : f[k][i] = IF i <= w THEN f[h][i] ELSE seqs[k][i - w]
        <5> DEFINE s == f[h]
                   t == seqs[k]
        <5>1. s \in Seq(S) /\ t \in Seq(S) /\ Len(s) = w /\ Len(t) = m /\ f[k] = s \o t
          BY <3>4, <4>3, <4>5
        <5> HIDE DEF s, t
        <5>2. /\ s \o t \in Seq(S) /\ Len(s \o t) = Len(s) + Len(t)
              /\ \A i \in 1..Len(s) + Len(t) : (s \o t)[i] = IF i <= Len(s) THEN s[i] ELSE t[i - Len(s)]
          BY <5>1, ConcatProperties
        <5>3. /\ f[k] \in Seq(S) /\ Len(f[k]) = w + m
              /\ \A i \in 1..w + m : f[k][i] = IF i <= w THEN s[i] ELSE t[i - w]
          BY <5>1, <5>2
        <5>4. QED
          BY <5>3 DEF s, t
      <4>7. ASSUME NEW a \in 1..k, NEW j \in 1..m
            PROVE  f[k][(a - 1) * m + j] = seqs[a][j]
        <5>1. a - 1 \in Nat /\ a - 1 <= h /\ a - 1 + 1 = a /\ a \in Nat
          BY <4>1
        <5> DEFINE v == (a - 1) * m
        <5>2. v \in Nat /\ a * m = v + m
          BY <5>1, ProductFacts
        <5>3. CASE a = k
          <6>1. v = w
            BY <4>1, <5>3 DEF w
          <6> HIDE DEF v
          <6>2. ASSUME NEW i \in 1..w + m, i = w + j PROVE f[k][i] = seqs[k][j]
            <7>1. ~(i <= w) /\ i - w = j
              BY <4>4, <6>2
            <7>2. QED
              BY <4>6, <7>1
          <6>3. w + j \in 1..w + m
            BY <4>4
          <6>4. f[k][w + j] = seqs[k][j]
            BY <6>2, <6>3
          <6>5. QED
            BY <5>3, <6>1, <6>4 DEF v
        <5>4. CASE a # k
          <6>1. a \in 1..h
            BY <4>1, <5>4
          <6>2. f[h][v + j] = seqs[a][j]
            BY <4>2, <6>1
          <6>3. a * m <= w
            BY <4>1, <5>1, <6>1, ProductFacts DEF w
          <6> DEFINE u == a * m
          <6>4. u = v + m /\ u <= w
            BY <5>2, <6>3
          <6> HIDE DEF v, u
          <6>5. v + j \in 1..w + m /\ v + j <= w
            BY <4>4, <5>2, <6>4
          <6>6. f[k][v + j] = seqs[a][j]
            BY <4>6, <6>2, <6>5
          <6>7. QED
            BY <6>6 DEF v
        <5>5. QED
          BY <5>3, <5>4
      <4>8. QED
        BY <3>2, <4>4, <4>6, <4>7
    <3>7. QED
      BY <3>5, <3>6
  <2>4. Right(n)
    <3>1. n \in 1..n
      BY <1>3
    <3>2. QED
      BY <2>3, <3>1
  <2>5. QED
    BY <2>2, <2>4 DEF HasRows
<1>4. QED
  BY <1>2, <1>3
=============================================================================
