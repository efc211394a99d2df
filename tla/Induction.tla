------------------------------ MODULE Induction ------------------------------
(***************************************************************************)
(* Induction over natural numbers in the form the proofs use it: about     *)
(* sets, so that no operator has to be instantiated.  What a loop or a     *)
(* recursive function computes follows from these, and what FlattenSeq     *)
(* computes; and the arithmetic of positions in a ring.                    *)
(***************************************************************************)
EXTENDS Integers, Sequences, SequencesExt, SequenceTheorems, WellFoundedInduction, TLAPS

\* There is a relation that contains < and has minimal elements.
LEMMA LessHasMinimal ==
  ASSUME NEW T, T \subseteq Nat, T # {}
  PROVE  \E R : /\ \A x, y \in Nat : x < y => <<x, y>> \in R
                /\ \E x \in T : \A y \in T : ~(<<y, x>> \in R)
<1> DEFINE R == OpToRel(<, Nat)
<1>1. IsWellFoundedOn(R, Nat)
  BY NatLessThanWellFounded
<1>2. \E x \in T : \A y \in T : ~(<<y, x>> \in R)
  <2> HIDE DEF R
  <2> QED
    BY <1>1, WFMin
<1>3. \A x, y \in Nat : x < y => <<x, y>> \in R
  BY DEF OpToRel
<1> HIDE DEF R
<1> QED
  BY <1>2, <1>3, Zenon

\* Every set of natural numbers that is not empty has a least element.
LEMMA LeastNatural ==
  ASSUME NEW T, T \subseteq Nat, T # {}
  PROVE  \E n \in T : \A m \in T : n <= m
<1>1. PICK R : /\ \A x, y \in Nat : x < y => <<x, y>> \in R
               /\ \E x \in T : \A y \in T : ~(<<y, x>> \in R)
  BY LessHasMinimal
<1>2. PICK x \in T : \A y \in T : ~(<<y, x>> \in R)
  BY <1>1
<1>3. ASSUME NEW m \in T PROVE x <= m
  <2>1. ~(m < x)
    BY <1>1, <1>2
  <2> QED
    BY <2>1
<1> QED
  BY <1>3

\* Induction up to a bound: a set that contains 0 and with each number below
\* n the next one contains 0 .. n.
LEMMA CountingUp ==
  ASSUME NEW n \in Nat, NEW S, 0 \in S, \A m \in 0 .. n - 1 : m \in S => m + 1 \in S
  PROVE  \A m \in 0 .. n : m \in S
<1> DEFINE T == {m \in 0 .. n : m \notin S}
<1> SUFFICES ASSUME T # {} PROVE FALSE
  OBVIOUS
<1>1. PICK m \in T : \A k \in T : m <= k
  <2>1. T \subseteq Nat
    OBVIOUS
  <2> HIDE DEF T
  <2> QED
    BY <2>1, LeastNatural
<1>2. m - 1 \in 0 .. n - 1 /\ m - 1 \notin T
  BY <1>1
<1> QED
  BY <1>1, <1>2

\* f is what a loop of n rounds goes through that starts with b and in round i
\* applies F[i].
IsRun(f, n, X, b, F) == /\ f \in [0 .. n -> X] /\ f[0] = b
                        /\ \A i \in 1 .. n : f[i] = F[i][f[i - 1]]
HasRun(n, X, b, F) == \E f : IsRun(f, n, X, b, F)

\* Every loop of n rounds goes through some sequence of states.
LEMMA LoopRuns ==
  ASSUME NEW n \in Nat, NEW X, NEW b \in X, NEW F \in [1 .. n -> [X -> X]]
  PROVE  HasRun(n, X, b, F)
<1> DEFINE Runs(m) == \E f \in [0 .. m -> X] :
                         f[0] = b /\ \A i \in 1 .. m : f[i] = F[i][f[i - 1]]
           S == {m \in 0 .. n : Runs(m)}
<1>1. 0 \in S
  <2> DEFINE g == [i \in 0 .. 0 |-> b]
  <2>1. g \in [0 .. 0 -> X] /\ g[0] = b /\ \A i \in 1 .. 0 : g[i] = F[i][g[i - 1]]
    OBVIOUS
  <2>2. Runs(0)
    <3> HIDE DEF g
    <3> QED
      BY <2>1
  <2> QED
    BY <2>2
<1>2. ASSUME NEW m \in 0 .. n - 1, m \in S PROVE m + 1 \in S
  <2>1. PICK f \in [0 .. m -> X] : f[0] = b /\ \A i \in 1 .. m : f[i] = F[i][f[i - 1]]
    BY <1>2
  <2> DEFINE g == [i \in 0 .. m + 1 |-> IF i = m + 1 THEN F[m + 1][f[m]] ELSE f[i]]
  <2>2. g \in [0 .. m + 1 -> X]
    <3>1. m + 1 \in 1 .. n /\ m \in 0 .. m
      OBVIOUS
    <3>2. F[m + 1][f[m]] \in X
      BY <3>1
    <3> QED
      BY <3>2
  <2>3. g[0] = b
    BY <2>1
  <2>4. ASSUME NEW i \in 1 .. m + 1 PROVE g[i] = F[i][g[i - 1]]
    <3>1. CASE i = m + 1
      BY <3>1
    <3>2. CASE i # m + 1
      BY <2>1, <3>2
    <3> QED
      BY <3>1, <3>2
  <2>5. Runs(m + 1)
    <3> HIDE DEF g
    <3> QED
      BY <2>2, <2>3, <2>4
  <2> QED
    BY <2>5
<1>3. n \in S
  <2>1. n \in 0 .. n
    OBVIOUS
  <2>2. \A m \in 0 .. n - 1 : m \in S => m + 1 \in S
    BY <1>2
  <2> HIDE DEF S
  <2>3. \A m \in 0 .. n : m \in S
    BY <1>1, <2>2, CountingUp, Zenon
  <2> QED
    BY <2>1, <2>3
<1> QED
  BY <1>3 DEF HasRun, IsRun

-----------------------------------------------------------------------------
(* FlattenSeq of the community modules *)

\* f goes through the concatenations of the first 0, 1, 2, ... of the n elements
\* of ss.
Flattening(f, ss, n, Y) == /\ f \in [0 .. n -> Seq(Y)] /\ f[0] = <<>>
                           /\ \A i \in 1 .. n : f[i] = f[i - 1] \o ss[i]

\* ss is a sequence of n sequences.
IsNested(ss, n, Y) == /\ n \in Nat /\ Len(ss) = n /\ DOMAIN ss = 1 .. n
                      /\ \A i \in 1 .. n : ss[i] \in Seq(Y)

\* They exist.
LEMMA Flattens ==
  ASSUME NEW Y, NEW ss, NEW n, IsNested(ss, n, Y)
  PROVE  \E f : Flattening(f, ss, n, Y)
<1> DEFINE X == Seq(Y)
           F == [i \in 1 .. n |-> [x \in X |-> x \o ss[i]]]
<1>1. n \in Nat /\ <<>> \in X
  BY DEF IsNested
<1>2. F \in [1 .. n -> [X -> X]]
  <2>1. ASSUME NEW i \in 1 .. n, NEW x \in X PROVE x \o ss[i] \in X
    <3>1. ss[i] \in X
      BY DEF IsNested
    <3> QED
      BY <3>1
  <2> HIDE DEF X
  <2> QED
    BY <2>1
<1>3. HasRun(n, X, <<>>, F)
  <2> HIDE DEF X, F
  <2> QED
    BY <1>1, <1>2, LoopRuns
<1>4. PICK f : IsRun(f, n, X, <<>>, F)
  BY <1>3 DEF HasRun
<1>5. f \in [0 .. n -> X] /\ f[0] = <<>>
  BY <1>4 DEF IsRun
<1>6. ASSUME NEW i \in 1 .. n PROVE f[i] = f[i - 1] \o ss[i]
  <2>1. f[i] = F[i][f[i - 1]]
    <3> HIDE DEF X, F
    <3> QED
      BY <1>4 DEF IsRun
  <2>2. i - 1 \in 0 .. n
    BY <1>1
  <2>3. f[i - 1] \in X
    <3> HIDE DEF X
    <3> QED
      BY <1>5, <2>2
  <2> HIDE DEF X
  <2> QED
    BY <2>1, <2>3
<1> QED
  BY <1>5, <1>6 DEF Flattening

\* And what FlattenSeq computes is the last of them.
LEMMA FlattenIs ==
  ASSUME NEW Y, NEW ss, NEW n, IsNested(ss, n, Y), NEW f, Flattening(f, ss, n, Y)
  PROVE  FlattenSeq(ss) = f[n]
<1> DEFINE Is(h) == h = [i \in 1 .. Len(ss) |-> IF i = 1 THEN ss[i] ELSE h[i - 1] \o ss[i]]
           g == [i \in 1 .. n |-> f[i]]
           c == CHOOSE h : Is(h)
           Step(h) == \A i \in 1 .. n : h[i] = IF i = 1 THEN ss[i] ELSE h[i - 1] \o ss[i]
<1>1. n \in Nat /\ n = Len(ss)
  BY DEF IsNested
<1>2. CASE n = 0
  <2>1. f[n] = <<>>
    BY <1>2 DEF Flattening
  <2>2. ss = <<>>
    BY <1>1, <1>2 DEF IsNested
  <2> QED
    BY <1>2, <2>1, <2>2 DEF FlattenSeq
<1>3. CASE n # 0
  <2>1. Step(g)
    <3> SUFFICES ASSUME NEW i \in 1 .. n
                 PROVE  g[i] = IF i = 1 THEN ss[i] ELSE g[i - 1] \o ss[i]
      OBVIOUS
    <3>1. g[i] = f[i - 1] \o ss[i]
      BY DEF Flattening
    <3>2. CASE i = 1
      <4>1. f[0] = <<>> /\ ss[1] \in Seq(Y)
        BY <3>2 DEF Flattening, IsNested
      <4>2. f[0] \o ss[1] = ss[1]
        BY <4>1, ConcatEmptySeq
      <4>3. i - 1 = 0
        BY <3>2
      <4> HIDE DEF g
      <4> QED
        BY <3>1, <3>2, <4>2, <4>3
    <3>3. CASE i # 1
      <4>1. i - 1 \in 1 .. n
        BY <1>1, <3>3
      <4>2. g[i - 1] = f[i - 1]
        BY <4>1
      <4> HIDE DEF g
      <4> QED
        BY <3>1, <3>3, <4>2
    <3> QED
      BY <3>2, <3>3
  <2>2. Is(g)
    <3>1. g = [i \in 1 .. n |-> g[i]]
      OBVIOUS
    <3> HIDE DEF g
    <3>2. [i \in 1 .. n |-> g[i]]
            = [i \in 1 .. n |-> IF i = 1 THEN ss[i] ELSE g[i - 1] \o ss[i]]
      BY <2>1
    <3>3. g = [i \in 1 .. n |-> IF i = 1 THEN ss[i] ELSE g[i - 1] \o ss[i]]
      BY <3>1, <3>2, Zenon
    <3> QED
      BY <1>1, <3>3, Zenon
  <2>3. Is(c)
    <3> HIDE DEF Is, g
    <3> QED
      BY <2>2, Zenon
  <2>4. Step(c)
    <3> HIDE DEF c
    <3>1. c = [i \in 1 .. n |-> IF i = 1 THEN ss[i] ELSE c[i - 1] \o ss[i]]
      BY <1>1, <2>3, Zenon
    <3> QED
      BY <3>1
  <2> HIDE DEF c, Is, g
  <2> DEFINE S == {m \in 0 .. n - 1 : c[m + 1] = g[m + 1]}
  <2>5. 0 \in S
    <3>1. 1 \in 1 .. n /\ 0 \in 0 .. n - 1 /\ 0 + 1 = 1
      BY <1>1, <1>3
    <3>2. c[1] = g[1]
      BY <2>1, <2>4, <3>1
    <3> QED
      BY <3>1, <3>2
  <2>6. ASSUME NEW m \in 0 .. n - 1 - 1, m \in S PROVE m + 1 \in S
    <3>1. PICK j : j = m + 1
      OBVIOUS
    <3>2. PICK k : k = m + 2
      OBVIOUS
    <3>3. k \in 1 .. n /\ k # 1 /\ k - 1 = j /\ j + 1 = k /\ j \in 0 .. n - 1
      BY <1>1, <3>1, <3>2
    <3>4. c[j] = g[j]
      BY <2>6, <3>1
    <3>5. c[k] = c[k - 1] \o ss[k] /\ g[k] = g[k - 1] \o ss[k]
      BY <2>1, <2>4, <3>3
    <3>6. c[k] = g[k]
      BY <3>3, <3>4, <3>5
    <3>7. j \in S
      BY <3>3, <3>6
    <3> QED
      BY <3>1, <3>7
  <2>7. n - 1 \in S
    <3>1. n - 1 \in Nat /\ n - 1 \in 0 .. n - 1
      BY <1>1, <1>3
    <3>2. \A m \in 0 .. n - 1 - 1 : m \in S => m + 1 \in S
      BY <2>6
    <3> HIDE DEF S
    <3>3. \A m \in 0 .. n - 1 : m \in S
      BY <2>5, <3>1, <3>2, CountingUp
    <3> QED
      BY <3>1, <3>3
  <2>8. c[n] = g[n]
    <3>1. n - 1 + 1 = n
      BY <1>1
    <3> QED
      BY <2>7, <3>1
  <2>9. g[n] = f[n]
    BY <1>1, <1>3 DEF g
  <2>10. FlattenSeq(ss) = c[Len(ss)]
    BY <1>1, <1>3, Zenon DEF FlattenSeq, c, Is
  <2> QED
    BY <1>1, <2>8, <2>9, <2>10
<1> QED
  BY <1>2, <1>3

\* Sequences of sequences, and their parts, are nested.
LEMMA Nested ==
  ASSUME NEW Y, NEW ss \in Seq(Seq(Y)), NEW a \in 1 .. Len(ss) + 1, NEW b \in a - 1 .. Len(ss)
  PROVE  /\ IsNested(ss, Len(ss), Y)
         /\ IsNested(SubSeq(ss, a, b), b - a + 1, Y)
         /\ \A i \in 1 .. b - a + 1 : SubSeq(ss, a, b)[i] = ss[a + i - 1]
<1> DEFINE X == Seq(Y)
<1>1. ss \in Seq(X)
  OBVIOUS
<1> HIDE DEF X
<1>2. Len(ss) \in Nat /\ DOMAIN ss = 1 .. Len(ss) /\ \A i \in 1 .. Len(ss) : ss[i] \in X
  BY <1>1
<1>3. \A i \in a .. b : ss[i] \in X
  BY <1>2
<1>4. /\ SubSeq(ss, a, b) \in Seq(X)
      /\ Len(SubSeq(ss, a, b)) = b - a + 1
      /\ \A i \in 1 .. b - a + 1 : SubSeq(ss, a, b)[i] = ss[a + i - 1]
  BY <1>2, <1>3, SubSeqProperties
<1> DEFINE t == SubSeq(ss, a, b)
<1>5. t \in Seq(X) /\ Len(t) = b - a + 1 /\ b - a + 1 \in Nat
  BY <1>2, <1>4
<1> HIDE DEF t
<1>6. DOMAIN t = 1 .. b - a + 1 /\ \A i \in 1 .. b - a + 1 : t[i] \in X
  BY <1>5
<1> QED
  BY <1>2, <1>4, <1>5, <1>6 DEF IsNested, X, t

\* Flattening sequences over Y gives a sequence over Y.
LEMMA FlattenType ==
  ASSUME NEW Y, NEW ss \in Seq(Seq(Y))
  PROVE  FlattenSeq(ss) \in Seq(Y)
<1> DEFINE n == Len(ss)
<1>1. IsNested(ss, n, Y) /\ n \in Nat
  <2>1. n \in Nat
    BY LenProperties
  <2>2. 1 \in 1 .. n + 1 /\ n \in 1 - 1 .. n
    BY <2>1
  <2> QED
    BY <2>1, <2>2, Nested
<1>2. PICK f : Flattening(f, ss, n, Y)
  BY <1>1, Flattens
<1> HIDE DEF n
<1>3. f[n] \in Seq(Y)
  BY <1>1, <1>2 DEF Flattening
<1> QED
  BY <1>1, <1>2, <1>3, FlattenIs

\* The empty sequence, and a sequence of one.
LEMMA FlattenSmall ==
  ASSUME NEW Y, NEW x \in Seq(Y)
  PROVE  FlattenSeq(<<>>) = <<>> /\ FlattenSeq(<<x>>) = x
<1>1. FlattenSeq(<<>>) = <<>>
  BY DEF FlattenSeq
<1>2. IsNested(<<x>>, 1, Y)
  BY DEF IsNested
<1> DEFINE f == [i \in 0 .. 1 |-> IF i = 0 THEN <<>> ELSE x]
<1>3. Flattening(f, <<x>>, 1, Y)
  <2>1. <<>> \o x = x
    BY ConcatEmptySeq
  <2>2. f[0] = <<>> /\ f[1] = x /\ f \in [0 .. 1 -> Seq(Y)]
    OBVIOUS
  <2> HIDE DEF f
  <2> QED
    BY <2>1, <2>2 DEF Flattening
<1>4. FlattenSeq(<<x>>) = f[1]
  <2> HIDE DEF f
  <2> QED
    BY <1>2, <1>3, FlattenIs
<1>5. f[1] = x
  OBVIOUS
<1> QED
  BY <1>1, <1>4, <1>5

\* Concatenation is associative.
LEMMA ConcatAssociates ==
  ASSUME NEW Y, NEW u \in Seq(Y), NEW v \in Seq(Y), NEW w \in Seq(Y)
  PROVE  (u \o v) \o w = u \o (v \o w)
  BY ConcatAssociative

\* A sequence may be cut anywhere.
LEMMA FlattenCut ==
  ASSUME NEW Y, NEW ss \in Seq(Seq(Y)), NEW k \in 0 .. Len(ss)
  PROVE  FlattenSeq(ss) = FlattenSeq(SubSeq(ss, 1, k))
                          \o FlattenSeq(SubSeq(ss, k + 1, Len(ss)))
<1> DEFINE n == Len(ss)
           a == SubSeq(ss, 1, k)
           b == SubSeq(ss, k + 1, n)
<1>1. n \in Nat /\ k \in Nat /\ n - k \in Nat /\ k <= n
  BY LenProperties
<1>2. IsNested(ss, n, Y) /\ IsNested(a, k, Y) /\ \A i \in 1 .. k : a[i] = ss[i]
  <2>1. 1 \in 1 .. n + 1 /\ k \in 1 - 1 .. n /\ k - 1 + 1 = k
        /\ \A i \in 1 .. k : 1 + i - 1 = i
    BY <1>1
  <2>2. /\ IsNested(ss, n, Y) /\ IsNested(a, k - 1 + 1, Y)
        /\ \A i \in 1 .. k - 1 + 1 : a[i] = ss[1 + i - 1]
    BY <2>1, Nested
  <2> HIDE DEF n, a
  <2> QED
    BY <2>1, <2>2
<1>3. IsNested(b, n - k, Y) /\ \A i \in 1 .. n - k : b[i] = ss[k + i]
  <2>1. k + 1 \in 1 .. n + 1 /\ n \in k + 1 - 1 .. n /\ n - (k + 1) + 1 = n - k
        /\ \A i \in 1 .. n - k : k + 1 + i - 1 = k + i
    BY <1>1
  <2>2. /\ IsNested(b, n - (k + 1) + 1, Y)
        /\ \A i \in 1 .. n - (k + 1) + 1 : b[i] = ss[k + 1 + i - 1]
    <3> DEFINE j == k + 1
    <3>1. j \in 1 .. Len(ss) + 1 /\ n \in j - 1 .. Len(ss)
      BY <2>1
    <3> HIDE DEF j, n
    <3>2. /\ IsNested(SubSeq(ss, j, n), n - j + 1, Y)
          /\ \A i \in 1 .. n - j + 1 : SubSeq(ss, j, n)[i] = ss[j + i - 1]
      BY <3>1, Nested
    <3> QED
      BY <3>2 DEF j
  <2> HIDE DEF n, b
  <2> QED
    BY <2>1, <2>2
<1> HIDE DEF n, a, b
<1>4. PICK f : Flattening(f, ss, n, Y)
  BY <1>2, Flattens
<1>5. PICK g : Flattening(g, b, n - k, Y)
  BY <1>3, Flattens
<1>6. FlattenSeq(ss) = f[n] /\ FlattenSeq(b) = g[n - k]
  BY <1>2, <1>3, <1>4, <1>5, FlattenIs
<1>7. FlattenSeq(a) = f[k]
  <2> DEFINE h == [i \in 0 .. k |-> f[i]]
  <2>1. h \in [0 .. k -> Seq(Y)] /\ h[0] = <<>>
    BY <1>1, <1>4 DEF Flattening
  <2>2. ASSUME NEW i \in 1 .. k PROVE h[i] = h[i - 1] \o a[i]
    <3>1. i \in 1 .. n /\ i - 1 \in 0 .. k /\ i \in 0 .. k
      BY <1>1
    <3>2. h[i] = f[i] /\ h[i - 1] = f[i - 1]
      BY <3>1
    <3>3. f[i] = f[i - 1] \o ss[i]
      BY <1>4, <3>1 DEF Flattening
    <3> HIDE DEF h
    <3> QED
      BY <1>2, <3>2, <3>3
  <2>3. h[k] = f[k]
    BY <1>1
  <2> HIDE DEF h
  <2>4. Flattening(h, a, k, Y)
    BY <2>1, <2>2 DEF Flattening
  <2> QED
    BY <1>2, <2>3, <2>4, FlattenIs
<1> DEFINE S == {m \in 0 .. n - k : f[k + m] = f[k] \o g[m]}
<1>8. 0 \in S
  <2>1. f[k] \in Seq(Y) /\ g[0] = <<>>
    BY <1>1, <1>4, <1>5 DEF Flattening
  <2>2. f[k] = f[k] \o g[0]
    BY <2>1, ConcatEmptySeq
  <2>3. k + 0 = k /\ 0 \in 0 .. n - k
    BY <1>1
  <2> QED
    BY <2>2, <2>3
<1>9. ASSUME NEW m \in 0 .. n - k - 1, m \in S PROVE m + 1 \in S
  <2>1. PICK i : i = m + 1
    OBVIOUS
  <2>2. PICK p : p = k + m
    OBVIOUS
  <2>3. PICK q : q = k + i
    OBVIOUS
  <2>4. /\ i \in 1 .. n - k /\ i - 1 = m /\ i \in 0 .. n - k /\ m \in 0 .. n - k
        /\ p \in 0 .. n /\ q \in 1 .. n /\ q - 1 = p /\ k \in 0 .. n
    BY <1>1, <2>1, <2>2, <2>3
  <2>5. f[q] = f[p] \o ss[q]
    BY <1>4, <2>4 DEF Flattening
  <2>6. g[i] = g[m] \o ss[q]
    BY <1>3, <1>5, <2>3, <2>4 DEF Flattening
  <2>7. f[k] \in Seq(Y) /\ g[m] \in Seq(Y) /\ ss[q] \in Seq(Y)
    BY <1>2, <1>4, <1>5, <2>4 DEF Flattening, IsNested
  <2>8. (f[k] \o g[m]) \o ss[q] = f[k] \o (g[m] \o ss[q])
    <3>1. \A u, v, w \in Seq(Y) : (u \o v) \o w = u \o (v \o w)
      BY ConcatAssociates
    <3> QED
      BY <2>7, <3>1, Zenon
  <2>9. f[p] = f[k] \o g[m]
    BY <1>9, <2>2
  <2>10. f[q] = f[k] \o g[i]
    BY <2>5, <2>6, <2>8, <2>9, Zenon
  <2>11. i \in S
    BY <2>3, <2>4, <2>10
  <2> QED
    BY <2>1, <2>11
<1>10. n - k \in S
  <2>1. \A m \in 0 .. n - k - 1 : m \in S => m + 1 \in S
    BY <1>9
  <2> HIDE DEF S
  <2>2. \A m \in 0 .. n - k : m \in S
    BY <1>1, <1>8, <2>1, CountingUp
  <2> QED
    BY <1>1, <2>2
<1>11. f[n] = f[k] \o g[n - k]
  <2>1. k + (n - k) = n
    BY <1>1
  <2> QED
    BY <1>10, <2>1
<1> QED
  BY <1>6, <1>7, <1>11 DEF a, b, n

\* One more element is added at the end.
LEMMA FlattenAppend ==
  ASSUME NEW Y, NEW ss \in Seq(Seq(Y)), NEW x \in Seq(Y)
  PROVE  FlattenSeq(Append(ss, x)) = FlattenSeq(ss) \o x
<1> DEFINE X == Seq(Y)
           t == Append(ss, x)
           n == Len(ss)
<1>1. ss \in Seq(X) /\ x \in X
  OBVIOUS
<1>2. t \in Seq(X) /\ Len(t) = n + 1 /\ n \in 0 .. Len(t)
      /\ SubSeq(t, 1, n) = ss /\ SubSeq(t, n + 1, n + 1) = <<x>>
  <2> HIDE DEF X
  <2>1. t \in Seq(X) /\ Len(t) = n + 1 /\ n \in Nat
        /\ (\A i \in 1 .. n : t[i] = ss[i]) /\ t[n + 1] = x
    BY <1>1, AppendProperties, LenProperties
  <2> HIDE DEF t
  <2>2. /\ SubSeq(t, 1, n) \in Seq(X) /\ Len(SubSeq(t, 1, n)) = n
        /\ \A i \in 1 .. n : SubSeq(t, 1, n)[i] = t[i]
    BY <2>1
  <2>3. SubSeq(t, 1, n) = ss
    BY <1>1, <2>1, <2>2, SeqEqual
  <2>4. SubSeq(t, n + 1, n + 1) = <<x>>
    <3> HIDE DEF n
    <3>1. /\ SubSeq(t, n + 1, n + 1) \in Seq(X) /\ Len(SubSeq(t, n + 1, n + 1)) = 1
          /\ SubSeq(t, n + 1, n + 1)[1] = t[n + 1]
      BY <2>1
    <3>2. <<x>> \in Seq(X) /\ Len(<<x>>) = 1 /\ <<x>>[1] = x
      BY <1>1
    <3> DEFINE u == SubSeq(t, n + 1, n + 1)
               w == <<x>>
    <3>3. /\ u \in Seq(X) /\ Len(u) = 1 /\ u[1] = t[n + 1]
          /\ w \in Seq(X) /\ Len(w) = 1 /\ w[1] = x
      BY <3>1, <3>2, Zenon
    <3> HIDE DEF u, w
    <3>4. u = w
      BY <2>1, <3>3, SeqEqual
    <3> QED
      BY <3>4 DEF u, w
  <2> QED
    BY <2>1, <2>3, <2>4
<1> HIDE DEF t, n
<1>3. FlattenSeq(t) = FlattenSeq(SubSeq(t, 1, n)) \o FlattenSeq(SubSeq(t, n + 1, Len(t)))
  BY <1>2, FlattenCut
<1>4. FlattenSeq(<<x>>) = x
  BY FlattenSmall
<1> QED
  BY <1>2, <1>3, <1>4 DEF t

\* The places of t and of the first m sequences in ss correspond: place k of t is
\* place b[k] of sequence a[k].
Places(a, b, t, ss, m) ==
  /\ \A k \in DOMAIN t : /\ a[k] \in 1 .. m /\ b[k] \in DOMAIN ss[a[k]]
                         /\ t[k] = ss[a[k]][b[k]]
  /\ \A k, l \in DOMAIN t : a[k] = a[l] /\ b[k] = b[l] => k = l
  /\ \A i \in 1 .. m : \A p \in DOMAIN ss[i] : \E k \in DOMAIN t : a[k] = i /\ b[k] = p

\* One more sequence adds its places.
LEMMA PlacesAppend ==
  ASSUME NEW Y, NEW ss, NEW m \in Nat, NEW t \in Seq(Y), ss[m + 1] \in Seq(Y),
         \E a, b : Places(a, b, t, ss, m)
  PROVE  \E a, b : Places(a, b, t \o ss[m + 1], ss, m + 1)
<1> DEFINE x == ss[m + 1]
           u == t \o x
<1>1. PICK a, b : Places(a, b, t, ss, m)
  OBVIOUS
<1> DEFINE c == [k \in 1 .. Len(t) + Len(x) |-> IF k <= Len(t) THEN a[k] ELSE m + 1]
           d == [k \in 1 .. Len(t) + Len(x) |-> IF k <= Len(t) THEN b[k] ELSE k - Len(t)]
<1>2. /\ u \in Seq(Y) /\ Len(t) \in Nat /\ Len(x) \in Nat /\ Len(u) = Len(t) + Len(x)
      /\ DOMAIN u = 1 .. Len(t) + Len(x) /\ DOMAIN t = 1 .. Len(t) /\ DOMAIN x = 1 .. Len(x)
  OBVIOUS
<1>3. /\ \A k \in 1 .. Len(t) : u[k] = t[k]
      /\ \A k \in 1 .. Len(t) + Len(x) : k > Len(t) => u[k] = x[k - Len(t)]
  OBVIOUS
<1>4. ASSUME NEW k \in DOMAIN u
      PROVE  c[k] \in 1 .. m + 1 /\ d[k] \in DOMAIN ss[c[k]] /\ u[k] = ss[c[k]][d[k]]
  <2>1. CASE k <= Len(t)
    <3>1. k \in DOMAIN t /\ c[k] = a[k] /\ d[k] = b[k] /\ u[k] = t[k]
      BY <1>2, <1>3, <2>1
    <3>2. a[k] \in 1 .. m /\ b[k] \in DOMAIN ss[a[k]] /\ t[k] = ss[a[k]][b[k]]
      BY <1>1, <3>1 DEF Places
    <3> QED
      BY <3>1, <3>2
  <2>2. CASE ~(k <= Len(t))
    <3>1. c[k] = m + 1 /\ d[k] = k - Len(t) /\ k - Len(t) \in 1 .. Len(x)
      BY <1>2, <2>2
    <3>2. u[k] = x[k - Len(t)]
      BY <1>2, <1>3, <2>2
    <3> QED
      BY <1>2, <3>1, <3>2
  <2> QED
    BY <2>1, <2>2
<1>5. ASSUME NEW k \in DOMAIN u, NEW l \in DOMAIN u, c[k] = c[l], d[k] = d[l]
      PROVE  k = l
  <2>1. \A q \in DOMAIN u : /\ q <= Len(t) => /\ c[q] = a[q] /\ d[q] = b[q] /\ q \in DOMAIN t
                                               /\ c[q] # m + 1
                            /\ ~(q <= Len(t)) => c[q] = m + 1 /\ d[q] = q - Len(t)
    BY <1>1, <1>2 DEF Places
  <2>2. CASE c[k] = m + 1
    <3>1. k \in Nat /\ l \in Nat /\ Len(t) \in Nat
      BY <1>2
    <3>2. d[k] = k - Len(t) /\ d[l] = l - Len(t)
      BY <1>5, <2>1, <2>2
    <3>3. k - Len(t) = l - Len(t)
      <4> HIDE DEF c, d, u, x
      <4> QED
        BY <1>5, <3>2, Zenon
    <3>4. \A q, r, s \in Nat : q - s = r - s => q = r
      OBVIOUS
    <3> HIDE DEF c, d, u, x
    <3> QED
      BY <3>1, <3>3, <3>4, Zenon
  <2>3. CASE c[k] # m + 1
    <3>1. k \in DOMAIN t /\ l \in DOMAIN t /\ a[k] = a[l] /\ b[k] = b[l]
      BY <1>5, <2>1, <2>3
    <3> QED
      BY <1>1, <3>1 DEF Places
  <2> QED
    BY <2>2, <2>3
<1>6. ASSUME NEW i \in 1 .. m + 1, NEW p \in DOMAIN ss[i]
      PROVE  \E k \in DOMAIN u : c[k] = i /\ d[k] = p
  <2>1. CASE i = m + 1
    <3>1. p \in 1 .. Len(x)
      BY <1>2, <2>1
    <3>2. Len(t) + p \in DOMAIN u /\ c[Len(t) + p] = m + 1 /\ d[Len(t) + p] = p
      BY <1>2, <3>1
    <3> QED
      BY <2>1, <3>2
  <2>2. CASE i # m + 1
    <3>1. PICK k \in DOMAIN t : a[k] = i /\ b[k] = p
      BY <1>1, <2>2 DEF Places
    <3>2. k \in DOMAIN u /\ c[k] = a[k] /\ d[k] = b[k]
      BY <1>2
    <3> QED
      BY <3>1, <3>2
  <2> QED
    BY <2>1, <2>2
<1>7. Places(c, d, u, ss, m + 1)
  <2> HIDE DEF c, d, u, x
  <2> QED
    BY <1>4, <1>5, <1>6 DEF Places
<1> QED
  BY <1>7

\* The places of a flattened sequence are those of its parts.
LEMMA FlattenPlaces ==
  ASSUME NEW Y, NEW ss \in Seq(Seq(Y))
  PROVE  \E a, b : Places(a, b, FlattenSeq(ss), ss, Len(ss))
<1> DEFINE n == Len(ss)
<1>1. IsNested(ss, n, Y)
  BY DEF IsNested
<1>2. PICK f : Flattening(f, ss, n, Y)
  BY <1>1, Flattens
<1>3. FlattenSeq(ss) = f[n]
  BY <1>1, <1>2, FlattenIs
<1> DEFINE S == {m \in 0 .. n : \E a, b : Places(a, b, f[m], ss, m)}
<1>4. 0 \in S
  <2>1. f[0] = <<>> /\ DOMAIN f[0] = {}
    BY <1>1, <1>2 DEF Flattening
  <2>2. Places(<<>>, <<>>, f[0], ss, 0)
    BY <2>1 DEF Places
  <2> QED
    BY <1>1, <2>2 DEF IsNested
<1>5. ASSUME NEW m \in 0 .. n - 1, m \in S PROVE m + 1 \in S
  <2>1. n \in Nat /\ m + 1 \in 1 .. n /\ m \in Nat /\ m + 1 \in 0 .. n /\ m \in 0 .. n
    BY <1>1 DEF IsNested
  <2>2. f[m + 1] = f[m] \o ss[m + 1] /\ f[m] \in Seq(Y)
    <3> DEFINE j == m + 1
    <3>1. j \in 1 .. n /\ m \in 0 .. n /\ j - 1 = m
      BY <2>1
    <3>2. /\ \A i \in 1 .. n : f[i] = f[i - 1] \o ss[i]
          /\ f \in [0 .. n -> Seq(Y)]
      BY <1>2 DEF Flattening
    <3> HIDE DEF j, n
    <3>3. f[j] = f[j - 1] \o ss[j]
      BY <3>1, <3>2, Zenon
    <3>4. f[j] = f[m] \o ss[j]
      BY <3>1, <3>3, Zenon
    <3>5. f[m] \in Seq(Y)
      BY <3>1, <3>2
    <3> QED
      BY <3>4, <3>5, Zenon DEF j
  <2>3. ss[m + 1] \in Seq(Y)
    BY <1>1, <2>1 DEF IsNested
  <2>4. \E a, b : Places(a, b, f[m], ss, m)
    BY <1>5
  <2>5. \E a, b : Places(a, b, f[m] \o ss[m + 1], ss, m + 1)
    BY <2>1, <2>2, <2>3, <2>4, PlacesAppend
  <2> QED
    BY <2>1, <2>2, <2>5
<1>6. n \in 0 .. n /\ n \in Nat
  BY <1>1 DEF IsNested
<1>7. n \in S
  <2> HIDE DEF S, n
  <2>1. \A m \in 0 .. n - 1 : m \in S => m + 1 \in S
    BY <1>5
  <2> QED
    BY <1>4, <1>6, <2>1, CountingUp
<1> QED
  BY <1>3, <1>7

-----------------------------------------------------------------------------
(* Remainders *)

\* Remainders of numbers not far from 0 .. n - 1.
LEMMA ModNear ==
  ASSUME NEW n \in Nat \ {0}, NEW a \in Int
  PROVE  /\ a % n \in 0 .. n - 1
         /\ 0 <= a /\ a < n => a % n = a
         /\ n <= a /\ a < n + n => a % n = a - n
         /\ -n <= a /\ a < 0 => a % n = a + n
<1>1. a % n \in 0 .. n - 1
  OBVIOUS
<1>2. 0 <= a /\ a < n => a % n = a
  OBVIOUS
<1>3. n <= a /\ a < n + n => a % n = a - n
  OBVIOUS
<1>4. -n <= a /\ a < 0 => a % n = a + n
  OBVIOUS
<1> QED
  BY <1>1, <1>2, <1>3, <1>4

\* A small number is its own remainder.
LEMMA ModSmall ==
  ASSUME NEW n \in Nat \ {0}, NEW a \in Nat, a < n
  PROVE  a % n = a
  OBVIOUS

\* Quotient and remainder.
LEMMA Quotient ==
  ASSUME NEW n \in Nat \ {0}, NEW a \in Nat
  PROVE  a \div n \in Nat /\ a = n * (a \div n) + (a % n) /\ a % n \in 0 .. n - 1
<1>1. a = n * (a \div n) + (a % n)
  OBVIOUS
<1>2. a \div n \in Nat /\ a % n \in 0 .. n - 1
  OBVIOUS
<1> QED
  BY <1>1, <1>2

\* Quotients of two numbers less than m times n apart.
LEMMA QuotientsNear ==
  ASSUME NEW n \in Nat \ {0}, NEW a \in Nat, NEW b \in Nat, a <= b
  PROVE  /\ a \div n <= b \div n
         /\ \A m \in Nat : b - a <= m * n => (b \div n) - (a \div n) <= m
<1>1. PICK q \in Nat, r \in 0 .. n - 1 : q = a \div n /\ a = n * q + r
  BY Quotient
<1>2. PICK u \in Nat, v \in 0 .. n - 1 : u = b \div n /\ b = n * u + v
  BY Quotient
<1>3. ASSUME NEW k \in Nat, u <= q - 1 - k PROVE FALSE
  <2>1. n * u <= n * (q - 1)
    BY <1>3
  <2>2. n * (q - 1) = n * q - n
    OBVIOUS
  <2> QED
    BY <1>1, <1>2, <2>1, <2>2
<1>4. q <= u
  BY <1>3
<1>5. ASSUME NEW m \in Nat, b - a <= m * n, u - q > m PROVE FALSE
  <2>1. u >= q + m + 1
    BY <1>5
  <2>2. n * u >= n * (q + m + 1)
    BY <2>1
  <2>3. n * (q + m + 1) = n * q + m * n + n
    OBVIOUS
  <2>4. b >= n * q + m * n + n
    <3>1. n * u \in Nat /\ n * q \in Nat /\ m * n \in Nat
      OBVIOUS
    <3> QED
      BY <1>2, <2>2, <2>3, <3>1
  <2>5. n * q \in Nat /\ m * n \in Nat
    OBVIOUS
  <2> QED
    BY <1>1, <1>5, <2>4, <2>5
<1> QED
  BY <1>1, <1>2, <1>4, <1>5

\* What the difference of the remainders of a and b says about that of a and b.
NearMod(n, a, b) ==
  /\ (b % n) - (a % n) = b - a \/ (b % n) - (a % n) = b - a - n
  /\ ((b % n) - (a % n)) % n = b - a

\* The difference of remainders.
LEMMA ModDiff ==
  ASSUME NEW n \in Nat \ {0}, NEW a \in Nat, NEW b \in Nat, a <= b, b - a < n
  PROVE  NearMod(n, a, b)
<1>1. PICK q \in Nat, r \in 0 .. n - 1 : q = a \div n /\ r = a % n /\ a = n * q + r
  BY Quotient
<1>2. PICK u \in Nat, v \in 0 .. n - 1 : u = b \div n /\ v = b % n /\ b = n * u + v
  BY Quotient
<1>3. q <= u /\ u <= q + 1
  <2>1. b - a <= 1 * n /\ 1 \in Nat
    OBVIOUS
  <2>2. q <= u /\ u - q <= 1
    <3>1. /\ a \div n <= b \div n
          /\ \A m \in Nat : b - a <= m * n => (b \div n) - (a \div n) <= m
      BY QuotientsNear
    <3>2. (b \div n) - (a \div n) <= 1
      BY <2>1, <3>1, Zenon
    <3> QED
      BY <1>1, <1>2, <3>1, <3>2, Zenon
  <2> QED
    BY <2>2
<1>4. n * (q + 1) = n * q + n /\ n * q \in Nat
  OBVIOUS
<1>5. u = q \/ u = q + 1
  BY <1>3
<1>6. v - r = b - a \/ v - r = b - a - n
  <2>1. PICK k \in Nat : k = n * q
    BY <1>4
  <2>2. a = k + r
    BY <1>1, <2>1, Zenon
  <2>3. CASE u = q
    <3>1. b = k + v
      BY <1>2, <2>1, <2>3, Zenon
    <3> QED
      BY <2>2, <3>1
  <2>4. CASE u = q + 1
    <3>1. b = k + n + v
      BY <1>2, <1>4, <2>1, <2>4, Zenon
    <3> QED
      BY <2>2, <3>1
  <2> QED
    BY <1>5, <2>3, <2>4
<1>7. (v - r) % n = b - a
  <2>1. PICK d \in Int : d = v - r
    OBVIOUS
  <2>2. CASE d = b - a
    <3>1. 0 <= d /\ d < n
      BY <2>2
    <3>2. d % n = d
      BY <3>1, ModNear
    <3> QED
      BY <2>1, <2>2, <3>2, Zenon
  <2>3. CASE d = b - a - n
    <3>1. -n <= d /\ d < 0 /\ d + n = b - a
      BY <2>3
    <3>2. d % n = d + n
      BY <3>1, ModNear
    <3> QED
      BY <2>1, <3>1, <3>2, Zenon
  <2> QED
    BY <1>6, <2>1, <2>2, <2>3
<1> QED
  BY <1>1, <1>2, <1>6, <1>7, Zenon DEF NearMod

\* Different numbers less than n apart have different remainders.
LEMMA ModApart ==
  ASSUME NEW n \in Nat \ {0}, NEW a \in Nat, NEW b \in Nat, a <= b, b - a < n, a % n = b % n
  PROVE  a = b
<1>1. NearMod(n, a, b)
  BY ModDiff
<1>2. PICK r \in Nat : r = a % n
  BY Quotient
<1>3. (r - r) % n = b - a
  BY <1>1, <1>2, Zenon DEF NearMod
<1>4. r - r = 0 /\ 0 % n = 0
  BY ModSmall
<1>5. 0 = b - a
  BY <1>3, <1>4, Zenon
<1> QED
  BY <1>5
=============================================================================
