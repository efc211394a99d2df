-------------------------- MODULE ConnectionProofs --------------------------
(***************************************************************************)
(* Proofs about PSC_Connection (module Connection), for any sizes of its   *)
(* buffers, any write requests and any results of writing: data goes out   *)
(* in order and is confirmed after it was written, and a closed connection *)
(* is freed after its data was written.                                    *)
(***************************************************************************)
EXTENDS Connection, Induction, FiniteSetTheorems, SequenceTheorems, TLAPS

-----------------------------------------------------------------------------
(* Connection: the data of write requests *)

\* The fields of the struct.
LEMMA Fields ==
  ConnFields = {"connectTimer", "tlsConnectTimer", "timer", "timeouts", "tls_connect_st",
                "tls_read_st", "tls_write_st", "tls_shutdown_st", "tls_readagain", "paused",
                "handling", "rdreg", "wrreg", "deleteScheduled", "writerecs", "wrbuf",
                "wrbufpos", "writenotify", "rdbuf", "rdbufused", "rdbufpos", "rdtextsave",
                "rdlocator", "rdexpect"}
BY DEF ConnFields, PSC_Connection_create

\* The data of requests is that of their sequences put together.
LEMMA DataIs ==
  ASSUME NEW W, NEW Y, \A r \in W : r.data \in Seq(Y), NEW recs \in Seq(W)
  PROVE  LET D == [i \in DOMAIN recs |-> recs[i].data]
         IN  /\ Data(recs) = FlattenSeq(D) /\ D \in Seq(Seq(Y)) /\ Len(D) = Len(recs)
             /\ Data(recs) \in Seq(Y)
<1> DEFINE D == [i \in DOMAIN recs |-> recs[i].data]
           n == Len(recs)
<1>1. n \in Nat /\ DOMAIN recs = 1 .. n /\ \A i \in 1 .. n : recs[i] \in W
  OBVIOUS
<1>2. ASSUME NEW i \in 1 .. n PROVE recs[i].data \in Seq(Y)
  BY <1>1
<1> DEFINE X == Seq(Y)
<1>3. D = [i \in 1 .. n |-> recs[i].data] /\ \A i \in 1 .. n : recs[i].data \in X
  BY <1>1, <1>2
<1>4. D \in Seq(X) /\ Len(D) = n
  <2> HIDE DEF n, X, D
  <2> QED
    BY <1>1, <1>3
<1>5. Data(recs) = FlattenSeq(D)
  BY DEF Data
<1> HIDE DEF D
<1>6. FlattenSeq(D) \in Seq(Y)
  BY <1>4, FlattenType
<1> QED
  BY <1>4, <1>5, <1>6 DEF D

\* The requests may be cut anywhere.
LEMMA DataCut ==
  ASSUME NEW W, NEW Y, \A r \in W : r.data \in Seq(Y), NEW recs \in Seq(W),
         NEW k \in 0 .. Len(recs)
  PROVE  Data(recs) = Data(SubSeq(recs, 1, k)) \o Data(SubSeq(recs, k + 1, Len(recs)))
<1> DEFINE n == Len(recs)
           D == [i \in DOMAIN recs |-> recs[i].data]
           Of(s) == [i \in DOMAIN s |-> s[i].data]
<1>1. n \in Nat /\ DOMAIN recs = 1 .. n
  OBVIOUS
<1>2. Data(recs) = FlattenSeq(D) /\ D \in Seq(Seq(Y)) /\ Len(D) = n
  BY DataIs
<1>3. \A i \in 1 .. n : D[i] = recs[i].data
  BY <1>1
<1> HIDE DEF D
<1>4. ASSUME NEW a \in 1 .. n + 1, NEW b \in a - 1 .. n
      PROVE  Of(SubSeq(recs, a, b)) = SubSeq(D, a, b)
  <2> DEFINE s == SubSeq(recs, a, b)
             t == SubSeq(D, a, b)
             X == Seq(Y)
  <2>1. s \in Seq(W) /\ Len(s) = b - a + 1 /\ \A i \in 1 .. b - a + 1 : s[i] = recs[a + i - 1]
    BY <1>1
  <2>2. t \in Seq(X) /\ Len(t) = b - a + 1 /\ \A i \in 1 .. b - a + 1 : t[i] = D[a + i - 1]
    <3>1. D \in Seq(X)
      BY <1>2
    <3> HIDE DEF X
    <3> QED
      BY <1>1, <1>2, <3>1
  <2>3. Of(s) \in Seq(X) /\ Len(Of(s)) = Len(s)
    <3> HIDE DEF s
    <3> QED
      BY <2>1, DataIs
  <2> HIDE DEF s, t, X
  <2>4. DOMAIN s = 1 .. b - a + 1
    BY <2>1
  <2>5. \A i \in 1 .. b - a + 1 : Of(s)[i] = t[i]
    <3> SUFFICES ASSUME NEW i \in 1 .. b - a + 1 PROVE Of(s)[i] = t[i]
      OBVIOUS
    <3>1. Of(s)[i] = s[i].data
      BY <2>4
    <3>2. a + i - 1 \in 1 .. n
      BY <1>1
    <3> QED
      BY <1>3, <2>1, <2>2, <3>1, <3>2
  <2> HIDE DEF Of
  <2>6. Of(s) = t
    BY <1>1, <2>1, <2>2, <2>3, <2>5, SeqEqual
  <2> QED
    BY <2>6 DEF s, t
<1>5. Data(SubSeq(recs, 1, k)) = FlattenSeq(SubSeq(D, 1, k))
  <2>1. 1 \in 1 .. n + 1 /\ k \in 1 - 1 .. n
    BY <1>1
  <2>2. Of(SubSeq(recs, 1, k)) = SubSeq(D, 1, k)
    <3> HIDE DEF n, Of
    <3> QED
      BY <1>4, <2>1
  <2> QED
    BY <2>2 DEF Data
<1>6. Data(SubSeq(recs, k + 1, n)) = FlattenSeq(SubSeq(D, k + 1, n))
  <2>1. k + 1 \in 1 .. n + 1 /\ n \in k + 1 - 1 .. n
    BY <1>1
  <2>2. Of(SubSeq(recs, k + 1, n)) = SubSeq(D, k + 1, n)
    <3> HIDE DEF n, Of
    <3> QED
      BY <1>4, <2>1
  <2> QED
    BY <2>2 DEF Data
<1>7. FlattenSeq(D) = FlattenSeq(SubSeq(D, 1, k)) \o FlattenSeq(SubSeq(D, k + 1, Len(D)))
  BY <1>2, FlattenCut
<1> QED
  BY <1>2, <1>5, <1>6, <1>7

\* No requests have no data, ...
LEMMA DataEmpty == Data(<<>>) = <<>>
<1>1. [i \in DOMAIN <<>> |-> <<>>[i].data] = <<>>
  OBVIOUS
<1>2. FlattenSeq(<<>>) = <<>>
  BY DEF FlattenSeq
<1>3. Data(<<>>) = FlattenSeq(<<>>)
  BY <1>1 DEF Data
<1> QED
  BY <1>2, <1>3

\* ... one has its own, ...
LEMMA DataOne ==
  ASSUME NEW Y, NEW r, r.data \in Seq(Y)
  PROVE  Data(<<r>>) = r.data
<1>1. [i \in DOMAIN <<r>> |-> <<r>>[i].data] = <<r.data>>
  OBVIOUS
<1>2. FlattenSeq(<<r.data>>) = r.data
  <2> DEFINE x == r.data
  <2>1. x \in Seq(Y)
    OBVIOUS
  <2> HIDE DEF x
  <2>2. FlattenSeq(<<x>>) = x
    BY <2>1, FlattenSmall
  <2> QED
    BY <2>2 DEF x
<1>3. Data(<<r>>) = FlattenSeq(<<r.data>>)
  BY <1>1 DEF Data
<1> QED
  BY <1>2, <1>3

\* ... and one more comes last.
LEMMA DataAppend ==
  ASSUME NEW W, NEW Y, \A r \in W : r.data \in Seq(Y), NEW recs \in Seq(W), NEW r \in W
  PROVE  Data(Append(recs, r)) = Data(recs) \o r.data
<1> DEFINE n == Len(recs)
           t == Append(recs, r)
<1>1. /\ n \in Nat /\ t \in Seq(W) /\ Len(t) = n + 1
      /\ (\A i \in 1 .. n : t[i] = recs[i]) /\ t[n + 1] = r
  BY AppendProperties, LenProperties
<1> HIDE DEF t
<1>2. SubSeq(t, 1, n) = recs
  <2>1. /\ SubSeq(t, 1, n) \in Seq(W) /\ Len(SubSeq(t, 1, n)) = n
        /\ \A i \in 1 .. n : SubSeq(t, 1, n)[i] = t[i]
    BY <1>1
  <2> QED
    BY <1>1, <2>1, SeqEqual
<1>3. SubSeq(t, n + 1, n + 1) = <<r>>
  <2> HIDE DEF n
  <2>1. /\ SubSeq(t, n + 1, n + 1) \in Seq(W) /\ Len(SubSeq(t, n + 1, n + 1)) = 1
        /\ SubSeq(t, n + 1, n + 1)[1] = t[n + 1]
    BY <1>1
  <2> DEFINE u == SubSeq(t, n + 1, n + 1)
             w == <<r>>
  <2>2. /\ u \in Seq(W) /\ Len(u) = 1 /\ u[1] = t[n + 1]
        /\ w \in Seq(W) /\ Len(w) = 1 /\ w[1] = r
    BY <2>1
  <2> HIDE DEF u, w
  <2>3. u = w
    BY <1>1, <2>2, SeqEqual
  <2> QED
    BY <2>3 DEF u, w
<1>4. n \in 0 .. Len(t)
  BY <1>1
<1> HIDE DEF n
<1>5. Data(t) = Data(SubSeq(t, 1, n)) \o Data(SubSeq(t, n + 1, Len(t)))
  BY <1>1, <1>4, DataCut
<1>6. Data(<<r>>) = r.data
  BY DataOne
<1> QED
  BY <1>1, <1>2, <1>3, <1>5, <1>6 DEF t

\* One more request adds its length.
LEMMA TotalGrows ==
  ASSUME NEW W, NEW Y, \A r \in W : r.data \in Seq(Y), NEW recs \in Seq(W)
  PROVE  /\ Total(recs, 0) = 0
         /\ \A i \in 0 .. Len(recs) : Total(recs, i) \in Nat
         /\ \A i \in 1 .. Len(recs) :
               /\ Data(SubSeq(recs, 1, i)) = Data(SubSeq(recs, 1, i - 1)) \o recs[i].data
               /\ Total(recs, i) = Total(recs, i - 1) + Len(recs[i].data)
<1>1. Total(recs, 0) = 0
  <2>1. SubSeq(recs, 1, 0) = <<>>
    BY SubSeqEmpty
  <2>2. Data(<<>>) = <<>>
    BY DataEmpty
  <2>3. Len(<<>>) = 0
    OBVIOUS
  <2> QED
    BY <2>1, <2>2, <2>3, Zenon DEF Total
<1>2. ASSUME NEW i \in 0 .. Len(recs)
      PROVE  SubSeq(recs, 1, i) \in Seq(W) /\ Data(SubSeq(recs, 1, i)) \in Seq(Y)
  <2> DEFINE t == SubSeq(recs, 1, i)
  <2>1. t \in Seq(W)
    OBVIOUS
  <2> HIDE DEF t
  <2>2. Data(t) \in Seq(Y)
    BY <2>1, DataIs
  <2> QED
    BY <2>1, <2>2 DEF t
<1>3. \A i \in 0 .. Len(recs) : Total(recs, i) \in Nat
  BY <1>2, LenProperties DEF Total
<1>4. ASSUME NEW i \in 1 .. Len(recs)
      PROVE  /\ Data(SubSeq(recs, 1, i)) = Data(SubSeq(recs, 1, i - 1)) \o recs[i].data
             /\ Total(recs, i) = Total(recs, i - 1) + Len(recs[i].data)
  <2> DEFINE a == SubSeq(recs, 1, i)
             b == SubSeq(recs, 1, i - 1)
             r == recs[i]
  <2>1. i - 1 \in 0 .. Len(recs) /\ i \in 0 .. Len(recs) /\ r \in W
    OBVIOUS
  <2>2. a \in Seq(W) /\ b \in Seq(W) /\ Data(b) \in Seq(Y)
    BY <1>2, <2>1
  <2>3. a = Append(b, r)
    <3>1. Len(a) = i /\ (\A j \in 1 .. i : a[j] = recs[j])
      OBVIOUS
    <3>2. Len(b) = i - 1 /\ (\A j \in 1 .. i - 1 : b[j] = recs[j])
      OBVIOUS
    <3> DEFINE c == Append(b, r)
    <3>3. /\ c \in Seq(W) /\ Len(c) = i /\ c[i] = r /\ \A j \in 1 .. i - 1 : c[j] = b[j]
      <4> HIDE DEF a, b, r
      <4> QED
        BY <2>1, <2>2, <3>2, AppendProperties
    <3> HIDE DEF a, b, c
    <3>4. \A j \in 1 .. i : a[j] = c[j]
      BY <2>1, <3>1, <3>2, <3>3
    <3>5. a = c
      BY <2>2, <3>1, <3>3, <3>4, SeqEqual
    <3> QED
      BY <3>5 DEF c
  <2>4. r.data \in Seq(Y)
    BY <2>1
  <2> HIDE DEF a, b, r
  <2>5. Data(a) = Data(b) \o r.data
    BY <2>1, <2>2, <2>3, DataAppend
  <2>6. Len(Data(a)) = Len(Data(b)) + Len(r.data)
    BY <2>2, <2>4, <2>5, ConcatProperties
  <2> QED
    BY <2>5, <2>6 DEF Total, a, b, r
<1> QED
  BY <1>1, <1>3, <1>4

\* The requests that fit into the buffer completely are the first ones.
LEMMA WholeOnes ==
  ASSUME ConnAssumption, NEW recs \in Seq(WriteRecords)
  PROVE  LET whole == {i \in DOMAIN recs : /\ Total(recs, i) <= WRBUFSZ
                                           /\ Total(recs, i - 1) < WRBUFSZ}
         IN  \E n \in 0 .. Len(recs) :
                /\ whole = 1 .. n /\ Cardinality(whole) = n /\ Total(recs, n) <= WRBUFSZ
                /\ n < Len(recs) => Total(recs, n + 1) > WRBUFSZ
<1> DEFINE whole == {i \in DOMAIN recs : /\ Total(recs, i) <= WRBUFSZ
                                         /\ Total(recs, i - 1) < WRBUFSZ}
           L == Len(recs)
           T(i) == Total(recs, i)
<1>1. L \in Nat /\ DOMAIN recs = 1 .. L
  OBVIOUS
<1>2. /\ T(0) = 0 /\ \A i \in 0 .. L : T(i) \in Nat
      /\ \A i \in 1 .. L : T(i - 1) < T(i)
  <2>1. \A r \in WriteRecords : r.data \in Seq(OutBytes)
    BY DEF WriteRecords
  <2>2. \A i \in 1 .. L : Len(recs[i].data) \in Nat \ {0}
    <3> SUFFICES ASSUME NEW i \in 1 .. L PROVE Len(recs[i].data) \in Nat \ {0}
      OBVIOUS
    <3>1. recs[i] \in WriteRecords
      OBVIOUS
    <3>2. recs[i].data \in Seq(OutBytes) /\ recs[i].data # <<>>
      BY <3>1 DEF WriteRecords
    <3> QED
      BY <3>2, EmptySeq
  <2>3. /\ T(0) = 0 /\ \A i \in 0 .. L : T(i) \in Nat
        /\ \A i \in 1 .. L : T(i) = T(i - 1) + Len(recs[i].data)
    <3> HIDE DEF L
    <3> QED
      BY <2>1, TotalGrows DEF L
  <2>4. ASSUME NEW i \in 1 .. L PROVE T(i - 1) < T(i)
    <3>1. i - 1 \in 0 .. L
      BY <1>1
    <3> HIDE DEF T, L
    <3> QED
      BY <2>2, <2>3, <3>1
  <2> HIDE DEF T, L
  <2> QED
    BY <2>3, <2>4
<1> HIDE DEF T
<1>3. WRBUFSZ \in Nat
  BY DEF ConnAssumption
<1> DEFINE Q == {i \in 1 .. L + 1 : i = L + 1 \/ T(i) > WRBUFSZ}
<1>4. PICK q \in Q : \A m \in Q : q <= m
  <2>1. Q \subseteq Nat /\ L + 1 \in Q
    BY <1>1
  <2> HIDE DEF Q
  <2> QED
    BY <2>1, LeastNatural
<1> DEFINE n == q - 1
<1>5. n \in 0 .. L /\ n + 1 = q
  BY <1>1, <1>4
<1>6. \A i \in 1 .. n : T(i) <= WRBUFSZ
  <2> SUFFICES ASSUME NEW i \in 1 .. n PROVE T(i) <= WRBUFSZ
    OBVIOUS
  <2>1. i \notin Q /\ i \in 1 .. L /\ i \in 0 .. L
    BY <1>1, <1>4, <1>5
  <2> QED
    BY <1>2, <1>3, <2>1
<1>7. n < L => T(n + 1) > WRBUFSZ
  BY <1>1, <1>4, <1>5
<1>8. T(n) <= WRBUFSZ
  <2>1. CASE n = 0
    <3>1. T(n) = 0
      BY <1>2, <2>1
    <3> QED
      BY <1>3, <3>1
  <2>2. CASE n # 0
    <3>1. n \in 1 .. n
      BY <1>5, <2>2
    <3> HIDE DEF n
    <3> QED
      BY <1>6, <3>1
  <2> QED
    BY <2>1, <2>2
\* The totals grow, so what comes after the first that does not fit does not either.
<1>9. \A i \in q .. L : T(i) > WRBUFSZ
  <2> DEFINE S == {d \in 0 .. L - q : T(q + d) > WRBUFSZ}
  <2>1. CASE q = L + 1
    BY <1>1, <2>1
  <2>2. CASE q # L + 1
    <3>1. L - q \in Nat /\ q \in 1 .. L
      BY <1>1, <1>4, <2>2
    <3>2. 0 \in S
      <4>1. q + 0 = q /\ T(q) > WRBUFSZ
        BY <1>4, <2>2
      <4> QED
        BY <3>1, <4>1
    <3>3. ASSUME NEW d \in 0 .. L - q - 1, d \in S PROVE d + 1 \in S
      <4>1. PICK i : i = q + d
        OBVIOUS
      <4>2. PICK j : j = q + (d + 1)
        OBVIOUS
      <4>3. j \in 1 .. L /\ j - 1 = i /\ i \in 0 .. L /\ j \in 0 .. L /\ d + 1 \in 0 .. L - q
        BY <1>1, <3>1, <4>1, <4>2
      <4>4. T(i) > WRBUFSZ /\ T(i) < T(j) /\ T(i) \in Nat /\ T(j) \in Nat
        BY <1>2, <3>3, <4>1, <4>3
      <4>5. T(j) > WRBUFSZ
        BY <1>3, <4>4
      <4> QED
        BY <4>2, <4>3, <4>5
    <3>4. \A d \in 0 .. L - q : d \in S
      <4>1. \A d \in 0 .. L - q - 1 : d \in S => d + 1 \in S
        BY <3>3
      <4> HIDE DEF S, L
      <4> QED
        BY <3>1, <3>2, <4>1, CountingUp
    <3> SUFFICES ASSUME NEW i \in q .. L PROVE T(i) > WRBUFSZ
      OBVIOUS
    <3>5. i - q \in 0 .. L - q /\ q + (i - q) = i
      BY <1>1, <3>1
    <3>6. i - q \in S
      <4> HIDE DEF S
      <4> QED
        BY <3>4, <3>5
    <3> QED
      BY <3>5, <3>6
  <2> QED
    BY <2>1, <2>2
<1>10. whole = 1 .. n
  <2>1. ASSUME NEW i \in whole PROVE i \in 1 .. n
    <3>1. i \in 1 .. L /\ T(i) <= WRBUFSZ /\ T(i) \in Nat
      BY <1>1, <1>2 DEF T
    <3>2. ~(i \in q .. L)
      BY <1>3, <1>9, <3>1
    <3> QED
      BY <1>1, <1>5, <3>1, <3>2
  <2>2. ASSUME NEW i \in 1 .. n PROVE i \in whole
    <3>1. i \in 1 .. L /\ i \in 0 .. L /\ i - 1 \in 0 .. L
      BY <1>1, <1>5
    <3>2. T(i) <= WRBUFSZ /\ T(i - 1) < T(i) /\ T(i) \in Nat /\ T(i - 1) \in Nat
      BY <1>2, <1>6, <3>1
    <3>3. T(i) <= WRBUFSZ /\ T(i - 1) < WRBUFSZ
      BY <1>3, <3>2
    <3> QED
      BY <1>1, <3>1, <3>3 DEF T
  <2> HIDE DEF whole, n
  <2> QED
    BY <2>1, <2>2
<1>11. Cardinality(1 .. n) = n
  <2>1. n \in Nat
    BY <1>5
  <2> HIDE DEF n
  <2>2. 1 \in Int /\ n \in Int /\ n - 1 + 1 = n
    BY <2>1
  <2> QED
    BY <2>1, <2>2, FS_Interval
<1> HIDE DEF n, whole, L
<1>12. /\ whole = 1 .. n /\ Cardinality(whole) = n /\ T(n) <= WRBUFSZ
       /\ n < L => T(n + 1) > WRBUFSZ
  BY <1>7, <1>8, <1>10, <1>11
<1>13. \E m \in 0 .. L : /\ whole = 1 .. m /\ Cardinality(whole) = m /\ T(m) <= WRBUFSZ
                         /\ m < L => T(m + 1) > WRBUFSZ
  BY <1>5, <1>12
<1> QED
  BY <1>13 DEF T, L, whole

\* A sequence is cut into what fits into a buffer of size m and the rest.
CutsAt(p, h, z, m) ==
    /\ m < Len(p \o (h \o z))
    /\ SubSeq(p \o (h \o z), 1, m) \o (SubSeq(h, m - Len(p) + 1, Len(h)) \o z) = p \o (h \o z)

\* A sequence that is cut within its middle part h is whole again when the ends meet.
LEMMA CutAt ==
  ASSUME NEW Y, NEW p \in Seq(Y), NEW h \in Seq(Y), NEW z \in Seq(Y), NEW m \in Nat,
         Len(p) <= m, m < Len(p) + Len(h)
  PROVE  CutsAt(p, h, z, m)
<1> DEFINE all == p \o (h \o z)
<1>0. all = p \o (h \o z)
  OBVIOUS
<1> HIDE DEF all
<1> DEFINE x == SubSeq(all, 1, m)
           y == SubSeq(h, m - Len(p) + 1, Len(h))
<1>1. Len(p) \in Nat /\ Len(h) \in Nat /\ Len(z) \in Nat
  BY LenProperties
<1>2. h \o z \in Seq(Y) /\ Len(h \o z) = Len(h) + Len(z)
      /\ \A i \in 1 .. Len(h) + Len(z) : (h \o z)[i] = IF i <= Len(h) THEN h[i] ELSE z[i - Len(h)]
  BY ConcatProperties
<1> DEFINE hz == h \o z
<1> HIDE DEF hz
<1>3. /\ all \in Seq(Y) /\ Len(all) = Len(p) + Len(h) + Len(z)
      /\ \A i \in 1 .. Len(p) + Len(h) + Len(z) :
            all[i] = IF i <= Len(p) THEN p[i] ELSE hz[i - Len(p)]
  <2>1. hz \in Seq(Y) /\ Len(hz) = Len(h) + Len(z) /\ all = p \o hz
    BY <1>0, <1>2 DEF hz
  <2>2. /\ all \in Seq(Y) /\ Len(all) = Len(p) + Len(hz)
        /\ \A i \in 1 .. Len(p) + Len(hz) :
              all[i] = IF i <= Len(p) THEN p[i] ELSE hz[i - Len(p)]
    <3>1. /\ p \o hz \in Seq(Y) /\ Len(p \o hz) = Len(p) + Len(hz)
          /\ \A i \in 1 .. Len(p) + Len(hz) :
                (p \o hz)[i] = IF i <= Len(p) THEN p[i] ELSE hz[i - Len(p)]
      BY <2>1, ConcatProperties
    <3> QED
      BY <2>1, <3>1, Zenon
  <2>3. Len(p) + Len(hz) = Len(p) + Len(h) + Len(z)
    BY <1>1, <2>1
  <2> QED
    BY <2>2, <2>3
<1>4. x \in Seq(Y) /\ Len(x) = m /\ \A i \in 1 .. m : x[i] = all[i]
  BY <1>1, <1>3
<1>5. /\ y \in Seq(Y) /\ Len(y) = Len(p) + Len(h) - m
      /\ \A i \in 1 .. Len(p) + Len(h) - m : y[i] = h[m - Len(p) + i]
  BY <1>1
<1> HIDE DEF x, y
<1>c. ASSUME NEW u \in Seq(Y), NEW v \in Seq(Y)
      PROVE  /\ u \o v \in Seq(Y) /\ Len(u \o v) = Len(u) + Len(v)
             /\ \A i \in 1 .. Len(u) + Len(v) :
                   (u \o v)[i] = IF i <= Len(u) THEN u[i] ELSE v[i - Len(u)]
  BY ConcatProperties
<1> DEFINE yz == y \o z
<1>6. /\ yz \in Seq(Y) /\ Len(yz) = Len(p) + Len(h) - m + Len(z)
      /\ \A i \in 1 .. Len(p) + Len(h) - m + Len(z) :
            yz[i] = IF i <= Len(p) + Len(h) - m THEN y[i] ELSE z[i - (Len(p) + Len(h) - m)]
  <2>1. /\ yz \in Seq(Y) /\ Len(yz) = Len(y) + Len(z)
        /\ \A i \in 1 .. Len(y) + Len(z) : yz[i] = IF i <= Len(y) THEN y[i] ELSE z[i - Len(y)]
    BY <1>5, <1>c, Zenon
  <2> HIDE DEF yz
  <2> QED
    BY <1>5, <2>1
<1> HIDE DEF yz
<1> DEFINE r == x \o yz
<1>7. /\ r \in Seq(Y) /\ Len(r) = Len(x) + Len(yz)
      /\ \A i \in 1 .. Len(x) + Len(yz) : r[i] = IF i <= Len(x) THEN x[i] ELSE yz[i - Len(x)]
  BY <1>4, <1>6, <1>c, Zenon
<1>8. Len(r) = Len(all)
  BY <1>1, <1>3, <1>4, <1>6, <1>7
<1> HIDE DEF r
<1>9. ASSUME NEW i \in 1 .. Len(r) PROVE r[i] = all[i]
  <2>1. i \in 1 .. Len(p) + Len(h) + Len(z)
    BY <1>3, <1>8
  <2>2. CASE i <= m
    BY <1>1, <1>4, <1>6, <1>7, <2>1, <2>2
  <2>3. CASE i > m
    <3>1. r[i] = yz[i - m] /\ i - m \in 1 .. Len(p) + Len(h) - m + Len(z)
      BY <1>1, <1>4, <1>6, <1>7, <2>1, <2>3
    <3>2. all[i] = hz[i - Len(p)] /\ i - Len(p) \in 1 .. Len(h) + Len(z)
      BY <1>1, <1>3, <2>1, <2>3
    <3>3. hz[i - Len(p)] = IF i - Len(p) <= Len(h) THEN h[i - Len(p)] ELSE z[i - Len(p) - Len(h)]
      BY <1>2, <3>2 DEF hz
    <3>4. CASE i - m <= Len(p) + Len(h) - m
      <4>1. i - m \in 1 .. Len(p) + Len(h) - m /\ m - Len(p) + (i - m) = i - Len(p)
            /\ i - Len(p) <= Len(h)
        BY <1>1, <2>1, <3>1, <3>4
      <4>2. yz[i - m] = y[i - m]
        BY <1>6, <3>1, <3>4
      <4>3. y[i - m] = h[m - Len(p) + (i - m)]
        BY <1>5, <4>1
      <4> QED
        BY <3>1, <3>2, <3>3, <4>1, <4>2, <4>3
    <3>5. CASE ~(i - m <= Len(p) + Len(h) - m)
      <4>1. yz[i - m] = z[i - m - (Len(p) + Len(h) - m)]
        BY <1>6, <3>1, <3>5
      <4>2. i - m - (Len(p) + Len(h) - m) = i - Len(p) - Len(h) /\ ~(i - Len(p) <= Len(h))
        BY <1>1, <2>1, <3>5
      <4> QED
        BY <3>1, <3>2, <3>3, <4>1, <4>2
    <3> QED
      BY <3>4, <3>5
  <2> QED
    BY <1>1, <2>1, <2>2, <2>3
<1>10. r = all
  BY <1>3, <1>7, <1>8, <1>9, SeqEqual
<1>11. m < Len(all)
  BY <1>1, <1>3
<1> QED
  BY <1>10, <1>11 DEF CutsAt, r, x, y, yz, all


\* The last byte of the i-th request is at Total(recs, i).
LEMMA LastByteAt ==
  ASSUME NEW recs \in Seq(WriteRecords), NEW i \in 1 .. Len(recs)
  PROVE  /\ Total(recs, i) \in Nat \ {0} /\ Total(recs, i) <= Len(Data(recs))
         /\ Data(recs)[Total(recs, i)] = <<recs[i].id, sc.out[recs[i].id]>>
<1> DEFINE Y == OutBytes
           a == Data(SubSeq(recs, 1, i - 1))
           d == recs[i].data
           b == Data(SubSeq(recs, 1, i))
           c == Data(SubSeq(recs, i + 1, Len(recs)))
<1>1. \A r \in WriteRecords : r.data \in Seq(Y)
  BY DEF WriteRecords
<1>2. recs[i] \in WriteRecords
  OBVIOUS
<1>3. d \in Seq(Y) /\ d # <<>> /\ d[Len(d)] = <<recs[i].id, sc.out[recs[i].id]>>
  BY <1>2 DEF WriteRecords
<1>4. Len(d) \in Nat \ {0}
  <2> HIDE DEF d, Y
  <2> QED
    BY <1>3, EmptySeq
<1>5. i \in 0 .. Len(recs) /\ i - 1 \in 0 .. Len(recs) /\ Len(recs) \in Nat
  OBVIOUS
<1> HIDE DEF Y
<1>6. SubSeq(recs, 1, i - 1) \in Seq(WriteRecords) /\ SubSeq(recs, i + 1, Len(recs)) \in Seq(WriteRecords)
      /\ SubSeq(recs, 1, i) \in Seq(WriteRecords)
  BY <1>5
<1>7. a \in Seq(Y) /\ b \in Seq(Y) /\ c \in Seq(Y)
  BY <1>1, <1>6, DataIs
<1>8. b = a \o d
  BY <1>1, TotalGrows
<1>9. Data(recs) = b \o c
  BY <1>1, <1>5, DataCut
<1>10. Total(recs, i) = Len(b)
  BY DEF Total
<1> HIDE DEF a, b, c, d
<1>11. Len(a) \in Nat /\ Len(b) = Len(a) + Len(d) /\ b[Len(a) + Len(d)] = d[Len(d)]
  <2>1. /\ Len(a \o d) = Len(a) + Len(d) /\ Len(a) \in Nat
        /\ \A j \in 1 .. Len(a) + Len(d) : (a \o d)[j] = IF j <= Len(a) THEN a[j] ELSE d[j - Len(a)]
    BY <1>3, <1>7, ConcatProperties, LenProperties
  <2>2. Len(a) + Len(d) \in 1 .. Len(a) + Len(d) /\ ~(Len(a) + Len(d) <= Len(a))
        /\ Len(a) + Len(d) - Len(a) = Len(d)
    BY <1>4, <2>1
  <2> QED
    BY <1>8, <2>1, <2>2
<1>12. /\ Len(b \o c) = Len(b) + Len(c) /\ Len(c) \in Nat
       /\ \A j \in 1 .. Len(b) + Len(c) : (b \o c)[j] = IF j <= Len(b) THEN b[j] ELSE c[j - Len(b)]
  BY <1>7, ConcatProperties, LenProperties
<1>13. Len(b) \in 1 .. Len(b) + Len(c)
  BY <1>4, <1>11, <1>12
<1>14. (b \o c)[Len(b)] = b[Len(b)]
  BY <1>12, <1>13
<1>15. Len(b) \in Nat \ {0} /\ Len(b) <= Len(b \o c)
  BY <1>4, <1>11, <1>12
<1>16. (b \o c)[Len(b)] = <<recs[i].id, sc.out[recs[i].id]>>
  BY <1>3, <1>11, <1>14 DEF d
<1> QED
  BY <1>9, <1>10, <1>15, <1>16

\* An empty buffer takes the beginning of the queued data, the queue keeps the
\* rest, and the requests that are complete are noted with their last bytes.
FilledFrom(f, s) ==
    /\ DOMAIN f = ConnFields
    /\ \A x \in ConnFields \ {"wrbuf", "writerecs", "writenotify"} : f[x] = s[x]
    /\ f.wrbuf \in Seq(OutBytes) /\ f.writerecs \in Seq(WriteRecords)
    /\ f.writenotify \in Seq([id : Nat, pos : Nat])
    /\ f.wrbuf \o Data(f.writerecs) = Data(s.writerecs)
    /\ \A i \in DOMAIN f.writenotify : NoteOK(f.writenotify[i], f.wrbuf)

\* The head of dowrite moves the front of the queue into the buffer, and notes each request
\* that went in completely at its last byte.
LEMMA Filled ==
  ASSUME ConnAssumption, NEW s, DOMAIN s = ConnFields, s.writerecs \in Seq(WriteRecords),
         s.writerecs # <<>>, s.wrbuf = <<>>
  PROVE  FilledFrom(Fill(s), s)
<1> DEFINE recs == s.writerecs
           L == Len(recs)
           whole == {i \in DOMAIN recs : /\ Total(recs, i) <= WRBUFSZ
                                         /\ Total(recs, i - 1) < WRBUFSZ}
           n == Cardinality(whole)
           all == Data(recs)
           rest == SubSeq(recs, n + 1, Len(recs))
           room == WRBUFSZ - Total(recs, n)
           b == SubSeq(all, 1, Min({WRBUFSZ, Len(all)}))
           rs == IF rest = <<>> THEN <<>>
                 ELSE [rest EXCEPT ![1].data = SubSeq(@, room + 1, Len(@))]
           wn == [i \in 1 .. n |-> [id |-> recs[i].id, pos |-> Total(recs, i)]]
           Y == OutBytes
<1>1. Fill(s) = [s EXCEPT !.wrbuf = b, !.writerecs = rs, !.writenotify = wn]
  BY Zenon DEF Fill
<1>2. /\ n \in 0 .. L /\ Total(recs, n) <= WRBUFSZ
      /\ n < L => Total(recs, n + 1) > WRBUFSZ
  <2> HIDE DEF recs
  <2>1. PICK m \in 0 .. Len(recs) :
            /\ whole = 1 .. m /\ Cardinality(whole) = m /\ Total(recs, m) <= WRBUFSZ
            /\ m < Len(recs) => Total(recs, m + 1) > WRBUFSZ
    BY WholeOnes DEF recs
  <2> HIDE DEF whole
  <2> QED
    BY <2>1
<1> HIDE DEF n, recs
<1>3. recs \in Seq(WriteRecords) /\ recs # <<>> /\ L \in Nat
  BY DEF recs
<1>4. \A r \in WriteRecords : r.data \in Seq(Y)
  BY DEF WriteRecords
<1> HIDE DEF Y
<1>5. all \in Seq(Y)
  BY <1>3, <1>4, DataIs
<1>6. WRBUFSZ \in Nat /\ Len(all) \in Nat
  BY <1>5, LenProperties DEF ConnAssumption
<1>7. Min({WRBUFSZ, Len(all)}) = IF WRBUFSZ <= Len(all) THEN WRBUFSZ ELSE Len(all)
  <2> DEFINE x == WRBUFSZ
             y == Len(all)
  <2>1. x \in Nat /\ y \in Nat
    BY <1>6
  <2> HIDE DEF x, y
  <2>2. Min({x, y}) = IF x <= y THEN x ELSE y
    BY <2>1 DEF Min
  <2> QED
    BY <2>2 DEF x, y
<1> DEFINE p == Data(SubSeq(recs, 1, n))
<1>8. SubSeq(recs, 1, n) \in Seq(WriteRecords) /\ rest \in Seq(WriteRecords)
      /\ Len(rest) = L - n /\ \A i \in 1 .. L - n : rest[i] = recs[n + i]
  BY <1>2, <1>3
<1>9. p \in Seq(Y) /\ Data(rest) \in Seq(Y)
  BY <1>4, <1>8, DataIs
<1>10. all = p \o Data(rest) /\ Len(p) = Total(recs, n) /\ Len(p) \in Nat
  <2>1. all = p \o Data(rest)
    <3> HIDE DEF Y
    <3> QED
      BY <1>2, <1>3, <1>4, DataCut
  <2> QED
    BY <1>9, <2>1, LenProperties DEF Total
<1> HIDE DEF all, rest, p
<1>11. /\ rs \in Seq(WriteRecords) /\ b \in Seq(Y) /\ b \o Data(rs) = all
       /\ Len(b) = Min({WRBUFSZ, Len(all)}) /\ \A i \in 1 .. Len(b) : b[i] = all[i]
  <2>1. /\ b \in Seq(Y) /\ Len(b) = Min({WRBUFSZ, Len(all)})
        /\ \A i \in 1 .. Len(b) : b[i] = all[i]
    <3> DEFINE k == Min({WRBUFSZ, Len(all)})
    <3>1. k \in 0 .. Len(all)
      BY <1>6, <1>7
    <3> HIDE DEF k
    <3>2. /\ SubSeq(all, 1, k) \in Seq(Y) /\ Len(SubSeq(all, 1, k)) = k
          /\ \A i \in 1 .. k : SubSeq(all, 1, k)[i] = all[i]
      BY <1>5, <3>1
    <3> QED
      BY <3>2 DEF k
  <2>2. CASE n = L
    <3>1. rest = <<>>
      BY <1>2, <1>3, <1>8, <2>2
    <3>2. rs = <<>> /\ rs \in Seq(WriteRecords)
      BY <3>1
    <3>3. all = p
      BY <1>9, <1>10, <3>1, DataEmpty, ConcatEmptySeq
    <3>4. Min({WRBUFSZ, Len(all)}) = Len(all)
      BY <1>2, <1>6, <1>7, <1>10, <3>3
    <3>5. b = all
      BY <1>5, <3>4, SubSeqFull
    <3>6. b \o Data(rs) = all
      BY <1>5, <3>2, <3>5, DataEmpty, ConcatEmptySeq
    <3> QED
      BY <2>1, <3>2, <3>6
  <2>3. CASE n # L
    <3> DEFINE h == rest[1]
               z == Data(SubSeq(rest, 2, Len(rest)))
               cut == SubSeq(h.data, room + 1, Len(h.data))
    <3>1. n < L /\ n \in Nat /\ Len(rest) \in Nat \ {0} /\ rest # <<>>
          /\ n + 1 \in 1 .. L /\ 1 \in 1 .. Len(rest) /\ 1 \in 0 .. Len(rest)
      BY <1>2, <1>3, <1>8, <2>3
    <3>2. h = recs[n + 1] /\ h \in WriteRecords
      BY <1>8, <3>1
    <3>3. /\ h \in [id : 1 .. Len(sc.out), data : Seq(Y)]
          /\ h.data \in Seq(Y) /\ h.data # <<>>
          /\ h.data[Len(h.data)] = <<h.id, sc.out[h.id]>>
      BY <3>2 DEF WriteRecords, Y
    <3>4. Total(recs, n + 1) = Len(p) + Len(h.data)
      <4>1. \A i \in 1 .. Len(recs) : Total(recs, i) = Total(recs, i - 1) + Len(recs[i].data)
        BY <1>3, <1>4, TotalGrows
      <4>2. n + 1 - 1 = n
        BY <3>1
      <4> QED
        BY <1>10, <3>1, <3>2, <4>1, <4>2
    <3>5. /\ Len(h.data) \in Nat /\ Len(p) <= WRBUFSZ /\ WRBUFSZ < Len(p) + Len(h.data)
          /\ room = WRBUFSZ - Len(p)
      BY <1>2, <1>6, <1>10, <3>1, <3>3, <3>4
    <3>6. /\ SubSeq(rest, 1, 1) = <<h>> /\ SubSeq(rest, 2, Len(rest)) \in Seq(WriteRecords)
          /\ z \in Seq(Y)
      <4>1. SubSeq(rest, 1, 1) = <<h>>
        <5>1. /\ SubSeq(rest, 1, 1) \in Seq(WriteRecords) /\ Len(SubSeq(rest, 1, 1)) = 1
              /\ SubSeq(rest, 1, 1)[1] = rest[1]
          BY <1>8, <3>1
        <5> DEFINE u == SubSeq(rest, 1, 1)
                   v == <<h>>
        <5>2. /\ u \in Seq(WriteRecords) /\ Len(u) = 1 /\ u[1] = h
              /\ v \in Seq(WriteRecords) /\ Len(v) = 1 /\ v[1] = h
          BY <3>2, <5>1
        <5> HIDE DEF u, v
        <5>3. u = v
          BY <5>2, SeqEqual
        <5> QED
          BY <5>3 DEF u, v
      <4>2. SubSeq(rest, 2, Len(rest)) \in Seq(WriteRecords)
        BY <1>8, <3>1
      <4>3. z \in Seq(Y)
        BY <1>4, <4>2, DataIs
      <4> QED
        BY <4>1, <4>2, <4>3
    <3>7. Data(rest) = h.data \o z
      <4>1. Data(rest) = Data(SubSeq(rest, 1, 1)) \o Data(SubSeq(rest, 1 + 1, Len(rest)))
        BY <1>4, <1>8, <3>1, DataCut
      <4>2. Data(<<h>>) = h.data
        BY <3>3, DataOne
      <4>3. 1 + 1 = 2
        OBVIOUS
      <4> QED
        BY <3>6, <4>1, <4>2, <4>3, Zenon
    <3> DEFINE hc == [h EXCEPT !.data = cut]
    <3>8. rs = [rest EXCEPT ![1] = hc]
      BY <3>1
    <3>9. /\ cut \in Seq(Y) /\ cut # <<>> /\ cut[Len(cut)] = h.data[Len(h.data)]
      <4> DEFINE d == h.data
      <4> HIDE DEF room
      <4>1. room \in Nat /\ room + 1 \in 1 .. Len(d) /\ d \in Seq(Y) /\ Len(d) \in Nat
        BY <1>6, <1>10, <3>3, <3>5
      <4> HIDE DEF d
      <4>2. LET c == SubSeq(d, room + 1, Len(d))
            IN  /\ c \in Seq(Y) /\ Len(c) = Len(d) - room
                /\ \A i \in 1 .. Len(d) - room : c[i] = d[room + i]
        BY <4>1
      <4> DEFINE c == SubSeq(d, room + 1, Len(d))
      <4>3. Len(d) - room \in 1 .. Len(d) - room /\ room + (Len(d) - room) = Len(d)
        BY <4>1
      <4>4. c \in Seq(Y) /\ Len(c) = Len(d) - room /\ c[Len(d) - room] = d[Len(d)]
        <5>1. c[Len(d) - room] = d[room + (Len(d) - room)]
          BY <4>2, <4>3
        <5> QED
          BY <4>2, <4>3, <5>1
      <4> HIDE DEF c
      <4>5. c # <<>>
        BY <4>3, <4>4
      <4>6. c = cut
        BY DEF c, d
      <4> QED
        BY <4>4, <4>5, <4>6 DEF d
    <3>10. hc \in WriteRecords /\ hc.data = cut
      <4> HIDE DEF cut, h
      <4>1. hc.id = h.id /\ hc.data = cut /\ hc \in [id : 1 .. Len(sc.out), data : Seq(Y)]
        BY <3>3, <3>9
      <4> HIDE DEF hc
      <4> QED
        BY <3>3, <3>9, <4>1 DEF WriteRecords, Y
    <3> HIDE DEF hc, rs, h, cut
    <3>11. /\ rs \in Seq(WriteRecords) /\ Len(rs) = Len(rest) /\ rs[1] = hc
           /\ \A i \in 2 .. Len(rest) : rs[i] = rest[i]
      <4>1. /\ rs \in Seq(WriteRecords) /\ Len(rs) = Len(rest)
            /\ \A i \in 1 .. Len(rest) : rs[i] = IF i = 1 THEN hc ELSE rest[i]
        BY <1>8, <3>1, <3>8, <3>10, ExceptSeq
      <4> QED
        BY <3>1, <4>1
    <3>12. SubSeq(rs, 1, 1) = <<hc>> /\ SubSeq(rs, 2, Len(rs)) = SubSeq(rest, 2, Len(rest))
      <4>1. /\ SubSeq(rs, 1, 1) \in Seq(WriteRecords) /\ Len(SubSeq(rs, 1, 1)) = 1
            /\ SubSeq(rs, 1, 1)[1] = rs[1]
        BY <3>1, <3>11
      <4> DEFINE u == SubSeq(rs, 1, 1)
                 v == <<hc>>
      <4>2. /\ u \in Seq(WriteRecords) /\ Len(u) = 1 /\ u[1] = hc
            /\ v \in Seq(WriteRecords) /\ Len(v) = 1 /\ v[1] = hc
        BY <3>10, <3>11, <4>1
      <4> HIDE DEF u, v
      <4>3. u = v
        BY <4>2, SeqEqual
      <4> DEFINE x == SubSeq(rs, 2, Len(rs))
                 y == SubSeq(rest, 2, Len(rest))
      <4>4. /\ x \in Seq(WriteRecords) /\ Len(x) = Len(rest) - 1
            /\ \A i \in 1 .. Len(rest) - 1 : x[i] = rs[i + 1]
        BY <3>1, <3>11
      <4>5. /\ y \in Seq(WriteRecords) /\ Len(y) = Len(rest) - 1
            /\ \A i \in 1 .. Len(rest) - 1 : y[i] = rest[i + 1]
        BY <1>8, <3>1
      <4> HIDE DEF x, y
      <4>6. \A i \in 1 .. Len(rest) - 1 : x[i] = y[i]
        <5> SUFFICES ASSUME NEW i \in 1 .. Len(rest) - 1 PROVE x[i] = y[i]
          OBVIOUS
        <5>1. i + 1 \in 2 .. Len(rest)
          BY <3>1
        <5> QED
          BY <3>11, <4>4, <4>5, <5>1
      <4>7. x = y
        BY <4>4, <4>5, <4>6, SeqEqual
      <4> QED
        BY <4>3, <4>7 DEF u, v, x, y
    <3>13. Data(rs) = cut \o z
      <4>1. 1 \in 0 .. Len(rs)
        BY <3>1, <3>11
      <4>2. Data(rs) = Data(SubSeq(rs, 1, 1)) \o Data(SubSeq(rs, 1 + 1, Len(rs)))
        BY <1>4, <3>11, <4>1, DataCut
      <4>3. Data(<<hc>>) = hc.data
        BY <3>9, <3>10, DataOne
      <4>4. 1 + 1 = 2
        OBVIOUS
      <4> QED
        BY <3>10, <3>12, <4>2, <4>3, <4>4, Zenon
    <3>14. all = p \o (h.data \o z)
      BY <1>10, <3>7
    <3>15. WRBUFSZ < Len(all) /\ SubSeq(all, 1, WRBUFSZ) \o (cut \o z) = all
      <4> DEFINE d == h.data
      <4>1. /\ d \in Seq(Y) /\ Len(p) <= WRBUFSZ /\ WRBUFSZ < Len(p) + Len(d)
            /\ all = p \o (d \o z) /\ cut = SubSeq(d, WRBUFSZ - Len(p) + 1, Len(d))
        BY <3>3, <3>5, <3>14 DEF cut
      <4> HIDE DEF d, z
      <4>2. /\ WRBUFSZ < Len(all)
            /\ SubSeq(all, 1, WRBUFSZ)
                 \o (SubSeq(d, WRBUFSZ - Len(p) + 1, Len(d)) \o z) = all
        <5>1. WRBUFSZ \in Nat /\ p \in Seq(Y) /\ z \in Seq(Y)
          BY <1>6, <1>9, <3>6
        <5>2. /\ WRBUFSZ < Len(p \o (d \o z))
              /\ SubSeq(p \o (d \o z), 1, WRBUFSZ)
                   \o (SubSeq(d, WRBUFSZ - Len(p) + 1, Len(d)) \o z) = p \o (d \o z)
          <6>1. CutsAt(p, d, z, WRBUFSZ)
            BY <4>1, <5>1, CutAt
          <6> QED
            BY <6>1 DEF CutsAt
        <5> QED
          BY <4>1, <5>2
      <4> QED
        BY <4>1, <4>2
    <3>16. b \o Data(rs) = all
      <4>1. Min({WRBUFSZ, Len(all)}) = WRBUFSZ
        BY <1>6, <1>7, <3>15
      <4> QED
        BY <3>13, <3>15, <4>1
    <3> QED
      BY <2>1, <3>11, <3>16
  <2> QED
    BY <2>2, <2>3
<1> HIDE DEF b, rs
<1>12. ASSUME NEW i \in 1 .. n
       PROVE  /\ wn[i] \in [id : Nat, pos : Nat]
              /\ NoteOK(wn[i], b)
  <2>1. i \in 1 .. L /\ n \in Nat
    BY <1>2, <1>3
  <2>2. wn[i].id = recs[i].id /\ wn[i].pos = Total(recs, i)
        /\ wn[i] = [id |-> recs[i].id, pos |-> Total(recs, i)]
    OBVIOUS
  <2>3. recs[i] \in WriteRecords
    BY <1>3, <2>1
  <2>4. recs[i].id \in 1 .. Len(sc.out) /\ recs[i].id \in Nat
    BY <2>3 DEF WriteRecords
  <2>5. /\ Total(recs, i) \in Nat \ {0} /\ Total(recs, i) <= Len(all)
        /\ all[Total(recs, i)] = <<recs[i].id, sc.out[recs[i].id]>>
    BY <1>3, <2>1, LastByteAt DEF all
  <2>6. Total(recs, i) <= WRBUFSZ
    <3>1. whole = 1 .. n
      <4>1. PICK m \in 0 .. Len(recs) : whole = 1 .. m /\ Cardinality(whole) = m
        BY <1>3, WholeOnes
      <4> QED
        BY <4>1 DEF n
    <3> QED
      BY <3>1
  <2>7. Total(recs, i) \in 1 .. Len(b)
    BY <1>6, <1>7, <1>11, <2>5, <2>6
  <2>8. b[Total(recs, i)] = all[Total(recs, i)]
    BY <1>11, <2>7
  <2> HIDE DEF wn
  <2> QED
    BY <2>2, <2>4, <2>5, <2>7, <2>8 DEF NoteOK
<1>13. wn \in Seq([id : Nat, pos : Nat]) /\ DOMAIN wn = 1 .. n
  <2>1. n \in Nat
    BY <1>2
  <2> DEFINE R == [id : Nat, pos : Nat]
  <2>2. wn = [i \in 1 .. n |-> wn[i]] /\ \A i \in 1 .. n : wn[i] \in R
    BY <1>12
  <2> HIDE DEF wn, R
  <2>3. wn \in Seq(R) /\ DOMAIN wn = 1 .. n
    BY <2>1, <2>2
  <2> QED
    BY <2>3 DEF R
<1> HIDE DEF wn, Y
<1>14. Data(s.writerecs) = all
  BY DEF all, recs
<1>15. b \in Seq(OutBytes)
  BY <1>11 DEF Y
<1> DEFINE f == Fill(s)
<1>16. /\ DOMAIN f = ConnFields
       /\ \A x \in ConnFields \ {"wrbuf", "writerecs", "writenotify"} : f[x] = s[x]
       /\ f.wrbuf = b /\ f.writerecs = rs /\ f.writenotify = wn
  BY <1>1, Fields
<1> HIDE DEF f
<1>17. FilledFrom(f, s)
  BY <1>11, <1>12, <1>13, <1>14, <1>15, <1>16 DEF FilledFrom
<1> QED
  BY <1>17 DEF f

-----------------------------------------------------------------------------
(* Connection: functions that change the struct *)

\* t has the buffer of s, and is closed if s is.
SameBuffer(t, s) == /\ DOMAIN t = ConnFields /\ t.wrbuf = s.wrbuf /\ t.wrbufpos = s.wrbufpos
                    /\ t.writerecs = s.writerecs /\ t.writenotify = s.writenotify
SameState(t, s) == /\ DOMAIN t = ConnFields /\ t.deleteScheduled = s.deleteScheduled
                   /\ t.tls_shutdown_st = s.tls_shutdown_st

\* wantreadwrite only changes what is registered.
LEMMA WantKeeps ==
  ASSUME NEW s, DOMAIN s = ConnFields
  PROVE  SameBuffer(wantreadwrite(s), s) /\ SameState(wantreadwrite(s), s)
BY Fields DEF wantreadwrite, SameBuffer, SameState

\* What is said of the buffer depends on the buffer.
LEMMA BufferKept ==
  ASSUME NEW s, NEW t, NEW w, BufferOK(s, w), SameBuffer(t, s)
  PROVE  BufferOK(t, w) /\ LeftIn(t) = LeftIn(s) /\ (Pending(t) <=> Pending(s))
BY DEF BufferOK, SameBuffer, LeftIn, Pending

\* What is left is bytes.
LEMMA LeftType ==
  ASSUME NEW s, NEW w, BufferOK(s, w)
  PROVE  /\ Data(s.writerecs) \in Seq(OutBytes) /\ LeftIn(s) \in Seq(OutBytes)
         /\ SubSeq(s.wrbuf, s.wrbufpos + 1, Len(s.wrbuf)) \in Seq(OutBytes)
         /\ s.wrbuf = <<>> => LeftIn(s) = Data(s.writerecs)
         /\ ~Pending(s) => LeftIn(s) = <<>>
<1> DEFINE b == s.wrbuf
           k == s.wrbufpos
           d == Data(s.writerecs)
           Y == OutBytes
           u == SubSeq(b, k + 1, Len(b))
<1>1. b \in Seq(Y) /\ k \in Nat /\ s.writerecs \in Seq(WriteRecords)
  BY DEF BufferOK
<1>2. d \in Seq(Y)
  <2>1. \A r \in WriteRecords : r.data \in Seq(Y)
    BY DEF WriteRecords
  <2> HIDE DEF Y
  <2> QED
    BY <1>1, <2>1, DataIs
<1> HIDE DEF b, k, d, Y
<1>3. u \in Seq(Y)
  <2>1. \A i \in k + 1 .. Len(b) : b[i] \in Y
    BY <1>1
  <2> QED
    BY <1>1, <2>1, SubSeqProperties
<1>4. b = <<>> => u = <<>>
  <2> SUFFICES ASSUME b = <<>> PROVE u = <<>>
    OBVIOUS
  <2>1. Len(b) = 0 /\ k + 1 \in Int /\ Len(b) < k + 1
    BY <1>1
  <2> QED
    BY <2>1, SubSeqEmpty
<1>5. LeftIn(s) = u \o d
  BY DEF LeftIn, b, k, d
<1> HIDE DEF u
<1>6. u \o d \in Seq(Y) /\ (u = <<>> => u \o d = d)
  BY <1>2, <1>3, ConcatProperties, ConcatEmptySeq
<1>7. ~Pending(s) => d = <<>> /\ b = <<>>
  BY DataEmpty DEF Pending, b, d
<1> QED
  BY <1>2, <1>3, <1>4, <1>5, <1>6, <1>7 DEF Y, b, k, d, u

\* Fill only moves data into the buffer.
LEMMA FillKeeps ==
  ASSUME ConnAssumption, NEW s, NEW w, BufferOK(s, w), NEW f, f = Fill(s)
  PROVE  /\ BufferOK(f, w) /\ LeftIn(f) = LeftIn(s) /\ SameState(f, s)
         /\ f.wrbufpos = s.wrbufpos
<1>1. CASE s.writerecs = <<>> \/ s.wrbuf # <<>>
  <2>1. f = s
    BY <1>1, Zenon DEF Fill
  <2> QED
    BY <2>1 DEF SameState, BufferOK
<1>2. CASE ~(s.writerecs = <<>> \/ s.wrbuf # <<>>)
  <2>1. /\ DOMAIN s = ConnFields /\ s.writerecs \in Seq(WriteRecords)
        /\ s.writerecs # <<>> /\ s.wrbuf = <<>> /\ s.wrbufpos = 0
    BY <1>2 DEF BufferOK
  <2>2. FilledFrom(f, s)
    BY <2>1, Filled
  <2>3. f.wrbufpos = 0 /\ f.deleteScheduled = s.deleteScheduled
        /\ f.tls_shutdown_st = s.tls_shutdown_st
    BY <2>1, <2>2, Fields DEF FilledFrom
  <2>4. Len(f.wrbuf) \in Nat
    BY <2>2, LenProperties DEF FilledFrom
  <2>5. BufferOK(f, w)
    <3>1. \A i \in 1 .. 0 : f.wrbuf[i] \in Range(w)
      OBVIOUS
    <3> QED
      BY <2>2, <2>3, <2>4, <3>1 DEF BufferOK, FilledFrom
  <2>6. LeftIn(f) = LeftIn(s)
    <3>1. LeftIn(s) = Data(s.writerecs)
      BY <2>1, LeftType
    <3>2. SubSeq(f.wrbuf, 0 + 1, Len(f.wrbuf)) = f.wrbuf
      <4>1. SubSeq(f.wrbuf, 1, Len(f.wrbuf)) = f.wrbuf
        BY <2>2, SubSeqFull DEF FilledFrom
      <4>2. 0 + 1 = 1
        OBVIOUS
      <4> QED
        BY <4>1, <4>2
    <3>3. LeftIn(f) = f.wrbuf \o Data(f.writerecs)
      BY <2>3, <3>2, Zenon DEF LeftIn
    <3> QED
      BY <2>2, <3>1, <3>3 DEF FilledFrom
  <2> QED
    BY <2>1, <2>2, <2>3, <2>5, <2>6 DEF SameState, FilledFrom
<1> QED
  BY <1>1, <1>2

\* The requests due for confirmation end within what was written.
LEMMA DueOnes ==
  ASSUME NEW s, s.writenotify \in Seq([id : Nat, pos : Nat]), s.wrbufpos \in Nat
  PROVE  /\ Due(s) \in Seq(Nat)
         /\ \A i \in DOMAIN Due(s) : /\ Due(s)[i] \in DOMAIN s.writenotify
                                     /\ s.writenotify[Due(s)[i]].pos <= s.wrbufpos
<1> DEFINE wn == s.writenotify
           L == Len(wn)
           open == {i \in DOMAIN wn : wn[i].id # 0}
           first == IF open = {} THEN L + 1 ELSE Min(open)
           Fits(i) == \A j \in first .. i : wn[j].pos <= s.wrbufpos
           upto == {i \in first .. L : Fits(i)}
<1>1. L \in Nat /\ DOMAIN wn = 1 .. L
  OBVIOUS
<1>2. first \in 1 .. L + 1
  <2>1. CASE open = {}
    BY <1>1, <2>1
  <2>2. CASE open # {}
    <3>1. open \subseteq Nat /\ open \subseteq 1 .. L
      BY <1>1
    <3> HIDE DEF open
    <3>2. PICK m \in open : \A k \in open : m <= k
      BY <2>2, <3>1, LeastNatural
    <3>3. Min(open) \in open
      BY <3>2, Zenon DEF Min
    <3>4. first = Min(open)
      BY <2>2
    <3> HIDE DEF first, L
    <3>5. first \in 1 .. L
      BY <3>1, <3>3, <3>4, Zenon
    <3> QED
      BY <1>1, <3>5
  <2> QED
    BY <2>1, <2>2
<1>3. Due(s) = [i \in 1 .. Cardinality(upto) |-> first + i - 1]
  BY DEF Due
<1> HIDE DEF first, wn
<1> DEFINE Q == {i \in first .. L + 1 : i = L + 1 \/ ~(wn[i].pos <= s.wrbufpos)}
<1>4. PICK q \in Q : \A m \in Q : q <= m
  <2>1. Q \subseteq Nat /\ L + 1 \in Q
    BY <1>1, <1>2
  <2> HIDE DEF Q
  <2> QED
    BY <2>1, LeastNatural
<1>5. q \in Nat /\ first <= q /\ q <= L + 1 /\ first \in Nat /\ first >= 1
  BY <1>1, <1>2, <1>4
<1>6. upto = first .. q - 1
  <2>1. ASSUME NEW i \in upto PROVE i \in first .. q - 1
    <3>1. i \in first .. L /\ Fits(i)
      OBVIOUS
    <3>2. ~(q <= i)
      <4> SUFFICES ASSUME q <= i PROVE FALSE
        OBVIOUS
      <4>1. q \in first .. i /\ q # L + 1
        BY <1>1, <1>5, <3>1
      <4>2. wn[q].pos <= s.wrbufpos
        BY <3>1, <4>1
      <4> QED
        BY <1>4, <4>1, <4>2
    <3> QED
      BY <1>5, <3>1, <3>2
  <2>2. ASSUME NEW i \in first .. q - 1 PROVE i \in upto
    <3>1. i \in first .. L
      BY <1>1, <1>5
    <3>2. ASSUME NEW j \in first .. i PROVE wn[j].pos <= s.wrbufpos
      <4>1. j \in first .. L + 1 /\ j < q /\ j # L + 1
        BY <1>1, <1>5
      <4>2. j \notin Q
        BY <1>4, <1>5, <4>1
      <4> QED
        BY <4>1, <4>2
    <3> QED
      BY <3>1, <3>2
  <2> HIDE DEF upto
  <2> QED
    BY <2>1, <2>2
<1>7. Cardinality(upto) = q - first
  <2>1. first \in Int /\ q - 1 \in Int /\ (first > q - 1 <=> q - first = 0)
        /\ q - 1 - first + 1 = q - first
    BY <1>5
  <2>2. Cardinality(first .. q - 1) = IF first > q - 1 THEN 0 ELSE q - 1 - first + 1
    BY <2>1, FS_Interval
  <2> QED
    BY <1>6, <2>1, <2>2
<1> HIDE DEF upto
<1>8. Due(s) = [i \in 1 .. q - first |-> first + i - 1]
  BY <1>3, <1>7
<1>9. Due(s) \in Seq(Nat)
  BY <1>5, <1>8
<1>10. ASSUME NEW i \in DOMAIN Due(s)
       PROVE  Due(s)[i] \in DOMAIN wn /\ wn[Due(s)[i]].pos <= s.wrbufpos
  <2>1. i \in 1 .. q - first /\ Due(s)[i] = first + i - 1
    BY <1>8
  <2>2. first + i - 1 \in first .. q - 1 /\ first + i - 1 \in 1 .. L
        /\ first + i - 1 \in first .. first + i - 1
    BY <1>1, <1>5, <2>1
  <2>3. first + i - 1 \in upto
    BY <1>6, <2>2
  <2>4. wn[first + i - 1].pos <= s.wrbufpos
    BY <2>2, <2>3 DEF upto
  <2> QED
    BY <1>1, <2>1, <2>2, <2>4
<1> QED
  BY <1>9, <1>10 DEF wn


\* The ids raised for requests that end in G are in G.
LEMMA IdsIn ==
  ASSUME NEW s, NEW is \in Seq(Nat), NEW G,
         \A i \in DOMAIN is : s.writenotify[is[i]].id # 0 => s.writenotify[is[i]].id \in G
  PROVE  Ids(s, is) \in Seq(G)
<1> DEFINE ids(i) == IF s.writenotify[i].id = 0 THEN <<>> ELSE <<s.writenotify[i].id>>
           ss == [i \in DOMAIN is |-> ids(is[i])]
           X == Seq(G)
           n == Len(is)
<1>1. n \in Nat /\ DOMAIN is = 1 .. n
  OBVIOUS
<1>2. ASSUME NEW i \in 1 .. n PROVE ids(is[i]) \in X
  <2>1. CASE s.writenotify[is[i]].id = 0
    BY <2>1
  <2>2. CASE s.writenotify[is[i]].id # 0
    <3>1. s.writenotify[is[i]].id \in G
      BY <1>1, <2>2
    <3> DEFINE g == s.writenotify[is[i]].id
    <3>2. g \in G
      BY <3>1
    <3> HIDE DEF g
    <3>3. <<g>> \in Seq(G)
      BY <3>2
    <3> QED
      BY <2>2, <3>3 DEF g
  <2> QED
    BY <2>1, <2>2
<1>3. ss = [i \in 1 .. n |-> ids(is[i])]
  BY <1>1
<1>4. Ids(s, is) = FlattenSeq(ss)
  BY DEF Ids
<1> HIDE DEF ids, X, n, ss
<1>5. ss \in Seq(X)
  BY <1>1, <1>2, <1>3
<1>6. FlattenSeq(ss) \in Seq(G)
  BY <1>5, FlattenType DEF X
<1> QED
  BY <1>4, <1>6

\* Written moves bytes from what is left to the wire: r is what it returns for n bytes,
\* v the wire then.
WritesOut(r, s, n, w, v) ==
    /\ v \in Seq(OutBytes)
    /\ BufferOK(r.s, v) /\ SameState(r.s, s)
    /\ v \o LeftIn(r.s) = w \o LeftIn(s)
    /\ r.ids \in Seq({k \in 1 .. Len(sc.out) : <<k, sc.out[k]>> \in Range(v)})
    /\ Range(w) \subseteq Range(v)
    /\ r.s.wrbuf = <<>> => r.s.wrbufpos = 0

\* What was written of the buffer goes to the wire, and the requests that end in it are confirmed.
LEMMA WrittenKeeps ==
  ASSUME ConnAssumption, NEW s, NEW w \in Seq(OutBytes), BufferOK(s, w),
         NEW n \in Nat, s.wrbufpos + n <= Len(s.wrbuf)
  PROVE  WritesOut(Written(s, n), s, n, w,
                   w \o SubSeq(s.wrbuf, s.wrbufpos + 1, s.wrbufpos + n))
<1> DEFINE Y == OutBytes
           b == s.wrbuf
           k == s.wrbufpos
           part == SubSeq(b, k + 1, k + n)
           v == w \o part
           t == [s EXCEPT !.wrbufpos = @ + n]
           ids == Due(t)
           cleared == IF sc.tls
                      THEN [i \in DOMAIN t.writenotify |->
                              IF i \in Range(ids) THEN [t.writenotify[i] EXCEPT !.id = 0]
                              ELSE t.writenotify[i]]
                      ELSE t.writenotify
           done == t.wrbufpos >= Len(t.wrbuf)
           emptied == [t EXCEPT !.wrbuf = <<>>, !.wrbufpos = 0, !.writenotify = <<>>]
           noted == [t EXCEPT !.writenotify = cleared]
           r == Written(s, n)
           N == [id : Nat, pos : Nat]
<1>1. /\ b \in Seq(Y) /\ k \in Nat /\ Len(b) \in Nat /\ DOMAIN s = ConnFields
      /\ s.writerecs \in Seq(WriteRecords) /\ s.writenotify \in Seq(N)
      /\ k + n <= Len(b) /\ DOMAIN s.writenotify = 1 .. Len(s.writenotify)
      /\ Len(s.writenotify) \in Nat
  BY LenProperties DEF BufferOK
<1>0. /\ \A i \in DOMAIN s.writenotify : s.writenotify[i].id # 0 => NoteOK(s.writenotify[i], b)
      /\ \A i \in DOMAIN s.writenotify : s.writenotify[i] \in N
  <2>1. \A i \in DOMAIN s.writenotify : s.writenotify[i].id # 0 => NoteOK(s.writenotify[i], b)
    BY DEF BufferOK
  <2> HIDE DEF N
  <2>2. \A i \in DOMAIN s.writenotify : s.writenotify[i] \in N
    BY <1>1
  <2> QED
    BY <2>1, <2>2
<1>2. r = [s |-> IF done THEN wantreadwrite(emptied)
                 ELSE IF sc.tls THEN wantreadwrite(noted) ELSE t,
           ids |-> Ids(t, ids)]
  BY DEF Written
<1>3. /\ DOMAIN t = ConnFields /\ t.wrbuf = b /\ t.wrbufpos = k + n
      /\ t.writerecs = s.writerecs /\ t.writenotify = s.writenotify /\ SameState(t, s)
  BY <1>1, Fields DEF SameState
<1> HIDE DEF t
<1>4. /\ DOMAIN emptied = ConnFields /\ emptied.wrbuf = <<>> /\ emptied.wrbufpos = 0
      /\ emptied.writerecs = s.writerecs /\ emptied.writenotify = <<>> /\ SameState(emptied, s)
  BY <1>3, Fields DEF SameState
<1>5. /\ DOMAIN noted = ConnFields /\ noted.wrbuf = b /\ noted.wrbufpos = k + n
      /\ noted.writerecs = s.writerecs /\ noted.writenotify = cleared /\ SameState(noted, s)
  <2> HIDE DEF cleared
  <2> QED
    BY <1>3, Fields DEF SameState
<1> HIDE DEF emptied, noted, cleared
\* What is on the wire then.
<1>6. part \in Seq(Y) /\ Len(part) = n /\ \A i \in 1 .. n : part[i] = b[k + i]
  <2> HIDE DEF b, k, Y
  <2>1. k + 1 \in Int /\ k + n \in Int /\ (k + n) - (k + 1) + 1 = n
        /\ \A i \in k + 1 .. k + n : b[i] \in Y
    BY <1>1
  <2>2. part \in Seq(Y) /\ Len(part) = (IF k + 1 <= k + n + 1 THEN k + n - (k + 1) + 1 ELSE 0)
    BY <1>1, <2>1, SubSeqProperties
  <2>3. \A i \in 1 .. n : part[i] = b[k + i]
    <3> SUFFICES ASSUME NEW i \in 1 .. n PROVE part[i] = b[k + i]
      OBVIOUS
    <3>1. i \in 1 .. k + n - (k + 1) + 1 /\ k + 1 + i - 1 = k + i
      BY <1>1
    <3> QED
      BY <1>1, <2>1, <3>1, SubSeqProperties
  <2> QED
    BY <1>1, <2>2, <2>3
<1>7. v \in Seq(Y) /\ Range(v) = Range(w) \cup Range(part)
  <2> HIDE DEF part
  <2> QED
    BY <1>6, ConcatProperties, RangeConcatenation
<1>8. b # <<>> => \A i \in 1 .. k + n : b[i] \in Range(v)
  <2> SUFFICES ASSUME b # <<>>, NEW i \in 1 .. k + n PROVE b[i] \in Range(v)
    OBVIOUS
  <2>1. CASE i <= k
    <3>1. i \in 1 .. k
      BY <1>1, <2>1
    <3>2. b[i] \in Range(w)
      BY <3>1 DEF BufferOK
    <3> QED
      BY <1>7, <3>2
  <2>2. CASE i > k
    <3>1. i - k \in 1 .. n /\ k + (i - k) = i
      BY <1>1, <2>2
    <3>2. part[i - k] = b[i] /\ DOMAIN part = 1 .. n
      <4> HIDE DEF part, b, k
      <4> QED
        BY <1>6, <3>1
    <3>3. b[i] \in Range(part)
      <4> HIDE DEF part
      <4> QED
        BY <3>1, <3>2 DEF Range
    <3> QED
      BY <1>7, <3>3
  <2> QED
    BY <1>1, <2>1, <2>2
<1> HIDE DEF part, v
\* The ids.
<1> DEFINE G == {j \in 1 .. Len(sc.out) : <<j, sc.out[j]>> \in Range(v)}
<1>9. /\ ids \in Seq(Nat)
      /\ \A i \in DOMAIN ids : /\ ids[i] \in DOMAIN s.writenotify
                               /\ s.writenotify[ids[i]].pos <= k + n
  <2>1. t.writenotify \in Seq(N) /\ t.wrbufpos \in Nat
    BY <1>1, <1>3
  <2>2. /\ Due(t) \in Seq(Nat)
        /\ \A i \in DOMAIN Due(t) : /\ Due(t)[i] \in DOMAIN t.writenotify
                                    /\ t.writenotify[Due(t)[i]].pos <= t.wrbufpos
    BY <2>1, DueOnes
  <2> QED
    BY <1>3, <2>2
<1> HIDE DEF ids
<1>10. Ids(t, ids) \in Seq(G)
  <2>1. ASSUME NEW i \in DOMAIN ids, s.writenotify[ids[i]].id # 0
        PROVE  s.writenotify[ids[i]].id \in G
    <3> DEFINE x == s.writenotify[ids[i]]
    <3>1. NoteOK(x, b) /\ x.pos <= k + n /\ x \in N
      <4>1. ids[i] \in DOMAIN s.writenotify /\ x.pos <= k + n
        BY <1>9
      <4> HIDE DEF N
      <4> QED
        BY <1>0, <2>1, <4>1
    <3> HIDE DEF x
    <3>2. x.id \in 1 .. Len(sc.out) /\ x.pos > 0 /\ x.pos \in Nat
      BY <3>1 DEF NoteOK
    <3>3. b # <<>>
      <4> SUFFICES ASSUME b = <<>> PROVE FALSE
        OBVIOUS
      <4>1. k + n <= 0
        <5>1. Len(b) = 0
          OBVIOUS
        <5> QED
          BY <1>1, <5>1
      <4> QED
        BY <1>1, <3>1, <3>2, <4>1
    <3>4. b[x.pos] = <<x.id, sc.out[x.id]>>
      BY <3>1, <3>3 DEF NoteOK
    <3>5. x.pos \in 1 .. k + n
      BY <1>1, <3>1, <3>2
    <3>6. b[x.pos] \in Range(v)
      BY <1>8, <3>3, <3>5
    <3> QED
      BY <3>2, <3>4, <3>6 DEF x
  <2> HIDE DEF G
  <2>2. \A i \in DOMAIN ids : t.writenotify[ids[i]].id # 0 => t.writenotify[ids[i]].id \in G
    BY <1>3, <2>1
  <2> QED
    BY <1>9, <2>2, IdsIn
\* What is left.
<1> DEFINE rest == SubSeq(b, k + n + 1, Len(b))
           d == Data(s.writerecs)
<1>11. /\ SubSeq(b, k + 1, Len(b)) = part \o rest /\ rest \in Seq(Y) /\ d \in Seq(Y)
  <2>1. SubSeq(b, k + 1, k + n) \o SubSeq(b, k + n + 1, Len(b)) = SubSeq(b, k + 1, Len(b))
    <3> DEFINE m == k + 1
               j == k + n
    <3>1. /\ b \in Seq(Y) /\ m \in 1 .. Len(b) + 1 /\ j \in m - 1 .. Len(b)
          /\ Len(b) \in j .. Len(b)
      BY <1>1
    <3> HIDE DEF m, j, b
    <3>2. SubSeq(b, m, j) \o SubSeq(b, j + 1, Len(b)) = SubSeq(b, m, Len(b))
      BY <3>1, ConcatAdjacentSubSeq
    <3> QED
      BY <3>2 DEF m, j
  <2>2. rest \in Seq(Y)
    <3>1. \A i \in k + n + 1 .. Len(b) : b[i] \in Y
      BY <1>1
    <3> QED
      BY <1>1, <3>1, SubSeqProperties
  <2>3. d \in Seq(Y)
    BY LeftType
  <2> QED
    BY <2>1, <2>2, <2>3 DEF part
<1>12. w \o LeftIn(s) = v \o (rest \o d)
  <2>1. LeftIn(s) = (part \o rest) \o d
    BY <1>11 DEF LeftIn
  <2> HIDE DEF rest, d, Y
  <2>2. (part \o rest) \o d = part \o (rest \o d)
    BY <1>6, <1>11, ConcatAssociative
  <2>3. rest \o d \in Seq(Y) /\ w \in Seq(Y)
    BY <1>11, ConcatProperties DEF Y
  <2>4. w \o (part \o (rest \o d)) = (w \o part) \o (rest \o d)
    <3>1. ASSUME NEW x \in Seq(Y), NEW y \in Seq(Y), NEW z \in Seq(Y)
          PROVE  (x \o y) \o z = x \o (y \o z)
      BY ConcatAssociative
    <3>2. (w \o part) \o (rest \o d) = w \o (part \o (rest \o d))
      BY <1>6, <2>3, <3>1, Zenon
    <3> QED
      BY <3>2
  <2> QED
    BY <2>1, <2>2, <2>4 DEF v
<1> HIDE DEF rest, d, Y
\* A buffer that is written completely is empty; else the position moves on.
<1>13. /\ BufferOK(r.s, v) /\ SameState(r.s, s) /\ v \o LeftIn(r.s) = w \o LeftIn(s)
       /\ r.s.wrbuf = <<>> => r.s.wrbufpos = 0
  <2>1. CASE done
    <3>1. r.s = wantreadwrite(emptied)
      BY <1>2, <2>1
    <3>2. BufferOK(emptied, v)
      <4>1. emptied.wrbuf \in Seq(OutBytes) /\ emptied.writenotify \in Seq(N)
            /\ DOMAIN emptied.writenotify = {}
        BY <1>4
      <4> QED
        BY <1>1, <1>4, <4>1 DEF BufferOK
    <3>3. SameBuffer(r.s, emptied) /\ SameState(r.s, s)
      BY <1>4, <3>1, WantKeeps DEF SameState
    <3>4. BufferOK(r.s, v) /\ LeftIn(r.s) = LeftIn(emptied)
      BY <3>2, <3>3, BufferKept
    <3>5. LeftIn(emptied) = d
      BY <1>4, <3>2, LeftType DEF d
    <3>6. rest = <<>>
      <4>1. k + n = Len(b)
        <5>1. k + n >= Len(b)
          BY <1>3, <2>1
        <5> HIDE DEF k, b
        <5> QED
          BY <1>1, <5>1
      <4>2. Len(b) < k + n + 1 /\ k + n + 1 \in Int
        BY <1>1, <4>1
      <4> QED
        BY <1>1, <4>2, SubSeqEmpty DEF rest
    <3>7. rest \o d = d
      BY <1>11, <3>6, ConcatEmptySeq
    <3> QED
      BY <1>4, <1>12, <3>3, <3>4, <3>5, <3>7 DEF SameBuffer
  <2>2. CASE ~done
    <3>1. b # <<>> /\ k + n <= Len(b)
      BY <1>1, <1>3, <2>2
    <3>2. ASSUME NEW u, DOMAIN u = ConnFields, u.wrbuf = b, u.wrbufpos = k + n,
                 u.writerecs = s.writerecs, u.writenotify \in Seq(N),
                 \A i \in DOMAIN u.writenotify :
                    u.writenotify[i].id # 0 => NoteOK(u.writenotify[i], b)
          PROVE  BufferOK(u, v) /\ LeftIn(u) = rest \o d
      <4>1. BufferOK(u, v)
        BY <1>1, <1>8, <3>1, <3>2 DEF BufferOK, Y
      <4>2. LeftIn(u) = rest \o d
        BY <3>2 DEF LeftIn, rest, d
      <4> QED
        BY <4>1, <4>2
    <3>3. CASE sc.tls
      <4>1. r.s = wantreadwrite(noted)
        BY <1>2, <2>2, <3>3
      <4>2. /\ cleared \in Seq(N)
            /\ \A i \in DOMAIN cleared : cleared[i].id # 0 => NoteOK(cleared[i], b)
        <5> DEFINE m == Len(s.writenotify)
                   wn == s.writenotify
        <5>1. cleared = [i \in 1 .. m |-> IF i \in Range(ids) THEN [wn[i] EXCEPT !.id = 0]
                                          ELSE wn[i]]
          BY <1>1, <1>3, <3>3 DEF cleared
        <5>2. m \in Nat /\ \A i \in 1 .. m : wn[i] \in N
          <6> HIDE DEF N
          <6> QED
            BY <1>0, <1>1
        <5>3. \A i \in 1 .. m : wn[i].id # 0 => NoteOK(wn[i], b)
          BY <1>0, <1>1
        <5> HIDE DEF m, wn
        <5>4. ASSUME NEW i \in 1 .. m
              PROVE  cleared[i] \in N /\ (cleared[i].id # 0 => NoteOK(cleared[i], b))
          BY <5>1, <5>2, <5>3
        <5>5. cleared = [i \in 1 .. m |-> cleared[i]]
          BY <5>1
        <5> HIDE DEF N
        <5>6. cleared \in Seq(N) /\ DOMAIN cleared = 1 .. m
          BY <5>2, <5>4, <5>5
        <5> QED
          BY <5>4, <5>6
      <4>3. BufferOK(noted, v) /\ LeftIn(noted) = rest \o d
        <5> HIDE DEF N
        <5> QED
          BY <1>5, <3>2, <4>2
      <4>4. SameBuffer(r.s, noted) /\ SameState(r.s, s)
        BY <1>5, <4>1, WantKeeps DEF SameState
      <4> QED
        BY <1>5, <1>12, <3>1, <4>3, <4>4, BufferKept DEF SameBuffer
    <3>4. CASE ~sc.tls
      <4>1. r.s = t
        BY <1>2, <2>2, <3>4
      <4>2. \A i \in DOMAIN t.writenotify : t.writenotify[i].id # 0 => NoteOK(t.writenotify[i], b)
        BY <1>3 DEF BufferOK
      <4>3. BufferOK(t, v) /\ LeftIn(t) = rest \o d
        <5> HIDE DEF N
        <5> QED
          BY <1>1, <1>3, <3>2, <4>2
      <4> QED
        BY <1>3, <1>12, <3>1, <4>1, <4>3
    <3> QED
      BY <3>3, <3>4
  <2> QED
    BY <2>1, <2>2
<1>14. r.ids = Ids(t, ids)
  BY <1>2
<1> HIDE DEF r
<1>15. WritesOut(r, s, n, w, v)
  BY <1>7, <1>10, <1>13, <1>14 DEF WritesOut, Y
<1> QED
  BY <1>15 DEF r, v, part

-----------------------------------------------------------------------------
(* The steps *)

\* Priming what is said of the write buffer, the stream and the requests.
LEMMA Primed ==
  ASSUME sc' = sc
  PROVE  /\ BufferOK(self, net.wire)' <=> BufferOK(self', net'.wire)
         /\ LeftIn(self)' = LeftIn(self')
         /\ Pending(self)' <=> Pending(self')
         /\ Complete' = {k \in 1 .. Len(sc.out) : <<k, sc.out[k]>> \in Range(net'.wire)}
<1>1. WriteRecords' = WriteRecords
  BY DEF WriteRecords, OutBytes
<1>2. BufferOK(self, net.wire)' <=> BufferOK(self', net'.wire)
  BY <1>1 DEF BufferOK, NoteOK, OutBytes
<1>3. LeftIn(self)' = LeftIn(self') /\ (Pending(self)' <=> Pending(self'))
  BY DEF LeftIn, Pending, Data
<1>4. Complete' = {k \in 1 .. Len(sc.out) : <<k, sc.out[k]>> \in Range(net'.wire)}
  BY DEF Complete, Range
<1> QED
  BY <1>2, <1>3, <1>4

\* What no step changes but the ones that say so.
Apart(changed) ==
    /\ sc' = sc /\ DOMAIN net' = {"in", "wire"} /\ DOMAIN app' = AppFields
    /\ "wire" \notin changed => net'.wire = net.wire
    /\ \A f \in {"sent", "confirmed", "failed", "freed"} \ changed : app'[f] = app[f]

\* The connection is closed once, and shut down only then.
ClosesOnce ==
    /\ app'.closed = IF self'.deleteScheduled = 0 THEN 0 ELSE 1
    /\ self.deleteScheduled # 0 => self'.deleteScheduled # 0
    /\ self'.tls_shutdown_st # "no" => self'.deleteScheduled # 0

\* A step that neither writes nor drops data.
QuietStep ==
    /\ Live /\ Apart({}) /\ ClosesOnce
    /\ BufferOK(self', net.wire) /\ LeftIn(self') = LeftIn(self)
    /\ Pending(self') => Pending(self)
    /\ self'.wrbufpos = self.wrbufpos /\ (self'.wrbuf = <<>> => self.wrbuf = <<>>)

\* Such a step keeps the invariant.
LEMMA QuietKeeps ==
  ASSUME ConnInv, QuietStep
  PROVE  ConnInv'
<1>1. /\ sc' = sc /\ DOMAIN net' = {"in", "wire"} /\ DOMAIN app' = AppFields
      /\ net'.wire = net.wire /\ app'.sent = app.sent /\ app'.confirmed = app.confirmed
      /\ app'.failed = app.failed /\ app'.freed = app.freed /\ app.freed = FALSE
  BY DEF QuietStep, Apart, Live, ConnInv
<1>2. BufferOK(self, net.wire)'
  BY <1>1, Primed DEF QuietStep
<1>3. AllSent' = AllSent
  BY <1>1 DEF AllSent, Payload
<1>4. LeftIn(self)' = LeftIn(self) /\ (Pending(self)' => Pending(self)) /\ Complete' = Complete
  BY <1>1, Primed DEF QuietStep, Complete
<1>5. StreamOK(self)'
  <2>1. StreamOK(self)
    BY DEF ConnInv
  <2> QED
    BY <1>1, <1>3, <1>4, <2>1 DEF StreamOK
<1>6. /\ app'.closed = IF self'.deleteScheduled = 0 THEN 0 ELSE 1
      /\ self.deleteScheduled # 0 => self'.deleteScheduled # 0
      /\ self'.tls_shutdown_st # "no" => self'.deleteScheduled # 0
      /\ self'.wrbufpos = self.wrbufpos /\ (self'.wrbuf = <<>> => self.wrbuf = <<>>)
  BY DEF QuietStep, ClosesOnce
<1> QED
  BY <1>1, <1>2, <1>3, <1>4, <1>5, <1>6 DEF ConnInv, Live

\* An error drops what was queued and closes the connection.
DropStep ==
    /\ Live /\ Apart({"failed"}) /\ ClosesOnce /\ self'.deleteScheduled # 0
    /\ BufferOK(self', net.wire) /\ ~Pending(self')
    /\ app'.failed \in BOOLEAN /\ (app.failed => app'.failed)
    /\ ~app'.failed => LeftIn(self) = <<>>

\* An error keeps the invariant: what is on the wire is the front of what was sent.
LEMMA DropKeeps ==
  ASSUME ConnInv, DropStep
  PROVE  ConnInv'
<1>1. /\ sc' = sc /\ DOMAIN net' = {"in", "wire"} /\ DOMAIN app' = AppFields
      /\ net'.wire = net.wire /\ app'.sent = app.sent /\ app'.confirmed = app.confirmed
      /\ app'.freed = app.freed /\ app.freed = FALSE
      /\ app'.failed \in BOOLEAN /\ (app.failed => app'.failed)
  BY DEF DropStep, Apart, Live, ConnInv
<1>2. BufferOK(self, net.wire)' /\ ~Pending(self)' /\ LeftIn(self)' = <<>>
  BY <1>1, Primed, LeftType DEF DropStep
<1>3. AllSent' = AllSent
  BY <1>1 DEF AllSent, Payload
<1>4. Complete' = Complete
  BY <1>1, Primed DEF Complete
<1>5. StreamOK(self)'
  <2>1. StreamOK(self) /\ net.wire \in Seq(OutBytes) /\ LeftIn(self) \in Seq(OutBytes)
    BY LeftType DEF ConnInv
  <2>2. CASE app.failed
    BY <1>1, <1>3, <2>1, <2>2 DEF StreamOK
  <2>3. CASE ~app.failed /\ app'.failed
    <3>1. net.wire \o LeftIn(self) = AllSent
      BY <2>1, <2>3 DEF StreamOK
    <3>2. IsPrefix(net.wire, net.wire \o LeftIn(self))
      <4> DEFINE x == net.wire
                 y == LeftIn(self)
      <4>1. x \in Seq(OutBytes) /\ y \in Seq(OutBytes)
        BY <2>1
      <4> HIDE DEF x, y
      <4>2. IsPrefix(x, x \o y)
        BY <4>1, ConcatProperties, LenProperties DEF IsPrefix
      <4> QED
        BY <4>2 DEF x, y
    <3> QED
      BY <1>1, <1>3, <2>3, <3>1, <3>2 DEF StreamOK
  <2>4. CASE ~app.failed /\ ~app'.failed
    <3>1. LeftIn(self) = <<>>
      BY <2>4 DEF DropStep
    <3> QED
      BY <1>1, <1>2, <1>3, <2>1, <2>4, <3>1 DEF StreamOK
  <2> QED
    BY <2>2, <2>3, <2>4
<1>6. /\ app'.closed = 1 /\ self'.deleteScheduled # 0
  BY DEF DropStep, ClosesOnce
<1> QED
  BY <1>1, <1>2, <1>3, <1>4, <1>5, <1>6 DEF ConnInv, Live


\* What PSC_Connection_close does: r is what it returns for s and a.
ClosedFrom(r, s, a) ==
    /\ SameBuffer(r.s, s) /\ r.s.deleteScheduled # 0 /\ r.s.tls_shutdown_st = s.tls_shutdown_st
    /\ DOMAIN r.a = AppFields
    /\ \A f \in {"sent", "confirmed", "failed", "freed"} : r.a[f] = a[f]
    /\ (a.closed = IF s.deleteScheduled = 0 THEN 0 ELSE 1) => r.a.closed = 1

\* The first call closes, later ones do nothing.
LEMMA CloseIs ==
  ASSUME NEW s, NEW a, DOMAIN s = ConnFields, DOMAIN a = AppFields
  PROVE  ClosedFrom(PSC_Connection_close(s, a), s, a)
<1> DEFINE r == PSC_Connection_close(s, a)
<1>1. CASE s.deleteScheduled # 0
  <2>1. r.s = s /\ r.a = a
    BY <1>1 DEF PSC_Connection_close
  <2> QED
    BY <1>1, <2>1 DEF ClosedFrom, SameBuffer
<1>2. CASE s.deleteScheduled = 0
  <2>1. r.s = deleteLater(s) /\ r.a = [a EXCEPT !.closed = @ + 1]
    BY <1>2 DEF PSC_Connection_close
  <2>2. SameBuffer(r.s, s) /\ r.s.deleteScheduled # 0 /\ r.s.tls_shutdown_st = s.tls_shutdown_st
    BY <2>1, Fields DEF deleteLater, SameBuffer
  <2>3. /\ DOMAIN r.a = AppFields /\ r.a.closed = a.closed + 1
        /\ \A f \in {"sent", "confirmed", "failed", "freed"} : r.a[f] = a[f]
    BY <2>1 DEF AppFields
  <2> QED
    BY <1>2, <2>2, <2>3 DEF ClosedFrom
<1> QED
  BY <1>1, <1>2

\* A struct that is as self where the write buffer is concerned.
AsSelf(s) == /\ BufferOK(s, net.wire) /\ LeftIn(s) = LeftIn(self)
             /\ Pending(s) => Pending(self)
             /\ s.wrbufpos = self.wrbufpos /\ (s.wrbuf = <<>> => self.wrbuf = <<>>)

\* It stays so if the write buffer does.
LEMMA AsSelfKept ==
  ASSUME NEW s, NEW t, AsSelf(s), SameBuffer(t, s)
  PROVE  AsSelf(t)
BY BufferKept DEF AsSelf, SameBuffer

\* The struct itself is one.
LEMMA SelfAsSelf ==
  ASSUME ConnInv
  PROVE  AsSelf(self) /\ DOMAIN self = ConnFields
BY DEF ConnInv, AsSelf, BufferOK

\* A step that leaves the buffer and the application alone, or closes the connection.
LEMMA StillKeeps ==
  ASSUME ConnInv, Live, Apart({}), AsSelf(self'), SameState(self', self), app'.closed = app.closed
  PROVE  ConnInv'
<1>1. QuietStep
  BY DEF QuietStep, ClosesOnce, AsSelf, SameState, ConnInv
<1> QED
  BY <1>1, QuietKeeps

\* PSC_Connection_close of such a struct.
LEMMA CloseKeeps ==
  ASSUME ConnInv, Live, NEW s, NEW a, AsSelf(s), SameState(s, self), DOMAIN a = AppFields,
         \A f \in {"sent", "confirmed", "failed", "freed", "closed"} : a[f] = app[f],
         NEW r, r = PSC_Connection_close(s, a), SameBuffer(self', r.s), SameState(self', r.s),
         app' = r.a, sc' = sc, DOMAIN net' = {"in", "wire"}, net'.wire = net.wire
  PROVE  ConnInv'
<1>1. DOMAIN s = ConnFields
  BY DEF AsSelf, BufferOK
<1>2. ClosedFrom(r, s, a)
  BY <1>1, CloseIs
<1>3. AsSelf(self')
  BY <1>2, AsSelfKept DEF ClosedFrom
<1>4. ClosesOnce
  <2>1. a.closed = IF s.deleteScheduled = 0 THEN 0 ELSE 1
    BY DEF ConnInv, SameState
  <2> QED
    BY <1>2, <2>1 DEF ClosesOnce, ClosedFrom, SameState
<1>5. Apart({})
  BY <1>2 DEF Apart, ClosedFrom
<1>6. QuietStep
  BY <1>3, <1>4, <1>5 DEF QuietStep, AsSelf
<1> QED
  BY <1>6, QuietKeeps

\* The error paths of dowrite and doread.
LEMMA ErrorKeeps ==
  ASSUME ConnInv, Live, NEW s, AsSelf(s), SameState(s, self),
         NEW r, r = PSC_Connection_close(Discard(s), Failed(s)),
         SameBuffer(self', r.s), SameState(self', r.s),
         app' = r.a, sc' = sc, net' = net
  PROVE  ConnInv'
<1> DEFINE d == Discard(s)
           a == Failed(s)
<1>1. DOMAIN s = ConnFields /\ DOMAIN app = AppFields
  BY DEF AsSelf, BufferOK, ConnInv
<1>2. /\ DOMAIN d = ConnFields /\ d.writerecs = <<>> /\ d.wrbuf = <<>> /\ SameState(d, s)
      /\ d.wrbufpos = s.wrbufpos /\ d.writenotify = s.writenotify
  BY <1>1, Fields DEF Discard, SameState
<1>3. /\ DOMAIN a = AppFields /\ a.failed = (app.failed \/ Pending(s))
      /\ \A f \in {"sent", "confirmed", "freed", "closed"} : a[f] = app[f]
  BY <1>1 DEF Failed, AppFields
<1> HIDE DEF d, a
<1>4. BufferOK(d, net.wire)
  <2>1. BufferOK(s, net.wire)
    BY DEF AsSelf
  <2>2. /\ d.wrbuf \in Seq(OutBytes) /\ d.wrbufpos \in Nat /\ d.writerecs \in Seq(WriteRecords)
        /\ d.writenotify \in Seq([id : Nat, pos : Nat])
    BY <1>2, <2>1 DEF BufferOK
  <2>3. \A i \in DOMAIN d.writenotify :
           d.writenotify[i].id # 0 => NoteOK(d.writenotify[i], d.wrbuf)
    BY <1>2, <2>1 DEF BufferOK, NoteOK
  <2> QED
    BY <1>2, <2>2, <2>3 DEF BufferOK
<1>5. ClosedFrom(r, d, a)
  BY <1>2, <1>3, CloseIs DEF d, a
<1>6. BufferOK(self', net.wire) /\ ~Pending(self')
  <2>1. BufferOK(r.s, net.wire) /\ ~Pending(r.s)
    BY <1>2, <1>4, <1>5, BufferKept DEF ClosedFrom, Pending
  <2> QED
    BY <2>1, BufferKept
<1>7. ClosesOnce /\ self'.deleteScheduled # 0
  <2>1. a.closed = IF d.deleteScheduled = 0 THEN 0 ELSE 1
    BY <1>2, <1>3 DEF ConnInv, SameState
  <2> QED
    BY <1>5, <2>1 DEF ClosesOnce, ClosedFrom, SameState
<1>8. /\ Apart({"failed"}) /\ app'.failed = (app.failed \/ Pending(s))
  BY <1>3, <1>5 DEF Apart, ClosedFrom, ConnInv
<1>9. ~app'.failed => LeftIn(self) = <<>>
  <2>1. ~Pending(s) => LeftIn(s) = <<>>
    BY LeftType DEF AsSelf
  <2> QED
    BY <1>8, <2>1 DEF AsSelf
<1>10. app'.failed \in BOOLEAN /\ (app.failed => app'.failed)
  <2>1. app.failed \in BOOLEAN
    BY DEF ConnInv
  <2> QED
    BY <1>8, <2>1
<1>11. DropStep
  BY <1>6, <1>7, <1>8, <1>9, <1>10 DEF DropStep
<1> QED
  BY <1>11, DropKeeps


\* Without anything to write nothing is written.
LEMMA NothingWritten ==
  ASSUME NEW s, DOMAIN s = ConnFields, ~Pending(s), s.wrbufpos \in Nat, NEW n \in Nat,
         s.wrbufpos + n <= Len(s.wrbuf)
  PROVE  /\ ~Pending(Written(s, n).s)
         /\ SubSeq(s.wrbuf, s.wrbufpos + 1, s.wrbufpos + n) = <<>>
<1> DEFINE t == [s EXCEPT !.wrbufpos = @ + n]
           emptied == [t EXCEPT !.wrbuf = <<>>, !.wrbufpos = 0, !.writenotify = <<>>]
<1>1. s.wrbuf = <<>> /\ s.writerecs = <<>> /\ Len(s.wrbuf) = 0
  BY DEF Pending
<1>2. s.wrbufpos = 0 /\ n = 0
  BY <1>1
<1>3. t.wrbuf = <<>> /\ t.writerecs = <<>> /\ t.wrbufpos = 0 /\ DOMAIN t = ConnFields
  BY <1>1, <1>2, Fields
<1>4. t.wrbufpos >= Len(t.wrbuf)
  BY <1>3
<1> HIDE DEF t
<1>5. emptied.wrbuf = <<>> /\ emptied.writerecs = <<>> /\ DOMAIN emptied = ConnFields
  BY <1>3, Fields
<1>6. Written(s, n).s = wantreadwrite(emptied)
  BY <1>4 DEF Written, t
<1> HIDE DEF emptied
<1>7. ~Pending(Written(s, n).s)
  BY <1>5, <1>6, WantKeeps DEF SameBuffer, Pending
<1>8. SubSeq(s.wrbuf, s.wrbufpos + 1, s.wrbufpos + n) = <<>>
  <2> DEFINE i == s.wrbufpos + 1
             j == s.wrbufpos + n
  <2>1. i \in Int /\ j \in Int /\ i > j
    BY <1>2
  <2> HIDE DEF i, j
  <2>2. SubSeq(s.wrbuf, i, j) = <<>>
    BY <2>1, SubSeqEmpty
  <2> QED
    BY <2>2 DEF i, j
<1> QED
  BY <1>7, <1>8

\* A write of n bytes by dowrite.
LEMMA WriteKeeps ==
  ASSUME ConnAssumption, ConnInv, Live, NEW s, AsSelf(s), SameState(s, self),
         NEW n \in Nat, s.wrbufpos + n <= Len(s.wrbuf), NEW ids,
         self' = Written(s, n).s, sc' = sc,
         net' = [net EXCEPT !.wire = @ \o SubSeq(s.wrbuf, s.wrbufpos + 1, s.wrbufpos + n)],
         app' = [app EXCEPT !.confirmed = @ \o ids], ids = <<>> \/ ids = Written(s, n).ids
  PROVE  ConnInv'
<1> DEFINE w == net.wire
           v == w \o SubSeq(s.wrbuf, s.wrbufpos + 1, s.wrbufpos + n)
           r == Written(s, n)
           G == {k \in 1 .. Len(sc.out) : <<k, sc.out[k]>> \in Range(v)}
<1>1. BufferOK(s, w) /\ LeftIn(s) = LeftIn(self) /\ w \in Seq(OutBytes) /\ DOMAIN s = ConnFields
      /\ s.wrbufpos \in Nat /\ s.writerecs \in Seq(WriteRecords)
  BY DEF AsSelf, ConnInv, BufferOK
<1>2. WritesOut(r, s, n, w, v)
  BY <1>1, WrittenKeeps
<1>3. DOMAIN net' = {"in", "wire"} /\ net'.wire = v
  BY DEF ConnInv
<1>4. /\ DOMAIN app' = AppFields /\ app'.confirmed = app.confirmed \o ids
      /\ app'.sent = app.sent /\ app'.failed = app.failed /\ app'.freed = app.freed
      /\ app'.closed = app.closed /\ app.freed = FALSE
  BY DEF ConnInv, AppFields, Live
<1>5. app.failed => ~Pending(r.s) /\ v = w
  <2> SUFFICES ASSUME app.failed PROVE ~Pending(r.s) /\ v = w
    OBVIOUS
  <2>1. ~Pending(s)
    BY DEF ConnInv, AsSelf
  <2>2. ~Pending(r.s) /\ SubSeq(s.wrbuf, s.wrbufpos + 1, s.wrbufpos + n) = <<>>
    BY <1>1, <2>1, NothingWritten
  <2>3. w \o <<>> = w
    BY <1>1, ConcatEmptySeq
  <2> QED
    BY <2>2, <2>3
<1> HIDE DEF v, w, r
<1>6. /\ v \in Seq(OutBytes) /\ BufferOK(r.s, v) /\ SameState(r.s, s)
      /\ v \o LeftIn(r.s) = w \o LeftIn(self) /\ r.ids \in Seq(G) /\ Range(w) \subseteq Range(v)
      /\ self'.wrbuf = <<>> => self'.wrbufpos = 0
  BY <1>1, <1>2 DEF WritesOut, r
<1>7. BufferOK(self, net.wire)' /\ LeftIn(self)' = LeftIn(r.s) /\ (Pending(self)' <=> Pending(r.s))
      /\ Complete' = G
  BY <1>3, <1>6, Primed DEF r
<1>8. AllSent' = AllSent
  BY <1>4 DEF AllSent, Payload
<1>9. StreamOK(self)'
  <2>1. StreamOK(self)
    BY DEF ConnInv
  <2>2. CASE app.failed
    <3>1. IsPrefix(w, AllSent) /\ v = w
      BY <1>5, <2>1, <2>2 DEF StreamOK, w
    <3> QED
      BY <1>3, <1>4, <1>8, <2>2, <3>1 DEF StreamOK
  <2>3. CASE ~app.failed
    <3>1. w \o LeftIn(self) = AllSent
      BY <2>1, <2>3 DEF StreamOK, w
    <3> QED
      BY <1>3, <1>4, <1>6, <1>7, <1>8, <2>3, <3>1 DEF StreamOK
  <2> QED
    BY <2>2, <2>3
<1>10. app'.confirmed \in Seq(G)
  <2>1. app.confirmed \in Seq(Complete)
    BY DEF ConnInv
  <2>2. Complete \subseteq G
    BY <1>6 DEF Complete, w
  <2> HIDE DEF G
  <2>3. app.confirmed \in Seq(G)
    BY <2>1, <2>2
  <2>4. ids \in Seq(G)
    <3>1. <<>> \in Seq(G) /\ r.ids \in Seq(G)
      BY <1>6
    <3>2. ids = <<>> \/ ids = r.ids
      BY DEF r
    <3> QED
      BY <3>1, <3>2, Zenon
  <2> QED
    BY <1>4, <2>3, <2>4, ConcatProperties
<1>11. self'.deleteScheduled = self.deleteScheduled /\ self'.tls_shutdown_st = self.tls_shutdown_st
  BY <1>6 DEF SameState, r
<1> HIDE DEF G
<1> QED
  BY <1>3, <1>4, <1>5, <1>6, <1>7, <1>8, <1>9, <1>10, <1>11 DEF ConnInv, Live

\* dowrite: it writes, has to wait, or fails.
LEMMA DowriteKeeps ==
  ASSUME ConnAssumption, ConnInv, Live, dowrite(self), sc' = sc
  PROVE  ConnInv'
<1> DEFINE s == Fill(self)
           left == Len(s.wrbuf) - s.wrbufpos
           u(st) == [s EXCEPT !.tls_write_st = st]
<1>1. BufferOK(self, net.wire) /\ DOMAIN net = {"in", "wire"} /\ DOMAIN app = AppFields
  BY DEF ConnInv
<1>2. /\ BufferOK(s, net.wire) /\ LeftIn(s) = LeftIn(self) /\ SameState(s, self)
      /\ s.wrbufpos = self.wrbufpos
  BY <1>1, FillKeeps
<1>3. (~Pending(self) => s = self) /\ (self.wrbuf # <<>> => s = self)
  BY DEF Pending, Fill
<1>4. AsSelf(s) /\ DOMAIN s = ConnFields
  BY <1>2, <1>3 DEF AsSelf, BufferOK
<1>5. \/ \E n \in (IF left = 0 THEN {0} ELSE 1 .. left) :
            /\ self' = Written(u("no"), n).s
            /\ net' = [net EXCEPT !.wire = @ \o SubSeq(s.wrbuf, s.wrbufpos + 1, s.wrbufpos + n)]
            /\ app' = [app EXCEPT !.confirmed = @ \o Raised(s, Written(u("no"), n).ids)]
      \/ (\E st : self' = wantreadwrite(u(st))) /\ UNCHANGED <<net, app>>
      \/ \E r : /\ r = PSC_Connection_close(Discard(s), Failed(s))
                /\ self' = (IF sc.tls THEN r.s ELSE wantreadwrite(r.s)) /\ app' = r.a
                /\ UNCHANGED net
  BY DEF dowrite
<1> HIDE DEF s
<1>6. ASSUME NEW st PROVE SameBuffer(u(st), s) /\ SameState(u(st), s) /\ DOMAIN u(st) = ConnFields
  BY <1>4, Fields DEF SameBuffer, SameState
<1> HIDE DEF u
<1>7. CASE \E n \in (IF left = 0 THEN {0} ELSE 1 .. left) :
             /\ self' = Written(u("no"), n).s
             /\ net' = [net EXCEPT !.wire = @ \o SubSeq(s.wrbuf, s.wrbufpos + 1, s.wrbufpos + n)]
             /\ app' = [app EXCEPT !.confirmed = @ \o Raised(s, Written(u("no"), n).ids)]
  <2>1. PICK n \in (IF left = 0 THEN {0} ELSE 1 .. left) :
             /\ self' = Written(u("no"), n).s
             /\ net' = [net EXCEPT !.wire = @ \o SubSeq(s.wrbuf, s.wrbufpos + 1, s.wrbufpos + n)]
             /\ app' = [app EXCEPT !.confirmed = @ \o Raised(s, Written(u("no"), n).ids)]
    BY <1>7
  <2>2. s.wrbufpos \in Nat /\ Len(s.wrbuf) \in Nat
    BY <1>2, LenProperties DEF BufferOK
  <2>3. n \in Nat /\ s.wrbufpos + n <= Len(s.wrbuf)
    BY <2>1, <2>2
  <2> DEFINE x == u("no")
             ids == Raised(s, Written(x, n).ids)
  <2>4. AsSelf(x) /\ SameState(x, self) /\ x.wrbuf = s.wrbuf /\ x.wrbufpos = s.wrbufpos
    BY <1>2, <1>4, <1>6, AsSelfKept DEF SameBuffer, SameState
  <2>5. ids = <<>> \/ ids = Written(x, n).ids
    BY DEF Raised
  <2>6. /\ self' = Written(x, n).s /\ x.wrbufpos + n <= Len(x.wrbuf)
        /\ net' = [net EXCEPT !.wire = @ \o SubSeq(x.wrbuf, x.wrbufpos + 1, x.wrbufpos + n)]
        /\ app' = [app EXCEPT !.confirmed = @ \o ids]
    BY <2>1, <2>3, <2>4
  <2> HIDE DEF x, ids
  <2> QED
    BY <2>3, <2>4, <2>5, <2>6, WriteKeeps DEF x, ids
<1>8. CASE (\E st : self' = wantreadwrite(u(st))) /\ UNCHANGED <<net, app>>
  <2>1. PICK st : self' = wantreadwrite(u(st))
    BY <1>8
  <2>2. SameBuffer(self', s) /\ SameState(self', self)
    BY <1>2, <1>6, <2>1, WantKeeps DEF SameBuffer, SameState
  <2>3. AsSelf(self')
    BY <1>4, <2>2, AsSelfKept
  <2>4. Apart({}) /\ app'.closed = app.closed
    BY <1>1, <1>8 DEF Apart
  <2> QED
    BY <2>2, <2>3, <2>4, StillKeeps
<1>9. CASE \E r : /\ r = PSC_Connection_close(Discard(s), Failed(s))
                  /\ self' = (IF sc.tls THEN r.s ELSE wantreadwrite(r.s)) /\ app' = r.a
                  /\ UNCHANGED net
  <2>1. PICK r : /\ r = PSC_Connection_close(Discard(s), Failed(s))
                 /\ self' = (IF sc.tls THEN r.s ELSE wantreadwrite(r.s)) /\ app' = r.a
                 /\ UNCHANGED net
    BY <1>9
  <2>2. DOMAIN r.s = ConnFields
    <3>1. DOMAIN Discard(s) = ConnFields /\ DOMAIN Failed(s) = AppFields
      BY <1>1, <1>4 DEF Discard, Failed
    <3>2. ClosedFrom(r, Discard(s), Failed(s))
      BY <2>1, <3>1, CloseIs
    <3> QED
      BY <3>2 DEF ClosedFrom, SameBuffer
  <2>3. SameBuffer(self', r.s) /\ SameState(self', r.s)
    BY <2>1, <2>2, WantKeeps DEF SameBuffer, SameState
  <2> QED
    BY <1>2, <1>4, <2>1, <2>3, ErrorKeeps
<1> QED
  BY <1>5, <1>7, <1>8, <1>9


\* The functions of the struct that reading and connecting use.
LEMMA StructKeeps ==
  ASSUME NEW s, DOMAIN s = ConnFields, NEW n, NEW a
  PROVE  /\ SameBuffer(Restored(s), s) /\ SameState(Restored(s), s)
         /\ SameBuffer(Reset(s), s) /\ SameState(Reset(s), s)
         /\ SameBuffer(Compacted(s), s) /\ SameState(Compacted(s), s)
         /\ SameBuffer(Got(s, n), s) /\ SameState(Got(s, n), s)
         /\ SameBuffer(DestroyTimer(s, a).s, s) /\ SameState(DestroyTimer(s, a).s, s)
<1>1. SameBuffer(Restored(s), s) /\ SameState(Restored(s), s)
  <2> DEFINE t == IF s.rdtextsave = NUL THEN s
                  ELSE [s EXCEPT !.rdbuf[s.rdbufpos] = s.rdtextsave, !.rdtextsave = NUL]
             p == Min({p \in t.rdbufpos .. t.rdbufused : p = t.rdbufused \/ t.rdbuf[p] # NUL})
  <2>1. SameBuffer(t, s) /\ SameState(t, s)
    BY Fields DEF SameBuffer, SameState
  <2>2. Restored(s) = IF ~t.rdlocator THEN t ELSE [t EXCEPT !.rdbufpos = p]
    BY DEF Restored
  <2> HIDE DEF t, p
  <2> QED
    BY <2>1, <2>2, Fields DEF SameBuffer, SameState
<1>2. SameBuffer(Reset(s), s) /\ SameState(Reset(s), s)
  BY Fields DEF Reset, SameBuffer, SameState
<1>3. SameBuffer(Compacted(s), s) /\ SameState(Compacted(s), s)
  BY Fields DEF Compacted, SameBuffer, SameState
<1>4. SameBuffer(Got(s, n), s) /\ SameState(Got(s, n), s)
  BY Fields DEF Got, SameBuffer, SameState
<1>5. SameBuffer(DestroyTimer(s, a).s, s) /\ SameState(DestroyTimer(s, a).s, s)
  BY Fields DEF DestroyTimer, SameBuffer, SameState
<1> QED
  BY <1>1, <1>2, <1>3, <1>4, <1>5

\* The same in the write buffer and in how far the deletion is.
Same(t, s) == SameBuffer(t, s) /\ SameState(t, s)

\* Being the same in that is transitive, ...
LEMMA SameTrans ==
  ASSUME NEW s, NEW t, NEW u, Same(u, t), Same(t, s)
  PROVE  Same(u, s)
BY DEF Same, SameBuffer, SameState

\* ... also across wantreadwrite.
LEMMA WantSame ==
  ASSUME NEW s, NEW t, Same(t, s)
  PROVE  Same(wantreadwrite(t), s)
BY WantKeeps DEF Same, SameBuffer, SameState

\* What the application sees of the buffer, the same in a and b.
SameApp(b, a) == /\ DOMAIN b = AppFields
                 /\ \A f \in {"sent", "confirmed", "failed", "freed", "closed"} : b[f] = a[f]

\* A step that changes other parts of the struct and of the application's state only.
LEMMA SameKeeps ==
  ASSUME ConnInv, Live, Same(self', self), SameApp(app', app), sc' = sc,
         DOMAIN net' = {"in", "wire"}, net'.wire = net.wire
  PROVE  ConnInv'
<1>1. AsSelf(self')
  BY SelfAsSelf, AsSelfKept DEF Same
<1>2. Apart({}) /\ app'.closed = app.closed
  BY DEF Apart, SameApp
<1> QED
  BY <1>1, <1>2, StillKeeps DEF Same

\* PSC_Connection_close of a struct that differs in other parts only.
LEMMA CloseSameKeeps ==
  ASSUME ConnInv, Live, NEW s, NEW a, Same(s, self), SameApp(a, app),
         NEW r, r = PSC_Connection_close(s, a), self' = r.s, app' = r.a, sc' = sc,
         DOMAIN net' = {"in", "wire"}, net'.wire = net.wire
  PROVE  ConnInv'
<1>1. AsSelf(s) /\ DOMAIN s = ConnFields /\ DOMAIN a = AppFields
  BY SelfAsSelf, AsSelfKept DEF Same, SameBuffer, SameApp
<1>2. ClosedFrom(r, s, a)
  BY <1>1, CloseIs
<1>3. SameBuffer(self', r.s) /\ SameState(self', r.s)
  BY <1>2 DEF ClosedFrom, SameBuffer, SameState
<1> QED
  BY <1>1, <1>3, CloseKeeps DEF Same, SameApp


\* The fields of struct, application and network.
LEMMA ConnDomains ==
  ASSUME ConnInv
  PROVE  /\ DOMAIN self = ConnFields /\ DOMAIN app = AppFields /\ DOMAIN net = {"in", "wire"}
         /\ Same(self, self) /\ SameApp(app, app)
BY DEF ConnInv, BufferOK, Same, SameBuffer, SameState, SameApp

\* doread: data, nothing yet, or the end of the stream and errors.
LEMMA DoreadKeeps ==
  ASSUME ConnInv, Live, doread(self)
  PROVE  ConnInv'
<1> DEFINE s == [self EXCEPT !.tls_readagain = FALSE]
           u(st) == [s EXCEPT !.tls_read_st = st]
<1>1. Same(s, self) /\ DOMAIN s = ConnFields /\ \A st : Same(u(st), self)
  BY ConnDomains, Fields DEF Same, SameBuffer, SameState
<1>2. \/ \E n : /\ self' = Got(s, n) /\ net' = [net EXCEPT !.in = SubSeq(@, n + 1, Len(@))]
                /\ UNCHANGED <<sc, app>>
      \/ /\ (\E st : self' = wantreadwrite(u(st))) \/ self' = s
         /\ UNCHANGED <<sc, net, app>>
      \/ \E r : /\ r = PSC_Connection_close(Discard(s), Failed(s))
                /\ self' = r.s /\ app' = r.a /\ UNCHANGED <<sc, net>>
  BY DEF doread
<1> HIDE DEF s, u
<1>3. CASE \E n : /\ self' = Got(s, n) /\ net' = [net EXCEPT !.in = SubSeq(@, n + 1, Len(@))]
                  /\ UNCHANGED <<sc, app>>
  <2>1. PICK n : self' = Got(s, n) /\ net' = [net EXCEPT !.in = SubSeq(@, n + 1, Len(@))]
    BY <1>3
  <2>2. Same(self', self)
    BY <1>1, <2>1, StructKeeps, SameTrans DEF Same
  <2>3. DOMAIN net' = {"in", "wire"} /\ net'.wire = net.wire
    BY <2>1, ConnDomains
  <2> QED
    BY <1>3, <2>2, <2>3, ConnDomains, SameKeeps
<1>4. CASE /\ (\E st : self' = wantreadwrite(u(st))) \/ self' = s
           /\ UNCHANGED <<sc, net, app>>
  <2>1. Same(self', self)
    BY <1>1, <1>4, WantSame
  <2> QED
    BY <1>4, <2>1, ConnDomains, SameKeeps
<1>5. CASE \E r : /\ r = PSC_Connection_close(Discard(s), Failed(s))
                  /\ self' = r.s /\ app' = r.a /\ UNCHANGED <<sc, net>>
  <2>1. PICK r : /\ r = PSC_Connection_close(Discard(s), Failed(s))
                 /\ self' = r.s /\ app' = r.a
    BY <1>5
  <2>2. DOMAIN r.s = ConnFields
    <3>1. DOMAIN Discard(s) = ConnFields /\ DOMAIN Failed(s) = AppFields
      BY <1>1, ConnDomains DEF Discard, Failed
    <3>2. ClosedFrom(r, Discard(s), Failed(s))
      BY <2>1, <3>1, CloseIs
    <3> QED
      BY <3>2 DEF ClosedFrom, SameBuffer
  <2>3. SameBuffer(self', r.s) /\ SameState(self', r.s)
    BY <2>1, <2>2 DEF SameBuffer, SameState
  <2>4. AsSelf(s) /\ SameState(s, self)
    BY <1>1, SelfAsSelf, AsSelfKept DEF Same
  <2> QED
    BY <1>5, <2>1, <2>3, <2>4, ErrorKeeps
<1> QED
  BY <1>2, <1>3, <1>4, <1>5

\* dohandshake: done, failed, or to be continued.
LEMMA HandshakeKeeps ==
  ASSUME ConnInv, Live, NEW s0, NEW a0, Same(s0, self), SameApp(a0, app), dohandshake(s0, a0)
  PROVE  ConnInv'
<1> DEFINE s == [s0 EXCEPT !.tls_connect_st = "no"]
           d == DestroyTimer(s, a0)
           t == [d.s EXCEPT !.tlsConnectTimer = FALSE]
           u(st) == [s EXCEPT !.tls_connect_st = st]
<1>1. Same(s, self) /\ DOMAIN s = ConnFields /\ \A st : Same(u(st), self)
  BY Fields DEF Same, SameBuffer, SameState
<1>2. SameApp(d.a, app)
  BY DEF SameApp, DestroyTimer, AppFields
<1>3. /\ \/ /\ self' = wantreadwrite(t)
            /\ app' = IF sc.client THEN [d.a EXCEPT !.connected = @ + 1] ELSE d.a
         \/ \E r : r = PSC_Connection_close(t, d.a) /\ self' = r.s /\ app' = r.a
         \/ \E st : self' = wantreadwrite(u(st)) /\ app' = a0
      /\ UNCHANGED <<sc, net>>
  BY DEF dohandshake
<1> HIDE DEF s, u
<1>4. Same(d.s, self)
  BY <1>1, StructKeeps, SameTrans DEF Same
<1> HIDE DEF d
<1>5. Same(t, self)
  BY <1>4, Fields DEF Same, SameBuffer, SameState
<1> HIDE DEF t
<1>6. CASE /\ self' = wantreadwrite(t)
           /\ app' = IF sc.client THEN [d.a EXCEPT !.connected = @ + 1] ELSE d.a
  <2>1. SameApp(app', app)
    BY <1>2, <1>6 DEF SameApp, AppFields
  <2> QED
    BY <1>3, <1>5, <1>6, <2>1, WantSame, ConnDomains, SameKeeps
<1>7. CASE \E r : r = PSC_Connection_close(t, d.a) /\ self' = r.s /\ app' = r.a
  BY <1>2, <1>3, <1>5, <1>7, ConnDomains, CloseSameKeeps
<1>8. CASE \E st : self' = wantreadwrite(u(st)) /\ app' = a0
  BY <1>1, <1>3, <1>8, WantSame, ConnDomains, SameKeeps
<1> QED
  BY <1>3, <1>6, <1>7, <1>8

\* A close by the application, a timeout or a failed connect.
LEMMA JustCloseKeeps ==
  ASSUME ConnInv, Live, Close(self), UNCHANGED <<sc, net>>
  PROVE  ConnInv'
BY ConnDomains, CloseSameKeeps DEF Close

\* A connect that ended, with or without TLS.
LEMMA ConnectKeeps ==
  ASSUME ConnInv, Live, connectDone
  PROVE  ConnInv'
<1>1. CASE Close(self) /\ UNCHANGED <<sc, net>>
  BY <1>1, JustCloseKeeps
<1>2. CASE dohandshake([self EXCEPT !.tlsConnectTimer = TRUE,
                                    !.timeouts = {"tlsHandshakeTimeout"}],
                       [app EXCEPT !.badfree = @ \/ self.timer # "live"])
  <2> DEFINE s == [self EXCEPT !.tlsConnectTimer = TRUE, !.timeouts = {"tlsHandshakeTimeout"}]
             a == [app EXCEPT !.badfree = @ \/ self.timer # "live"]
  <2>1. Same(s, self) /\ SameApp(a, app)
    BY ConnDomains, Fields DEF Same, SameBuffer, SameState, SameApp, AppFields
  <2> QED
    BY <1>2, <2>1, HandshakeKeeps
<1>3. CASE /\ LET d == DestroyTimer(self, app)
              IN /\ self' = wantreadwrite([d.s EXCEPT !.connectTimer = FALSE])
                 /\ app' = [d.a EXCEPT !.connected = @ + 1]
           /\ UNCHANGED <<sc, net>>
  <2> DEFINE d == DestroyTimer(self, app)
             t == [d.s EXCEPT !.connectTimer = FALSE]
  <2>1. self' = wantreadwrite(t) /\ app' = [d.a EXCEPT !.connected = @ + 1]
    BY <1>3
  <2>2. SameApp(d.a, app)
    BY ConnDomains DEF SameApp, DestroyTimer, AppFields
  <2>3. Same(d.s, self)
    BY ConnDomains, StructKeeps DEF Same
  <2> HIDE DEF d
  <2>4. Same(t, self)
    BY <2>3, Fields DEF Same, SameBuffer, SameState
  <2> HIDE DEF t
  <2>5. SameApp(app', app) /\ Same(self', self)
    BY <2>1, <2>2, <2>4, WantSame DEF SameApp, AppFields
  <2> QED
    BY <1>3, <2>5, ConnDomains, SameKeeps
<1> QED
  BY <1>1, <1>2, <1>3 DEF connectDone


\* A request and its bytes.
LEMMA PayloadIs ==
  ASSUME ConnAssumption, sc \in Scenarios, NEW k \in 1 .. Len(sc.out)
  PROVE  /\ Payload(k) \in Seq(OutBytes)
         /\ [id |-> k, data |-> Payload(k)] \in WriteRecords
<1> DEFINE m == sc.out[k]
           p == Payload(k)
           Y == OutBytes
<1>1. sc.out \in Seq(Nat \ {0})
  BY DEF ConnAssumption
<1>2. m \in Nat \ {0} /\ k \in Nat /\ Len(sc.out) \in Nat
  BY <1>1, LenProperties
<1>3. p = [i \in 1 .. m |-> <<k, i>>]
  BY DEF Payload
<1> HIDE DEF m, p
<1>4. \A i \in 1 .. m : p[i] = <<k, i>> /\ p[i] \in Y
  BY <1>2, <1>3 DEF OutBytes
<1>5. p = [i \in 1 .. m |-> p[i]]
  BY <1>3
<1> HIDE DEF Y
<1>6. p \in Seq(Y) /\ Len(p) = m
  BY <1>2, <1>4, <1>5
<1>7. p # <<>> /\ p[Len(p)] = <<k, m>>
  BY <1>2, <1>4, <1>6
<1> DEFINE r == [id |-> k, data |-> p]
<1>8. r.id = k /\ r.data = p /\ r \in [id : 1 .. Len(sc.out), data : Seq(Y)]
  BY <1>6
<1>9. r \in WriteRecords
  BY <1>7, <1>8 DEF WriteRecords, Y, m
<1> QED
  BY <1>6, <1>9 DEF p, Y

\* A function on 1 .. n is a sequence.
LEMMA AsSeq ==
  ASSUME NEW X, NEW n \in Nat, NEW f, f = [i \in 1 .. n |-> f[i]], \A i \in 1 .. n : f[i] \in X
  PROVE  f \in Seq(X) /\ Len(f) = n
<1>1. f \in [1 .. n -> X]
  OBVIOUS
<1> QED
  BY <1>1

\* Concatenation is associative.
LEMMA Associates ==
  ASSUME NEW Y, NEW x \in Seq(Y), NEW y \in Seq(Y), NEW z \in Seq(Y)
  PROVE  (x \o y) \o z = x \o (y \o z)
BY ConcatAssociative

\* A request that is queued comes behind everything sent before.
LEMMA AllSentGrows ==
  ASSUME ConnAssumption, sc \in Scenarios, NEW q \in Seq(1 .. Len(sc.out)),
         NEW k \in 1 .. Len(sc.out)
  PROVE  LET D(s) == FlattenSeq([i \in DOMAIN s |-> Payload(s[i])])
         IN  D(Append(q, k)) = D(q) \o Payload(k) /\ D(q) \in Seq(OutBytes)
<1> DEFINE K == 1 .. Len(sc.out)
           P(s) == [i \in DOMAIN s |-> Payload(s[i])]
           n == Len(q)
           t == Append(q, k)
           X == Seq(OutBytes)
           p == Payload(k)
<1>1. \A j \in K : Payload(j) \in X
  BY PayloadIs
<1> HIDE DEF K
<1>2. /\ n \in Nat /\ t \in Seq(K) /\ Len(t) = n + 1 /\ DOMAIN q = 1 .. n /\ DOMAIN t = 1 .. n + 1
      /\ (\A i \in 1 .. n : t[i] = q[i] /\ q[i] \in K) /\ t[n + 1] = k
  BY AppendProperties, LenProperties DEF K
<1> HIDE DEF n, t, X
<1>3. /\ P(q) = [i \in 1 .. n |-> P(q)[i]] /\ \A i \in 1 .. n : P(q)[i] = Payload(q[i]) /\ P(q)[i] \in X
  BY <1>1, <1>2
<1>4. /\ P(t) = [i \in 1 .. n + 1 |-> P(t)[i]] /\ P(t)[n + 1] = p
      /\ \A i \in 1 .. n : P(t)[i] = Payload(q[i])
  BY <1>2
<1>5. p \in X
  BY <1>1 DEF K
<1> DEFINE a == P(q)
           b == P(t)
<1>6. /\ a = [i \in 1 .. n |-> a[i]] /\ (\A i \in 1 .. n : a[i] \in X)
      /\ b = [i \in 1 .. n + 1 |-> b[i]] /\ b[n + 1] = p /\ \A i \in 1 .. n : b[i] = a[i]
  BY <1>3, <1>4
<1> HIDE DEF a, b, P, p
<1>0. n + 1 \in Nat /\ \A i \in 1 .. n + 1 : i \in 1 .. n \/ i = n + 1
  BY <1>2
<1>7. a \in Seq(X) /\ Len(a) = n
  BY <1>2, <1>6, AsSeq, Zenon
<1>8. b \in Seq(X) /\ Len(b) = n + 1
  <2>1. \A i \in 1 .. n + 1 : b[i] \in X
    BY <1>0, <1>5, <1>6, Zenon
  <2> QED
    BY <1>0, <1>6, <2>1, AsSeq, Zenon
<1>9. b = Append(a, p)
  <2> DEFINE c == Append(a, p)
  <2>1. /\ c \in Seq(X) /\ Len(c) = n + 1 /\ c[n + 1] = p /\ \A i \in 1 .. n : c[i] = a[i]
    BY <1>5, <1>7, AppendProperties
  <2> HIDE DEF c
  <2>2. \A i \in 1 .. n + 1 : b[i] = c[i]
    BY <1>0, <1>6, <2>1, Zenon
  <2>3. b = c
    BY <1>8, <2>1, <2>2, SeqEqual
  <2> QED
    BY <2>3 DEF c
<1>10. FlattenSeq(b) = FlattenSeq(a) \o p /\ FlattenSeq(a) \in X
  BY <1>5, <1>7, <1>9, FlattenAppend, FlattenType DEF X
<1> QED
  BY <1>10 DEF a, b, P, p, t, X

\* PSC_Connection_sendAsync: the request comes last in what is sent and in what is left.
LEMMA SendKeeps ==
  ASSUME ConnAssumption, ConnInv, PSC_Connection_sendAsync
  PROVE  ConnInv'
<1> DEFINE k == Len(app.sent) + 1
           p == Payload(k)
           r == [id |-> k, data |-> p]
           recs == self.writerecs
           Y == OutBytes
           b == SubSeq(self.wrbuf, self.wrbufpos + 1, Len(self.wrbuf))
           w == net.wire
<1>1. /\ Live /\ k <= Len(sc.out) /\ self.deleteScheduled = 0
      /\ self' = [self EXCEPT !.writerecs = Append(recs, r)]
      /\ app' = [app EXCEPT !.sent = Append(@, k)]
      /\ sc' = sc /\ net' = net
  BY DEF PSC_Connection_sendAsync
<1>2. /\ sc \in Scenarios /\ app.sent \in Seq(1 .. Len(sc.out)) /\ k \in 1 .. Len(sc.out)
  <2>1. app.sent \in Seq(1 .. Len(sc.out)) /\ sc \in Scenarios
    BY DEF ConnInv
  <2>2. Len(app.sent) \in Nat /\ Len(sc.out) \in Nat
    BY <2>1, LenProperties DEF ConnAssumption
  <2> QED
    BY <1>1, <2>1, <2>2
<1>3. p \in Seq(Y) /\ r \in WriteRecords
  BY <1>2, PayloadIs
<1>4. /\ DOMAIN self' = ConnFields /\ self'.writerecs = Append(recs, r)
      /\ \A f \in ConnFields \ {"writerecs"} : self'[f] = self[f]
  BY <1>1, ConnDomains
<1>5. /\ DOMAIN app' = AppFields /\ app'.sent = Append(app.sent, k)
      /\ \A f \in AppFields \ {"sent"} : app'[f] = app[f]
  <2> HIDE DEF k
  <2> QED
    BY <1>1, ConnDomains DEF AppFields
<1>6. /\ BufferOK(self, w) /\ recs \in Seq(WriteRecords) /\ LeftIn(self) \in Seq(Y)
      /\ b \in Seq(Y) /\ Data(recs) \in Seq(Y) /\ w \in Seq(Y)
  BY LeftType DEF ConnInv, BufferOK
<1>7. LeftIn(self) = b \o Data(recs)
  BY DEF LeftIn
<1> HIDE DEF k, p, r, Y, b, w
<1>8. /\ self'.wrbuf = self.wrbuf /\ self'.wrbufpos = self.wrbufpos
      /\ self'.writenotify = self.writenotify /\ self'.deleteScheduled = self.deleteScheduled
      /\ self'.tls_shutdown_st = self.tls_shutdown_st
  BY <1>4, Fields
<1>9. BufferOK(self, net.wire)'
  <2>1. self.wrbuf = <<>> => self.wrbufpos = 0
    BY <1>1 DEF ConnInv
  <2>2. self'.writerecs \in Seq(WriteRecords)
    BY <1>3, <1>4, <1>6, AppendProperties
  <2>3. BufferOK(self', w)
    BY <1>4, <1>6, <1>8, <2>1, <2>2 DEF BufferOK
  <2> QED
    BY <1>1, <2>3, Primed DEF w
<1>10. LeftIn(self)' = LeftIn(self) \o p
  <2>1. \A x \in WriteRecords : x.data \in Seq(Y)
    BY DEF WriteRecords, Y
  <2>2. Data(Append(recs, r)) = Data(recs) \o r.data
    BY <1>3, <1>6, <2>1, DataAppend
  <2>3. LeftIn(self') = b \o (Data(recs) \o p)
    BY <1>4, <1>8, <2>2 DEF LeftIn, b, r
  <2>4. b \o (Data(recs) \o p) = (b \o Data(recs)) \o p
    <3> DEFINE d == Data(recs)
    <3>1. d \in Seq(Y) /\ b \in Seq(Y) /\ p \in Seq(Y)
      BY <1>3, <1>6
    <3> HIDE DEF d
    <3>2. (b \o d) \o p = b \o (d \o p)
      BY <3>1, Associates
    <3> QED
      BY <3>2 DEF d
  <2> QED
    BY <1>1, <1>7, <2>3, <2>4, Primed
<1>11. AllSent' = AllSent \o p
  <2>1. AllSent' = FlattenSeq([i \in DOMAIN app'.sent |-> Payload(app'.sent[i])])
    BY <1>1 DEF AllSent, Payload
  <2>2. LET D(s) == FlattenSeq([i \in DOMAIN s |-> Payload(s[i])])
        IN  D(Append(app.sent, k)) = D(app.sent) \o Payload(k)
    BY <1>2, AllSentGrows
  <2> QED
    BY <1>5, <2>1, <2>2 DEF AllSent, p
<1>12. ~app.failed /\ app.failed \in BOOLEAN /\ app'.failed = app.failed /\ ~app.freed
       /\ app'.freed = app.freed /\ app'.confirmed = app.confirmed /\ app'.closed = app.closed
  BY <1>1, <1>5 DEF ConnInv, Live, AppFields
<1>13. StreamOK(self)'
  <2>1. w \o LeftIn(self) = AllSent
    BY <1>12 DEF ConnInv, StreamOK, w
  <2>2. w \o (LeftIn(self) \o p) = (w \o LeftIn(self)) \o p
    <3> DEFINE l == LeftIn(self)
    <3>1. l \in Seq(Y) /\ w \in Seq(Y) /\ p \in Seq(Y)
      BY <1>3, <1>6
    <3> HIDE DEF l
    <3>2. (w \o l) \o p = w \o (l \o p)
      BY <3>1, Associates
    <3> QED
      BY <3>2 DEF l
  <2> QED
    BY <1>1, <1>10, <1>11, <1>12, <2>1, <2>2 DEF StreamOK, w
<1>14. app'.sent \in Seq(1 .. Len(sc.out)) /\ Complete' = Complete
  <2>1. app'.sent \in Seq(1 .. Len(sc.out))
    <3> DEFINE K == 1 .. Len(sc.out)
    <3>1. app.sent \in Seq(K) /\ k \in K
      BY <1>2
    <3> HIDE DEF K
    <3>2. Append(app.sent, k) \in Seq(K)
      BY <3>1, AppendProperties
    <3> QED
      BY <1>5, <3>2 DEF K
  <2> QED
    BY <1>1, <2>1, Primed DEF Complete
<1> QED
  BY <1>1, <1>5, <1>8, <1>9, <1>12, <1>13, <1>14 DEF ConnInv, Live


\* Only what has nothing left to write, or is taken away by the pool, is freed.
LEMMA DestroyKeeps ==
  ASSUME ConnInv, Live, NEW s, SameBuffer(s, self), PSC_Connection_destroy(s), UNCHANGED <<sc, net>>,
         \/ s.deleteScheduled = 0 /\ self.deleteScheduled = 0
         \/ s.deleteScheduled = 2 /\ self.deleteScheduled # 0 /\ ~Pending(self)
  PROVE  ConnInv'
<1>1. /\ DOMAIN s = ConnFields /\ DOMAIN app = AppFields /\ (Pending(s) <=> Pending(self))
      /\ app.closed = IF self.deleteScheduled = 0 THEN 0 ELSE 1
      /\ app.failed \in BOOLEAN /\ Pending(s) \in BOOLEAN /\ (app.failed => ~Pending(self))
      /\ BufferOK(self, net.wire) /\ StreamOK(self) /\ LeftIn(self) \in Seq(OutBytes)
      /\ net.wire \in Seq(OutBytes) /\ DOMAIN net = {"in", "wire"}
  BY ConnDomains, BufferKept, LeftType DEF ConnInv, SameBuffer, Pending
<1> DEFINE left == Ids(s, [i \in DOMAIN s.writenotify |-> i])
                   \o [i \in DOMAIN s.writerecs |-> s.writerecs[i].id]
           z == app.confirmed \o Raised(s, left)
           a == [app EXCEPT !.confirmed = z]
           ntimers == (IF s.connectTimer THEN 1 ELSE 0) + (IF s.tlsConnectTimer THEN 1 ELSE 0)
           tm == IF ntimers = 0 THEN s.timer ELSE "freed"
           rd == s.rdreg /\ s.deleteScheduled # 0
           bf == \/ a.badfree \/ ntimers = 2
                 \/ ntimers = 1 /\ s.timer # "live"
<1>2. /\ self' = [s EXCEPT !.rdreg = rd, !.wrreg = FALSE, !.timer = tm]
      /\ app' = [a EXCEPT !.closed = IF s.deleteScheduled = 0 THEN @ + 1 ELSE @,
                          !.failed = @ \/ (s.deleteScheduled = 0 /\ Pending(s)),
                          !.freed = TRUE, !.badfree = bf]
  <2>1. s.deleteScheduled # 1
    OBVIOUS
  <2>2. self' = [s EXCEPT !.rdreg = rd, !.wrreg = FALSE, !.timer = tm]
    BY <2>1 DEF PSC_Connection_destroy
  <2>3. app' = [a EXCEPT !.closed = IF s.deleteScheduled = 0 THEN @ + 1 ELSE @,
                         !.failed = @ \/ (s.deleteScheduled = 0 /\ Pending(s)),
                         !.freed = TRUE, !.badfree = bf]
    BY <2>1 DEF PSC_Connection_destroy
  <2> QED
    BY <2>2, <2>3
<1> HIDE DEF tm, bf, z, rd
<1>3. SameBuffer(self', s)
  BY <1>1, <1>2, Fields DEF SameBuffer
<1>4. /\ DOMAIN app' = AppFields /\ app'.sent = app.sent /\ app'.freed = TRUE
      /\ app'.closed = (IF s.deleteScheduled = 0 THEN app.closed + 1 ELSE app.closed)
      /\ app'.failed = (app.failed \/ (s.deleteScheduled = 0 /\ Pending(s)))
  BY <1>1, <1>2 DEF AppFields
<1>5. app'.closed = 1 /\ app'.failed = (app.failed \/ Pending(self)) /\ app'.failed \in BOOLEAN
  BY <1>1, <1>4
<1>6. SameBuffer(self', self)
  BY <1>3 DEF SameBuffer
<1>7. BufferOK(self, net.wire)' /\ LeftIn(self)' = LeftIn(self) /\ (Pending(self)' <=> Pending(self))
  BY <1>1, <1>6, BufferKept, Primed
<1>8. AllSent' = AllSent
  BY <1>4 DEF AllSent, Payload
<1>9. StreamOK(self)'
  <2>1. CASE app.failed
    BY <1>1, <1>5, <1>8, <2>1 DEF StreamOK
  <2>2. CASE ~app.failed
    <3>1. net.wire \o LeftIn(self) = AllSent
      BY <1>1, <2>2 DEF StreamOK
    <3>2. IsPrefix(net.wire, net.wire \o LeftIn(self))
      <4> DEFINE x == net.wire
                 y == LeftIn(self)
      <4>1. x \in Seq(OutBytes) /\ y \in Seq(OutBytes)
        BY <1>1
      <4> HIDE DEF x, y
      <4>2. IsPrefix(x, x \o y)
        BY <4>1, ConcatProperties, LenProperties DEF IsPrefix
      <4> QED
        BY <4>2 DEF x, y
    <3> QED
      BY <1>7, <1>8, <3>1, <3>2 DEF StreamOK
  <2> QED
    BY <2>1, <2>2
<1>10. sc' = sc /\ net' = net /\ sc \in Scenarios /\ app.sent \in Seq(1 .. Len(sc.out))
  BY DEF ConnInv
<1>11. app'.sent \in Seq(1 .. Len(sc'.out)) /\ 1 \in Nat
  BY <1>4, <1>10
<1>12. app'.failed \/ ~Pending(self)'
  BY <1>5, <1>7
<1> QED
  BY <1>1, <1>4, <1>5, <1>7, <1>9, <1>10, <1>11, <1>12 DEF ConnInv, Live

\* deleteConnection, called for a connection that was closed.
LEMMA DeleteKeeps ==
  ASSUME ConnInv, Live, deleteConnection, self.deleteScheduled # 0, UNCHANGED <<sc, net>>
  PROVE  ConnInv'
<1>1. CASE UNCHANGED <<self, app>>
  BY <1>1, ConnDomains, SameKeeps
<1>2. CASE ~Pending(self) /\ PSC_Connection_destroy([self EXCEPT !.deleteScheduled = 2])
  <2> DEFINE s == [self EXCEPT !.deleteScheduled = 2]
  <2>1. SameBuffer(s, self) /\ s.deleteScheduled = 2
    BY ConnDomains, Fields DEF SameBuffer
  <2> QED
    BY <1>2, <2>1, DestroyKeeps
<1>3. CASE /\ self' = [self EXCEPT !.tls_shutdown_st = "read", !.rdreg = TRUE]
           /\ UNCHANGED app
  <2>1. SameBuffer(self', self) /\ self'.deleteScheduled = self.deleteScheduled
    BY <1>3, ConnDomains, Fields DEF SameBuffer
  <2>2. AsSelf(self')
    BY <2>1, SelfAsSelf, AsSelfKept
  <2>3. ClosesOnce
    BY <1>3, <2>1 DEF ClosesOnce, ConnInv
  <2>4. Apart({})
    BY <1>3, ConnDomains DEF Apart
  <2>5. QuietStep
    BY <2>2, <2>3, <2>4 DEF QuietStep, AsSelf
  <2> QED
    BY <2>5, QuietKeeps
<1> QED
  BY <1>1, <1>2, <1>3 DEF deleteConnection

\* The loop that raises dataReceived leaves the write buffer alone.
LEMMA RaisingKeeps ==
  ASSUME ConnInv, Raising
  PROVE  ConnInv'
<1>1. CASE raisereceivedevents
  <2> DEFINE s == Restored(self)
             len == MessageLen(s)
             ended == [s EXCEPT !.rdtextsave = s.rdbuf[s.rdbufpos + len],
                                !.rdbuf[s.rdbufpos + len] = NUL]
             msg == [i \in 1 .. len |-> s.rdbuf[s.rdbufpos + i - 1]]
             told == [app EXCEPT !.received = @ \o msg,
                                 !.given = [pos |-> s.rdbufpos, msg |-> msg]]
  <2>1. /\ Live /\ UNCHANGED <<sc, net>>
        /\ self' = Reset(s) \/ self' = s \/ self' = ended
        /\ app' = app \/ app' = [app EXCEPT !.dropped = TRUE] \/ app' = told
    BY <1>1 DEF raisereceivedevents
  <2>2. Same(s, self)
    BY ConnDomains, StructKeeps DEF Same
  <2> HIDE DEF s, len, msg
  <2>3. Same(Reset(s), self) /\ Same(ended, self)
    BY <2>2, Fields DEF Same, SameBuffer, SameState, Reset
  <2>4. SameApp(app', app)
    BY <2>1, ConnDomains DEF SameApp, AppFields
  <2> QED
    BY <2>1, <2>2, <2>3, <2>4, ConnDomains, SameKeeps
<1>2. CASE handlerReturns
  <2> DEFINE s == [self EXCEPT !.rdbufpos = @ + pc.len]
  <2>1. Live /\ UNCHANGED <<sc, net, app>> /\ (self' = Reset(s) \/ self' = s)
    BY <1>2 DEF handlerReturns
  <2>2. Same(s, self) /\ Same(Reset(s), self)
    BY ConnDomains, Fields DEF Same, SameBuffer, SameState, Reset
  <2> QED
    BY <2>1, <2>2, ConnDomains, SameKeeps
<1>3. CASE raiseDone
  <2> DEFINE c == Compacted(self)
             s == [c EXCEPT !.tls_readagain = @ \/ (sc.tls /\ pc.full)]
  <2>1. Live /\ UNCHANGED <<sc, net, app>> /\ (self' = s \/ self' = wantreadwrite(s))
    BY <1>3 DEF raiseDone
  <2>2. Same(c, self)
    BY ConnDomains, StructKeeps DEF Same
  <2> HIDE DEF c
  <2>3. Same(s, self)
    BY <2>2, Fields DEF Same, SameBuffer, SameState
  <2> HIDE DEF s
  <2>4. Same(self', self)
    BY <2>1, <2>3, WantSame
  <2> QED
    BY <2>1, <2>4, ConnDomains, SameKeeps
<1>4. CASE readAgain
  BY <1>4, DoreadKeeps DEF readAgain
<1> QED
  BY <1>1, <1>2, <1>3, <1>4 DEF Raising

\* The handlers of eventsDone.
LEMMA EventsDoneKeeps ==
  ASSUME ConnAssumption, ConnInv, EventsDone
  PROVE  ConnInv'
<1>1. CASE tryWrite
  <2>1. Live /\ UNCHANGED sc /\ (dowrite(self) \/ UNCHANGED <<self, net, app>>)
    BY <1>1 DEF tryWrite
  <2> QED
    BY <2>1, DowriteKeeps, ConnDomains, SameKeeps
<1>2. CASE eventsDone_delete
  <2>1. /\ Live /\ UNCHANGED <<sc, net>>
        /\ (self.deleteScheduled = 1 /\ deleteConnection) \/ UNCHANGED <<self, app>>
    BY <1>2 DEF eventsDone_delete
  <2> QED
    BY <2>1, DeleteKeeps, ConnDomains, SameKeeps
<1> QED
  BY <1>1, <1>2 DEF EventsDone

\* The handlers of readyRead and readyWrite.
LEMMA HandlingKeeps ==
  ASSUME ConnAssumption, ConnInv, Handling
  PROVE  ConnInv'
<1>1. CASE readConnection
  <2> DEFINE u == [self EXCEPT !.tls_read_st = "no"]
  <2>1. /\ Live
        /\ \/ self.tls_shutdown_st = "read" /\ deleteConnection /\ UNCHANGED <<sc, net>>
           \/ dohandshake(self, app)
           \/ dowrite(self) /\ UNCHANGED sc
           \/ self' = wantreadwrite(u) /\ UNCHANGED <<sc, net, app>>
           \/ doread(self)
    BY <1>1 DEF readConnection
  <2>2. Same(wantreadwrite(u), self)
    <3>1. Same(u, self)
      BY ConnDomains, Fields DEF Same, SameBuffer, SameState
    <3> QED
      BY <3>1, WantSame
  <2>3. self.tls_shutdown_st = "read" => self.deleteScheduled # 0
    BY <2>1 DEF ConnInv
  <2> QED
    BY <2>1, <2>2, <2>3, DeleteKeeps, HandshakeKeeps, DowriteKeeps, DoreadKeeps, SameKeeps, ConnDomains
<1>2. CASE writeConnection
  <2> DEFINE u == [self EXCEPT !.tls_write_st = "no"]
  <2>1. /\ Live
        /\ \/ connectDone
           \/ dohandshake(self, app)
           \/ doread(self)
           \/ self' = wantreadwrite(u) /\ UNCHANGED <<sc, net, app>>
           \/ dowrite(self) /\ UNCHANGED sc
    BY <1>2 DEF writeConnection
  <2>2. Same(wantreadwrite(u), self)
    <3>1. Same(u, self)
      BY ConnDomains, Fields DEF Same, SameBuffer, SameState
    <3> QED
      BY <3>1, WantSame
  <2> QED
    BY <2>1, <2>2, ConnectKeeps, HandshakeKeeps, DowriteKeeps, DoreadKeeps, SameKeeps, ConnDomains
<1>3. CASE unhandled
  BY <1>3, ConnDomains, SameKeeps DEF unhandled
<1> QED
  BY <1>1, <1>2, <1>3 DEF Handling

\* The calls of the application.
LEMMA UserCallsKeep ==
  ASSUME ConnAssumption, ConnInv, UserCalls
  PROVE  ConnInv'
<1>1. CASE PSC_Connection_sendAsync
  BY <1>1, SendKeeps
<1>2. CASE PSC_Connection_pause \/ PSC_Connection_resume
  <2>1. PICK x : /\ Live /\ UNCHANGED <<sc, net, app>>
                 /\ \/ self' = [self EXCEPT !.paused = x]
                    \/ self' = wantreadwrite([self EXCEPT !.paused = x])
    BY <1>2 DEF PSC_Connection_pause, PSC_Connection_resume, May
  <2> DEFINE s == [self EXCEPT !.paused = x]
  <2>2. Same(s, self)
    BY ConnDomains, Fields DEF Same, SameBuffer, SameState
  <2>3. self' = s \/ self' = wantreadwrite(s)
    BY <2>1
  <2> HIDE DEF s
  <2>4. Same(self', self)
    BY <2>2, <2>3, WantSame
  <2> QED
    BY <2>1, <2>4, ConnDomains, SameKeeps
<1>3. CASE PSC_EADataReceived_markHandling \/ PSC_Connection_confirmDataReceived
  <2>1. PICK x : Live /\ UNCHANGED <<sc, net, app>> /\ self' = [self EXCEPT !.handling = x]
    BY <1>3 DEF PSC_EADataReceived_markHandling, PSC_Connection_confirmDataReceived, May
  <2>2. Same(self', self)
    BY <2>1, ConnDomains, Fields DEF Same, SameBuffer, SameState
  <2> QED
    BY <2>1, <2>2, ConnDomains, SameKeeps
<1>4. CASE (\E n \in 0 .. RDBUFSZ : PSC_Connection_receiveBinary(n)) \/ PSC_Connection_receiveLine
  <2>1. PICK x : /\ Live /\ UNCHANGED <<sc, net, app>>
                 /\ \/ self' = [self EXCEPT !.rdlocator = FALSE, !.rdexpect = x]
                    \/ self' = [self EXCEPT !.rdlocator = TRUE]
    BY <1>4 DEF PSC_Connection_receiveBinary, PSC_Connection_receiveLine, May
  <2>2. Same(self', self)
    BY <2>1, ConnDomains, Fields DEF Same, SameBuffer, SameState
  <2> QED
    BY <2>1, <2>2, ConnDomains, SameKeeps
<1>5. CASE UserClose
  BY <1>5, JustCloseKeeps DEF UserClose, May
<1>6. CASE destroyPoolConn
  <2>1. /\ Live /\ UNCHANGED <<sc, net>> /\ self.deleteScheduled = 0
        /\ PSC_Connection_destroy(self)
    BY <1>6 DEF destroyPoolConn, May
  <2> QED
    BY <2>1, ConnDomains, DestroyKeeps DEF Same
<1> QED
  BY <1>1, <1>2, <1>3, <1>4, <1>5, <1>6 DEF UserCalls

\* A new connection has sent nothing.
LEMMA ConnStarts ==
  ASSUME ConnAssumption, ConnInit
  PROVE  ConnInv
<1> DEFINE s == PSC_Connection_create(sc)
<1>1. /\ DOMAIN s = ConnFields /\ s.wrbuf = <<>> /\ s.wrbufpos = 0 /\ s.writerecs = <<>>
      /\ s.writenotify = <<>> /\ s.deleteScheduled = 0 /\ s.tls_shutdown_st = "no"
  BY Fields DEF PSC_Connection_create
<1>2. /\ self = s /\ sc \in Scenarios /\ DOMAIN net = {"in", "wire"} /\ net.wire = <<>>
      /\ DOMAIN app = AppFields /\ app.sent = <<>> /\ app.confirmed = <<>> /\ app.failed = FALSE
      /\ app.freed = FALSE /\ app.closed = 0
  BY DEF ConnInit, AppFields
<1> HIDE DEF s
<1>3. BufferOK(self, net.wire)
  <2>1. self.writenotify = <<>> /\ DOMAIN self.writenotify = {}
    BY <1>1, <1>2
  <2>2. \A X : <<>> \in Seq(X)
    OBVIOUS
  <2>3. self.wrbuf = <<>> /\ self.writerecs = <<>> /\ self.wrbufpos = 0 /\ DOMAIN self = ConnFields
    BY <1>1, <1>2
  <2>4. /\ self.wrbuf \in Seq(OutBytes) /\ self.writerecs \in Seq(WriteRecords)
        /\ self.writenotify \in Seq([id : Nat, pos : Nat])
    BY <2>1, <2>2, <2>3
  <2> QED
    BY <2>1, <2>3, <2>4 DEF BufferOK
<1>4. LeftIn(self) = <<>> /\ ~Pending(self)
  <2>1. ~Pending(self)
    BY <1>1, <1>2 DEF Pending
  <2> QED
    BY <1>3, <2>1, LeftType
<1>5. StreamOK(self)
  <2>1. AllSent = <<>>
    <3>1. [i \in DOMAIN app.sent |-> Payload(app.sent[i])] = <<>>
      BY <1>2
    <3>2. FlattenSeq(<<>>) = <<>>
      BY DEF FlattenSeq
    <3> QED
      BY <3>1, <3>2 DEF AllSent
  <2> QED
    BY <1>2, <1>4, <2>1 DEF StreamOK
<1>6. /\ net.wire \in Seq(OutBytes) /\ app.sent \in Seq(1 .. Len(sc.out))
      /\ app.confirmed \in Seq(Complete)
  <2>1. \A X : <<>> \in Seq(X)
    OBVIOUS
  <2> QED
    BY <1>2, <2>1, Zenon
<1>7. self.deleteScheduled = 0 /\ self.tls_shutdown_st = "no" /\ self.wrbufpos = 0
  BY <1>1, <1>2
<1>8. app.failed \in BOOLEAN /\ app.freed \in BOOLEAN /\ app.closed \in Nat
  <2>1. FALSE \in BOOLEAN /\ 0 \in Nat
    OBVIOUS
  <2> QED
    BY <1>2, <2>1, Zenon
<1>9. /\ app.failed => ~Pending(self) /\ self.deleteScheduled # 0
      /\ app.closed = IF self.deleteScheduled = 0 THEN 0 ELSE 1
      /\ app.freed => app.closed = 1 /\ (app.failed \/ ~Pending(self))
  BY <1>2, <1>7
<1> HIDE DEF Complete
<1> QED
  BY <1>2, <1>3, <1>5, <1>6, <1>7, <1>8, <1>9, Zenon DEF ConnInv

\* What the run checks follows from the invariant.
LEMMA ConnImplies ==
  ASSUME ConnInv
  PROVE  WrittenInOrder
<1> DEFINE w == net.wire
           l == LeftIn(self)
<1>1. w \in Seq(OutBytes) /\ l \in Seq(OutBytes) /\ l = Unwritten /\ StreamOK(self)
  BY LeftType DEF ConnInv, LeftIn, Unwritten
<1>2. ~app.failed => w \o l = AllSent
  BY <1>1 DEF StreamOK
<1>3. IsPrefix(w, AllSent)
  <2>1. IsPrefix(w, w \o l)
    <3> HIDE DEF w, l
    <3> QED
      BY <1>1, ConcatProperties, LenProperties DEF IsPrefix
  <2> QED
    BY <1>1, <1>2, <2>1 DEF StreamOK
<1>4. WireInOrder
  BY <1>1, <1>2, <1>3 DEF WireInOrder
<1>5. ConfirmedMeansWritten
  <2> SUFFICES ASSUME Live, NEW k \in Range(app.confirmed)
               PROVE  <<k, sc.out[k]>> \in Range(net.wire)
    BY DEF ConfirmedMeansWritten
  <2>1. app.confirmed \in Seq(Complete)
    BY DEF ConnInv
  <2>2. k \in Complete
    <3> HIDE DEF Complete
    <3> QED
      BY <2>1 DEF Range
  <2> QED
    BY <2>2 DEF Complete
<1>6. FlushedBeforeFree
  <2> SUFFICES ASSUME app.freed, ~app.failed PROVE net.wire = AllSent
    BY DEF FlushedBeforeFree
  <2>1. l = <<>>
    BY LeftType DEF ConnInv
  <2>2. w \o <<>> = w
    BY <1>1, ConcatEmptySeq
  <2> QED
    BY <1>2, <2>1, <2>2
<1>7. ClosedOnce
  BY DEF ConnInv, Live, ClosedOnce
<1> QED
  BY <1>4, <1>5, <1>6, <1>7 DEF WrittenInOrder

\* connection.c: what PSC_Connection_sendAsync was given goes out in order, however writes
\* cut it; dataSent is raised for what was written; a closed connection is freed after its
\* data was written, and closed is raised once.
THEOREM ConnWrites ==
  ASSUME ConnAssumption
  PROVE  ConnSpec => []WrittenInOrder
<1>1. ConnInit => ConnInv
  BY ConnStarts
<1>2. ConnInv /\ [ConnNext]_cvars => ConnInv'
  <2> SUFFICES ASSUME ConnInv, [ConnNext]_cvars PROVE ConnInv'
    OBVIOUS
  <2>1. CASE wake
    BY <2>1, ConnDomains, SameKeeps DEF wake
  <2>2. CASE Handling
    BY <2>2, HandlingKeeps
  <2>3. CASE Raising
    BY <2>3, RaisingKeeps
  <2>4. CASE EventsDone
    BY <2>4, EventsDoneKeeps
  <2>5. CASE Timeout
    BY <2>5, JustCloseKeeps DEF Timeout
  <2>6. CASE UserCalls
    BY <2>6, UserCallsKeep
  <2>7. CASE UNCHANGED cvars
    BY <2>7 DEF cvars, ConnInv, BufferOK, NoteOK, StreamOK, LeftIn, Live, Complete, Pending,
                AllSent, Payload, WriteRecords, Data, OutBytes
  <2> QED
    BY <2>1, <2>2, <2>3, <2>4, <2>5, <2>6, <2>7 DEF ConnNext
<1>3. ConnInv => WrittenInOrder
  BY ConnImplies
<1> QED
  BY <1>1, <1>2, <1>3, PTL DEF ConnSpec

=============================================================================
