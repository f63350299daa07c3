--------------------------- MODULE FlatTextProofs ---------------------------
(***************************************************************************)
(* What Insert, Delete and Slice return, byte by byte, and the two laws    *)
(* that make undoing exact.                                                *)
(***************************************************************************)
EXTENDS FlatText, SequencesExt, SequenceTheorems, FiniteSetTheorems, WellFoundedInduction, TLAPS

(* A set of naturals has a least element.                                  *)
LEMMA Least ==
  ASSUME NEW T, T \subseteq Nat, T # {}
  PROVE  \E x \in T : \A y \in T : x <= y
<1> DEFINE R == OpToRel(<, Nat)
<1>1. IsWellFoundedOn(R, Nat)
  BY NatLessThanWellFounded, Zenon
<1> HIDE DEF R
<1>2. PICK x \in T : \A y \in T : ~(<<y, x>> \in R)
  BY <1>1, WFMin, Zenon
<1>3. \A y \in T : y \in Nat /\ x \in Nat
  OBVIOUS
<1>4. \A y \in Nat : x \in Nat /\ y < x => <<y, x>> \in R
  BY DEF R, OpToRel
<1>5. \A y \in T : ~(y < x)
  BY <1>2, <1>3, <1>4
<1> QED
  BY <1>3, <1>5

(* What Min() returns.                                                     *)
LEMMA MinIs ==
  ASSUME NEW T, T \subseteq Nat, T # {}
  PROVE  Min(T) \in T /\ \A y \in T : Min(T) <= y
BY Least DEF Min

(* What Max() returns for a set of integers that has a bound.              *)
LEMMA MaxIs ==
  ASSUME NEW T, T \subseteq Int, T # {}, NEW b \in Int, \A y \in T : y <= b
  PROVE  Max(T) \in T /\ \A y \in T : y <= Max(T)
<1> DEFINE D == {b - y : y \in T}
<1>0. \A y \in T : b - y \in Nat
  OBVIOUS
<1>1. D \subseteq Nat /\ D # {}
  BY <1>0
<1>2. PICK d \in D : \A e \in D : d <= e
  BY <1>1, Least
<1>3. PICK x \in T : d = b - x
  BY <1>2
<1>4. \A y \in T : b - y \in D
  OBVIOUS
<1>5. \A y \in T : y \in Int /\ x \in Int
  BY <1>3
<1>6. \A y \in T : b - x <= b - y
  BY <1>2, <1>3, <1>4
<1> HIDE DEF D
<1>7. \A y \in T : y <= x
  BY <1>5, <1>6
<1> QED
  BY <1>3, <1>7 DEF Max

(* A set of naturals that has 0, and with k has k + 1, has all of them up  *)
(* to n.                                                                   *)
LEMMA UpTo ==
  ASSUME NEW n \in Nat, NEW T, 0 \in T, \A k \in 1 .. n : k - 1 \in T => k \in T
  PROVE  \A k \in 0 .. n : k \in T
<1> DEFINE Bad == {k \in 0 .. n : k \notin T}
<1>1. SUFFICES ASSUME Bad # {} PROVE FALSE
  OBVIOUS
<1>2. Bad \subseteq Nat
  OBVIOUS
<1>3. PICK k \in Bad : \A i \in Bad : k <= i
  BY <1>1, <1>2, Least
<1>4. k # 0 /\ k \in 1 .. n
  BY <1>3
<1>5. k - 1 \in 0 .. n /\ k - 1 \in Nat /\ ~(k <= k - 1)
  BY <1>4
<1>6. k - 1 \in T
  BY <1>3, <1>5
<1> QED
  BY <1>3, <1>4, <1>6

(* A function defined on the sets of numbers up to n by what its value is  *)
(* at the empty set, and how that at another one comes from the set        *)
(* without its greatest number; the same when G tells it only where f is   *)
(* in S; and its values at 1 .. k, one after the other.  The folds of the  *)
(* community modules are defined by the first, and are reasoned about by   *)
(* the last.                                                               *)
FoldsBy(f, b, n, G) ==
  \A s \in SUBSET (1 .. n) : f[s] = IF s = {} THEN b ELSE G[<<f[s \ {Max(s)}], Max(s)>>]
FoldsIn(S, f, b, n, G) ==
  f[{}] = b /\ \A s \in SUBSET (1 .. n) :
                 s # {} /\ f[s \ {Max(s)}] \in S => f[s] = G[<<f[s \ {Max(s)}], Max(s)>>]
RunsBy(g, b, n, G) == g[0] = b /\ \A k \in 1 .. n : g[k] = G[<<g[k - 1], k>>]
RunsTo(S, x, b, n, G) == \E g \in [0 .. n -> S] : RunsBy(g, b, n, G) /\ x = g[n]

(* There is such a function.                                               *)
LEMMA FoldExists ==
  ASSUME NEW S, NEW b \in S, NEW n \in Nat, NEW G \in [S \X (1 .. n) -> S]
  PROVE  \E f \in [SUBSET (1 .. n) -> S] : FoldsBy(f, b, n, G)
<1> DEFINE Good(k, f) == \A s \in SUBSET (1 .. k) :
                           f[s] = IF s = {} THEN b ELSE G[<<f[s \ {Max(s)}], Max(s)>>]
           Ok(k) == \E f \in [SUBSET (1 .. k) -> S] : Good(k, f)
           T == {k \in 0 .. n : Ok(k)}
<1>1. Ok(0)
  <2> DEFINE f == [s \in SUBSET (1 .. 0) |-> b]
  <2>1. f \in [SUBSET (1 .. 0) -> S] /\ \A s \in SUBSET (1 .. 0) : s = {}
    OBVIOUS
  <2>2. Good(0, f)
    BY <2>1
  <2> QED
    BY <2>1, <2>2
<1>2. ASSUME NEW k \in 1 .. n, Ok(k - 1) PROVE Ok(k)
  <2>1. PICK f \in [SUBSET (1 .. k - 1) -> S] : Good(k - 1, f)
    BY <1>2
  <2> DEFINE h == [s \in SUBSET (1 .. k) |-> IF k \in s THEN G[<<f[s \ {k}], k>>] ELSE f[s]]
  <2>2. \A s \in SUBSET (1 .. k) : s \ {k} \in SUBSET (1 .. k - 1) /\ (k \notin s => s \in SUBSET (1 .. k - 1))
    BY <1>2
  <2>3. h \in [SUBSET (1 .. k) -> S]
    <3>1. ASSUME NEW s \in SUBSET (1 .. k) PROVE (IF k \in s THEN G[<<f[s \ {k}], k>>] ELSE f[s]) \in S
      BY <2>1, <2>2
    <3> QED
      BY <3>1
  <2>4. ASSUME NEW s \in SUBSET (1 .. k), s # {}
        PROVE  Max(s) \in s /\ \A y \in s : y <= Max(s)
    <3>1. s \subseteq Int /\ k \in Int /\ \A y \in s : y <= k
      BY <1>2
    <3> QED
      BY ONLY <2>4, <3>1, MaxIs
  <2>5. ASSUME NEW s \in SUBSET (1 .. k)
        PROVE  h[s] = IF s = {} THEN b ELSE G[<<h[s \ {Max(s)}], Max(s)>>]
    <3>1. CASE s = {}
      <4>1. h[s] = f[s] /\ {} \in SUBSET (1 .. k - 1)
        BY <3>1
      <4> QED
        BY <2>1, <3>1, <4>1
    <3>2. CASE s # {} /\ k \in s
      <4>1. Max(s) = k
        <5>1. Max(s) \in 1 .. k /\ k <= Max(s)
          BY <2>4, <3>2
        <5> QED
          BY <5>1
      <4>2. h[s \ {k}] = f[s \ {k}]
        <5>1. s \ {k} \in SUBSET (1 .. k) /\ k \notin s \ {k}
          OBVIOUS
        <5> QED
          BY <5>1
      <4> QED
        BY <3>2, <4>1, <4>2
    <3>3. CASE s # {} /\ k \notin s
      <4>1. s \in SUBSET (1 .. k - 1) /\ s \ {Max(s)} \in SUBSET (1 .. k) /\ k \notin s \ {Max(s)}
        BY <2>2, <3>3
      <4>2. h[s] = f[s] /\ h[s \ {Max(s)}] = f[s \ {Max(s)}]
        BY <3>3, <4>1
      <4>3. f[s] = G[<<f[s \ {Max(s)}], Max(s)>>]
        BY <2>1, <3>3, <4>1
      <4> QED
        BY <3>3, <4>2, <4>3
    <3> QED
      BY <3>1, <3>2, <3>3
  <2> HIDE DEF h
  <2>6. Good(k, h)
    BY <2>5
  <2> QED
    BY <2>3, <2>6
<1> HIDE DEF Ok
<1>3. 0 \in T /\ \A k \in 1 .. n : k - 1 \in T => k \in T
  BY <1>1, <1>2
<1> HIDE DEF T
<1>4. \A k \in 0 .. n : k \in T
  BY ONLY <1>3, UpTo
<1>5. Ok(n)
  BY <1>4 DEF T
<1> QED
  BY <1>5 DEF Ok, FoldsBy

(* The values of such a function.                                          *)
LEMMA FoldTrace ==
  ASSUME NEW S, NEW b \in S, NEW n \in Nat, NEW G \in [S \X (1 .. n) -> S],
         NEW f, FoldsIn(S, f, b, n, G)
  PROVE  RunsTo(S, f[1 .. n], b, n, G)
<1> DEFINE g == [k \in 0 .. n |-> f[1 .. k]]
           T == {k \in 0 .. n : f[1 .. k] \in S}
<1>1. 1 .. 0 = {}
  OBVIOUS
<1>2. ASSUME NEW k \in 1 .. n PROVE 1 .. k \in SUBSET (1 .. n) /\ Max(1 .. k) = k /\ (1 .. k) \ {k} = 1 .. k - 1
  <2>1. 1 .. k \subseteq Int /\ k \in Int /\ 1 .. k # {} /\ \A y \in 1 .. k : y <= k
    BY <1>2
  <2>2. Max(1 .. k) \in 1 .. k /\ \A y \in 1 .. k : y <= Max(1 .. k)
    BY ONLY <2>1, MaxIs
  <2>3. k \in 1 .. k
    BY <1>2
  <2>4. Max(1 .. k) = k
    BY <2>2, <2>3
  <2> QED
    BY <1>2, <2>4
<1>3. ASSUME NEW k \in 1 .. n, f[1 .. k - 1] \in S
      PROVE  f[1 .. k] = G[<<f[1 .. k - 1], k>>] /\ f[1 .. k] \in S
  <2>1. f[1 .. k] = G[<<f[1 .. k - 1], k>>]
    <3>1. k \in 1 .. k
      OBVIOUS
    <3>2. 1 .. k # {} /\ f[(1 .. k) \ {Max(1 .. k)}] = f[1 .. k - 1]
      BY <1>2, <3>1
    <3> QED
      BY <1>2, <1>3, <3>2 DEF FoldsIn
  <2>2. <<f[1 .. k - 1], k>> \in S \X (1 .. n)
    BY <1>3
  <2> QED
    BY <2>1, <2>2
<1>4. 0 \in T
  BY <1>1 DEF FoldsIn
<1>5. \A k \in 1 .. n : k - 1 \in T => k \in T
  <2>1. \A k \in 1 .. n : k \in 0 .. n
    OBVIOUS
  <2> QED
    BY <1>3, <2>1
<1>6. \A k \in 0 .. n : f[1 .. k] \in S
  <2> HIDE DEF T
  <2>1. \A k \in 0 .. n : k \in T
    BY ONLY <1>4, <1>5, UpTo
  <2> QED
    BY <2>1 DEF T
<1>7. g \in [0 .. n -> S] /\ g[0] = b /\ f[1 .. n] = g[n]
  BY <1>1, <1>6 DEF FoldsIn
<1>8. ASSUME NEW k \in 1 .. n PROVE g[k] = G[<<g[k - 1], k>>]
  <2>1. k - 1 \in 0 .. n /\ k \in 0 .. n
    OBVIOUS
  <2>2. g[k] = f[1 .. k] /\ g[k - 1] = f[1 .. k - 1]
    BY <2>1
  <2> QED
    BY <1>3, <1>6, <2>1, <2>2
<1> QED
  BY <1>7, <1>8 DEF RunsBy, RunsTo

(* There is a function that gives the values one after the other, as a     *)
(* recursive function on numbers does.                                     *)
LEMMA RunExists ==
  ASSUME NEW S, NEW b \in S, NEW n \in Nat, NEW G \in [S \X (1 .. n) -> S]
  PROVE  \E g \in [0 .. n -> S] : RunsBy(g, b, n, G)
<1>1. PICK f \in [SUBSET (1 .. n) -> S] : FoldsBy(f, b, n, G)
  BY FoldExists
<1>2. {} \in SUBSET (1 .. n)
  OBVIOUS
<1>3. FoldsIn(S, f, b, n, G)
  BY <1>1, <1>2 DEF FoldsBy, FoldsIn
<1>4. RunsTo(S, f[1 .. n], b, n, G)
  BY <1>3, FoldTrace
<1> QED
  BY <1>4 DEF RunsTo

(* A subsequence of a sequence, bounds included.                           *)
LEMMA SubSeqOfSeq ==
  ASSUME NEW S, NEW s \in Seq(S), NEW m \in Nat \ {0}, NEW n \in Nat, n <= Len(s)
  PROVE  /\ SubSeq(s, m, n) \in Seq(S)
         /\ Len(SubSeq(s, m, n)) = IF m <= n THEN n - m + 1 ELSE 0
         /\ \A i \in 1 .. n - m + 1 : SubSeq(s, m, n)[i] = s[m + i - 1]
<1>1. \A i \in m .. n : s[i] \in S
  BY ElementOfSeq
<1> QED
  BY <1>1, SubSeqProperties

(* The type and length of a concatenation.                                 *)
LEMMA ConcatType ==
  ASSUME NEW S, NEW p \in Seq(S), NEW q \in Seq(S)
  PROVE  p \o q \in Seq(S) /\ Len(p \o q) = Len(p) + Len(q)
  BY ConcatProperties

(* A sequence cut in two.                                                  *)
LEMMA CutInTwo ==
  ASSUME NEW S, NEW s \in Seq(S), NEW k \in Nat, NEW n \in Nat, k <= n, n <= Len(s)
  PROVE  SubSeq(s, 1, k) \o SubSeq(s, k + 1, n) = SubSeq(s, 1, n)
<1>1. Len(s) \in Nat
  OBVIOUS
<1>2. 1 \in 1 .. Len(s) + 1 /\ k \in 1 - 1 .. Len(s) /\ n \in k .. Len(s)
  BY <1>1
<1> QED
  BY <1>2, ConcatAdjacentSubSeq

(* The same cut, of a whole sequence.                                      *)
LEMMA CutAll ==
  ASSUME NEW S, NEW s \in Seq(S), NEW k \in Nat, k <= Len(s)
  PROVE  SubSeq(s, 1, k) \o SubSeq(s, k + 1, Len(s)) = s
<1> DEFINE n == Len(s)
<1>1. n \in Nat /\ k <= n /\ n <= Len(s)
  OBVIOUS
<1>2. SubSeq(s, 1, n) = s
  BY SubSeqFull
<1> HIDE DEF n
<1>3. SubSeq(s, 1, k) \o SubSeq(s, k + 1, n) = SubSeq(s, 1, n)
  BY <1>1, CutInTwo
<1> QED
  BY <1>2, <1>3 DEF n

(* The beginning of a concatenation is cut from its first part.            *)
LEMMA SubSeqKept ==
  ASSUME NEW S, NEW p \in Seq(S), NEW q \in Seq(S),
         NEW m \in Nat \ {0}, NEW n \in Nat, n <= Len(p)
  PROVE  SubSeq(p \o q, m, n) = SubSeq(p, m, n)
<1> DEFINE c == p \o q
<1>1. Len(p) \in Nat /\ Len(q) \in Nat
  OBVIOUS
<1>2. /\ c \in Seq(S) /\ Len(c) = Len(p) + Len(q)
      /\ \A i \in 1 .. Len(p) + Len(q) : c[i] = IF i <= Len(p) THEN p[i] ELSE q[i - Len(p)]
  BY ConcatProperties
<1> HIDE DEF c
<1> DEFINE u == SubSeq(c, m, n)
           v == SubSeq(p, m, n)
<1>3. /\ v \in Seq(S) /\ Len(v) = IF m <= n THEN n - m + 1 ELSE 0
      /\ \A i \in 1 .. n - m + 1 : v[i] = p[m + i - 1]
  BY SubSeqOfSeq
<1>4. n <= Len(c)
  BY <1>1, <1>2
<1>5. /\ u \in Seq(S) /\ Len(u) = IF m <= n THEN n - m + 1 ELSE 0
      /\ \A i \in 1 .. n - m + 1 : u[i] = c[m + i - 1]
  BY <1>2, <1>4, SubSeqOfSeq
<1> HIDE DEF u, v
<1>6. ASSUME NEW i \in 1 .. Len(u) PROVE u[i] = v[i]
  <2>1. i \in 1 .. n - m + 1 /\ m + i - 1 \in 1 .. Len(p)
    BY <1>1, <1>5
  <2>2. u[i] = c[m + i - 1]
    BY <1>5, <2>1
  <2>3. v[i] = p[m + i - 1]
    BY <1>3, <2>1
  <2>4. c[m + i - 1] = p[m + i - 1]
    BY <1>1, <1>2, <2>1
  <2> QED
    BY <2>2, <2>3, <2>4
<1>7. u = v
  BY <1>3, <1>5, <1>6, SeqEqual
<1> QED
  BY <1>7 DEF u, v, c

(* A concatenation can be taken apart again.                               *)
LEMMA ConcatSplits ==
  ASSUME NEW S, NEW p \in Seq(S), NEW q \in Seq(S)
  PROVE  /\ SubSeq(p \o q, 1, Len(p)) = p
         /\ SubSeq(p \o q, Len(p) + 1, Len(p) + Len(q)) = q
<1> DEFINE c == p \o q
           u == SubSeq(c, Len(p) + 1, Len(p) + Len(q))
<1>1. Len(p) \in Nat /\ Len(q) \in Nat
  OBVIOUS
<1>2. SubSeq(c, 1, Len(p)) = p
  BY <1>1, SubSeqKept, SubSeqFull
<1>3. /\ c \in Seq(S) /\ Len(c) = Len(p) + Len(q)
      /\ \A i \in 1 .. Len(p) + Len(q) : c[i] = IF i <= Len(p) THEN p[i] ELSE q[i - Len(p)]
  BY ConcatProperties
<1> HIDE DEF c
<1>4. /\ u \in Seq(S) /\ Len(u) = Len(q)
      /\ \A i \in 1 .. Len(q) : u[i] = c[Len(p) + i]
  BY <1>1, <1>3, SubSeqOfSeq
<1> HIDE DEF u
<1>5. ASSUME NEW i \in 1 .. Len(u) PROVE u[i] = q[i]
  <2>1. i \in 1 .. Len(q) /\ Len(p) + i \in 1 .. Len(p) + Len(q) /\ ~(Len(p) + i <= Len(p))
    BY <1>1, <1>4
  <2>2. c[Len(p) + i] = q[i]
    BY <1>1, <1>3, <2>1
  <2> QED
    BY <1>4, <2>1, <2>2
<1>6. u = q
  BY <1>4, <1>5, SeqEqual
<1> QED
  BY <1>2, <1>6 DEF u, c

(* Cutting twice from the beginning.                                       *)
LEMMA SubSeqOfPrefix ==
  ASSUME NEW S, NEW s \in Seq(S), NEW k \in Nat, k <= Len(s),
         NEW m \in Nat \ {0}, NEW n \in Nat, n <= k
  PROVE  SubSeq(SubSeq(s, 1, k), m, n) = SubSeq(s, m, n)
<1> DEFINE p == SubSeq(s, 1, k)
           q == SubSeq(s, k + 1, Len(s))
<1>1. Len(s) \in Nat
  OBVIOUS
<1>2. p \in Seq(S) /\ Len(p) = k /\ q \in Seq(S)
  BY <1>1, SubSeqOfSeq
<1>3. p \o q = s
  BY CutAll
<1> HIDE DEF p, q
<1>4. SubSeq(p \o q, m, n) = SubSeq(p, m, n)
  BY <1>2, SubSeqKept
<1> QED
  BY <1>3, <1>4 DEF p

(* Sequences, one after the other.                                         *)
LEMMA FlattenType ==
  ASSUME NEW S, NEW seqs \in Seq(Seq(S))
  PROVE  FlattenSeq(seqs) \in Seq(S)
<1> DEFINE n == Len(seqs)
           Flat(k, f) == f = [i \in 1 .. k |-> IF i = 1 THEN seqs[i] ELSE f[i - 1] \o seqs[i]]
           c == CHOOSE f : Flat(n, f)
           Ok(k) == \E f : Flat(k, f)
           T == {k \in 0 .. n : Ok(k)}
           U == {k \in 0 .. n : k = 0 \/ c[k] \in Seq(S)}
<1>1. n \in Nat /\ \A i \in 1 .. n : seqs[i] \in Seq(S)
  OBVIOUS
<1>2. CASE n = 0
  BY <1>1, <1>2 DEF FlattenSeq
<1>3. CASE n # 0
  <2>1. FlattenSeq(seqs) = c[n]
    BY <1>3 DEF FlattenSeq
  <2>2. 0 \in T
    <3>1. Flat(0, [i \in 1 .. 0 |-> 0])
      OBVIOUS
    <3> HIDE DEF Flat
    <3> QED
      BY <1>1, <3>1
  <2>3. ASSUME NEW k \in 1 .. n, k - 1 \in T PROVE k \in T
    <3>1. PICK f : Flat(k - 1, f)
      BY <2>3
    <3> DEFINE h == [i \in 1 .. k |-> IF i = k THEN IF i = 1 THEN seqs[i] ELSE f[i - 1] \o seqs[i] ELSE f[i]]
    <3>2. ASSUME NEW i \in 1 .. k PROVE h[i] = IF i = 1 THEN seqs[i] ELSE h[i - 1] \o seqs[i]
      <4>1. i = 1 \/ (i - 1 \in 1 .. k /\ i - 1 # k)
        OBVIOUS
      <4>2. i = 1 \/ h[i - 1] = f[i - 1]
        BY <4>1
      <4>3. CASE i = k
        BY <4>2, <4>3
      <4>4. CASE i # k
        <5>1. i \in 1 .. k - 1
          BY <1>1, <4>4
        <5>2. f[i] = IF i = 1 THEN seqs[i] ELSE f[i - 1] \o seqs[i]
          BY <3>1, <5>1
        <5> QED
          BY <4>2, <4>4, <5>2
      <4> QED
        BY <4>3, <4>4
    <3>3. h = [i \in 1 .. k |-> h[i]]
      OBVIOUS
    <3> HIDE DEF h
    <3>4. Flat(k, h)
      BY <3>2, <3>3
    <3> HIDE DEF Flat
    <3> QED
      BY <1>1, <3>4
  <2> HIDE DEF T
  <2>4. \A k \in 0 .. n : k \in T
    BY ONLY <1>1, <2>2, <2>3, UpTo
  <2>5. Flat(n, c)
    <3> HIDE DEF Flat, Ok
    <3>1. Ok(n)
      BY <1>1, <2>4 DEF T
    <3> QED
      BY <3>1 DEF Ok
  <2> HIDE DEF c
  <2>6. 0 \in U
    BY <1>1
  <2>7. ASSUME NEW k \in 1 .. n, k - 1 \in U PROVE k \in U
    <3>1. c[k] = IF k = 1 THEN seqs[k] ELSE c[k - 1] \o seqs[k]
      BY <2>5
    <3>2. seqs[k] \in Seq(S)
      BY <1>1
    <3>3. k # 1 => c[k - 1] \in Seq(S)
      BY <2>7
    <3>4. k # 1 => c[k - 1] \o seqs[k] \in Seq(S)
      BY <3>2, <3>3, ConcatType
    <3>5. c[k] \in Seq(S) /\ k \in 0 .. n
      BY <1>1, <3>1, <3>2, <3>4
    <3> QED
      BY <3>5
  <2> HIDE DEF U
  <2>8. \A k \in 0 .. n : k \in U
    BY ONLY <1>1, <2>6, <2>7, UpTo
  <2> QED
    BY <1>1, <1>3, <2>1, <2>8 DEF U
<1> QED
  BY <1>2, <1>3

(* What a deletion leaves is a text, shorter by the bytes deleted.         *)
LEMMA DeleteType ==
  ASSUME NEW S, NEW t \in Seq(S), NEW o \in Nat, NEW n \in Nat, o + n <= Len(t)
  PROVE  Delete(t, o, n) \in Seq(S) /\ Len(Delete(t, o, n)) = Len(t) - n
<1> DEFINE p == SubSeq(t, 1, o)
           q == SubSeq(t, o + n + 1, Len(t))
<1>1. Len(t) \in Nat
  OBVIOUS
<1>2. p \in Seq(S) /\ Len(p) = o
  BY <1>1, SubSeqOfSeq
<1>3. q \in Seq(S) /\ Len(q) = Len(t) - n - o
  BY <1>1, SubSeqOfSeq
<1>4. Delete(t, o, n) = p \o q
  BY DEF Delete
<1> HIDE DEF p, q
<1>5. p \o q \in Seq(S) /\ Len(p \o q) = Len(p) + Len(q)
  BY <1>2, <1>3, ConcatType
<1> QED
  BY <1>1, <1>2, <1>3, <1>4, <1>5

(* A slice that stays inside the text has the length asked for.            *)
LEMMA SliceType ==
  ASSUME NEW S, NEW t \in Seq(S), NEW o \in Nat, NEW n \in Nat, o + n <= Len(t)
  PROVE  /\ Slice(t, o, n) = SubSeq(t, o + 1, o + n)
         /\ Slice(t, o, n) \in Seq(S)
         /\ Len(Slice(t, o, n)) = n
<1>1. Len(t) \in Nat
  OBVIOUS
<1>2. Slice(t, o, n) = SubSeq(t, o + 1, o + n)
  BY <1>1 DEF Slice, Smaller
<1>3. SubSeq(t, o + 1, o + n) \in Seq(S) /\ Len(SubSeq(t, o + 1, o + n)) = n
  BY <1>1, SubSeqOfSeq
<1> QED
  BY <1>2, <1>3

(* What an insertion leaves is a text, longer by the bytes inserted.       *)
LEMMA InsertType ==
  ASSUME NEW S, NEW t \in Seq(S), NEW o \in Nat, NEW s \in Seq(S), o <= Len(t)
  PROVE  /\ Insert(t, o, s) = (SubSeq(t, 1, o) \o s) \o SubSeq(t, o + 1, Len(t))
         /\ Insert(t, o, s) \in Seq(S)
         /\ Len(Insert(t, o, s)) = Len(t) + Len(s)
<1> DEFINE p == SubSeq(t, 1, o)
           q == SubSeq(t, o + 1, Len(t))
<1>1. Len(t) \in Nat /\ Len(s) \in Nat
  OBVIOUS
<1>2. ~(o > Len(t))
  BY <1>1
<1>3. Insert(t, o, s) = (p \o s) \o q
  BY <1>2, Zenon DEF Insert
<1>4. p \in Seq(S) /\ Len(p) = o
  BY <1>1, SubSeqOfSeq
<1>5. q \in Seq(S) /\ Len(q) = Len(t) - o
  BY <1>1, SubSeqOfSeq
<1> HIDE DEF p, q
<1>6. p \o s \in Seq(S) /\ Len(p \o s) = Len(p) + Len(s)
  BY <1>4, ConcatType
<1>7. (p \o s) \o q \in Seq(S) /\ Len((p \o s) \o q) = Len(p \o s) + Len(q)
  BY <1>5, <1>6, ConcatType
<1>8. Insert(t, o, s) \in Seq(S) /\ Len(Insert(t, o, s)) = Len(t) + Len(s)
  BY <1>1, <1>3, <1>4, <1>5, <1>6, <1>7
<1> QED
  BY <1>3, <1>8 DEF p, q

(* A deletion that runs into the end is one of the bytes there are.        *)
LEMMA DeleteStops ==
  ASSUME NEW S, NEW t \in Seq(S), NEW o \in Nat, NEW n \in Nat \ {0}, o < Len(t)
  PROVE  \E m \in Nat \ {0} :
           /\ o + m <= Len(t)
           /\ Delete(t, o, n) = Delete(t, o, m)
           /\ Slice(t, o, n) = Slice(t, o, m)
<1>1. Len(t) \in Nat
  OBVIOUS
<1>2. CASE o + n <= Len(t)
  BY <1>2
<1>3. CASE ~(o + n <= Len(t))
  <2> DEFINE m == Len(t) - o
  <2>1. m \in Nat \ {0} /\ o + m = Len(t)
    BY <1>1
  <2>2. Slice(t, o, n) = Slice(t, o, m)
    BY <1>1, <1>3 DEF Slice, Smaller
  <2>3. SubSeq(t, o + n + 1, Len(t)) = << >> /\ SubSeq(t, o + m + 1, Len(t)) = << >>
    BY <1>1, <1>3, SubSeqEmpty
  <2>4. Delete(t, o, n) = Delete(t, o, m)
    BY <2>3 DEF Delete
  <2> HIDE DEF m
  <2> QED
    BY <2>1, <2>2, <2>4
<1> QED
  BY <1>2, <1>3

(* Undoing a deletion, or redoing an insertion: the bytes of a slice put   *)
(* back where they were give the text back.                                *)
THEOREM InsertUndoesDelete ==
  ASSUME NEW S, NEW t \in Seq(S), NEW o \in Nat, NEW n \in Nat, o + n <= Len(t)
  PROVE  Insert(Delete(t, o, n), o, Slice(t, o, n)) = t
<1> DEFINE p == SubSeq(t, 1, o)
           s == SubSeq(t, o + 1, o + n)
           q == SubSeq(t, o + n + 1, Len(t))
<1>1. Len(t) \in Nat
  OBVIOUS
<1>2. p \in Seq(S) /\ Len(p) = o
  BY <1>1, SubSeqOfSeq
<1>3. s \in Seq(S) /\ q \in Seq(S) /\ Len(q) = Len(t) - n - o
  BY <1>1, SubSeqOfSeq
<1>4. (p \o s) \o q = t
  <2>1. p \o s = SubSeq(t, 1, o + n)
    BY <1>1, CutInTwo
  <2>2. SubSeq(t, 1, o + n) \o q = t
    <3> DEFINE k == o + n
    <3>1. k \in Nat /\ k <= Len(t)
      OBVIOUS
    <3>2. q = SubSeq(t, k + 1, Len(t))
      OBVIOUS
    <3> HIDE DEF k, q
    <3>3. SubSeq(t, 1, k) \o SubSeq(t, k + 1, Len(t)) = t
      BY <3>1, CutAll
    <3> QED
      BY <3>2, <3>3 DEF k
  <2> QED
    BY <2>1, <2>2
<1>5. Delete(t, o, n) = p \o q /\ Slice(t, o, n) = s
  BY SliceType DEF Delete
<1> HIDE DEF p, q, s
<1>6. SubSeq(p \o q, 1, o) = p /\ SubSeq(p \o q, o + 1, Len(p) + Len(q)) = q
  BY <1>2, <1>3, ConcatSplits
<1> DEFINE d == p \o q
<1>7. d \in Seq(S) /\ Len(d) = Len(p) + Len(q)
  BY <1>2, <1>3, ConcatType
<1> HIDE DEF d
<1>8. o <= Len(d)
  BY <1>1, <1>2, <1>3, <1>7
<1>9. Insert(d, o, s) = (SubSeq(d, 1, o) \o s) \o SubSeq(d, o + 1, Len(d))
  <2>1. ~(o > Len(d))
    BY <1>1, <1>2, <1>3, <1>7, <1>8
  <2> QED
    BY <2>1, Zenon DEF Insert
<1> QED
  BY <1>4, <1>5, <1>6, <1>7, <1>9 DEF d

(* Undoing an insertion: deleting as many bytes as were inserted, where    *)
(* they were, gives the text back.                                         *)
THEOREM DeleteUndoesInsert ==
  ASSUME NEW S, NEW t \in Seq(S), NEW o \in Nat, NEW s \in Seq(S), o <= Len(t)
  PROVE  Delete(Insert(t, o, s), o, Len(s)) = t
<1> DEFINE p == SubSeq(t, 1, o)
           q == SubSeq(t, o + 1, Len(t))
<1>1. Len(t) \in Nat /\ Len(s) \in Nat
  OBVIOUS
<1>2. p \in Seq(S) /\ Len(p) = o
  BY <1>1, SubSeqOfSeq
<1>3. q \in Seq(S) /\ Len(q) = Len(t) - o
  BY <1>1, SubSeqOfSeq
<1>4. p \o q = t
  BY CutAll
<1>5. Insert(t, o, s) = (p \o s) \o q
  BY InsertType
<1> HIDE DEF p, q
<1> DEFINE ps == p \o s
           r == ps \o q
<1>6. ps \in Seq(S) /\ Len(ps) = o + Len(s) /\ SubSeq(ps, 1, o) = p
  <2>1. p \o s \in Seq(S) /\ Len(p \o s) = Len(p) + Len(s)
    BY <1>2, ConcatType
  <2>2. SubSeq(p \o s, 1, Len(p)) = p
    BY <1>2, ConcatSplits
  <2> QED
    BY <1>2, <2>1, <2>2
<1> HIDE DEF ps
<1>7. r \in Seq(S) /\ Len(r) = Len(ps) + Len(q)
  BY <1>3, <1>6, ConcatType
<1>8. SubSeq(r, o + Len(s) + 1, Len(r)) = q
  BY <1>3, <1>6, <1>7, ConcatSplits
<1>9. SubSeq(r, 1, o) = p
  <2>1. o <= Len(ps)
    BY <1>1, <1>6
  <2>2. SubSeq(r, 1, o) = SubSeq(ps, 1, o)
    BY <1>3, <1>6, <2>1, SubSeqKept
  <2> QED
    BY <1>6, <2>2
<1>10. Delete(r, o, Len(s)) = SubSeq(r, 1, o) \o SubSeq(r, o + Len(s) + 1, Len(r))
  BY DEF Delete
<1>11. Insert(t, o, s) = r
  BY <1>5 DEF ps
<1> HIDE DEF r
<1> QED
  BY <1>4, <1>8, <1>9, <1>10, <1>11
=============================================================================
