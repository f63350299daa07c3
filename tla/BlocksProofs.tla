---------------------------- MODULE BlocksProofs ----------------------------
(***************************************************************************)
(* Proofs about Blocks, for texts, clips and filters of any length: the    *)
(* cursor, the mark and the bookmarks stay in the document, no text is in  *)
(* an encoding that does not hold it, and each command is one step to      *)
(* undo.                                                                   *)
(***************************************************************************)
EXTENDS Blocks, FlatTextProofs

(* The lines of a document whose characters are in C.                      *)
LinesOf(C) == Seq(Seq(C)) \ {<<>>}

(* One character more of a stream.                                         *)
LEMMA WrittenLines ==
  ASSUME NEW C, NEW ls \in LinesOf(C), NEW c \in C \cup {NL}
  PROVE  /\ Written(ls, c) \in LinesOf(C)
         /\ c = NL => /\ Len(Written(ls, c)) = Len(ls) + 1
                      /\ Written(ls, c)[Len(ls) + 1] = <<>>
                      /\ \A i \in 1 .. Len(ls) : Written(ls, c)[i] = ls[i]
         /\ c # NL => /\ Len(Written(ls, c)) = Len(ls)
                      /\ Written(ls, c)[Len(ls)] = Append(ls[Len(ls)], c)
                      /\ \A i \in 1 .. Len(ls) - 1 : Written(ls, c)[i] = ls[i]
<1>1. ls \in Seq(Seq(C)) /\ Len(ls) \in Nat \ {0} /\ ls # <<>>
  BY DEF LinesOf
<1>2. CASE c = NL
  <2>1. Written(ls, c) = Append(ls, <<>>) /\ <<>> \in Seq(C)
    BY <1>2 DEF Written
  <2>2. /\ Append(ls, <<>>) \in Seq(Seq(C)) /\ Len(Append(ls, <<>>)) = Len(ls) + 1
        /\ Append(ls, <<>>)[Len(ls) + 1] = <<>>
        /\ \A i \in 1 .. Len(ls) : Append(ls, <<>>)[i] = ls[i]
    BY <1>1, <2>1, AppendProperties
  <2>3. Append(ls, <<>>) # <<>>
    BY <1>1, <2>2
  <2> QED
    BY <1>2, <2>1, <2>2, <2>3 DEF LinesOf
<1>3. CASE c # NL
  <2>1. Written(ls, c) = [ls EXCEPT ![Len(ls)] = Append(ls[Len(ls)], c)] /\ c \in C
    BY <1>3 DEF Written
  <2>2. Append(ls[Len(ls)], c) \in Seq(C)
    BY <1>1, <2>1
  <2> DEFINE w == [ls EXCEPT ![Len(ls)] = Append(ls[Len(ls)], c)]
  <2>3. w \in Seq(Seq(C)) /\ Len(w) = Len(ls)
    BY <1>1, <2>2, ExceptSeq
  <2>4. w[Len(ls)] = Append(ls[Len(ls)], c) /\ \A i \in 1 .. Len(ls) - 1 : w[i] = ls[i]
    BY <1>1
  <2>5. w # <<>>
    BY <1>1, <2>3
  <2> QED
    BY <1>3, <2>1, <2>3, <2>4, <2>5 DEF LinesOf
<1> QED
  BY <1>2, <1>3

(* Split() character by character.                                         *)
LEMMA SplitTrace ==
  ASSUME NEW C, NEW s \in Seq(C \cup {NL})
  PROVE  \E g \in [0 .. Len(s) -> LinesOf(C)] :
           g[0] = <<<<>>>> /\ (\A k \in 1 .. Len(s) : g[k] = Written(g[k - 1], s[k])) /\ Split(s) = g[Len(s)]
<1> DEFINE n == Len(s)
           S == LinesOf(C)
           b == <<<<>>>>
           G == [p \in S \X (1 .. n) |-> Written(p[1], s[p[2]])]
           IsFold(f) == f = [t \in SUBSET DOMAIN s |->
                               IF t = {} THEN b ELSE LET k == Max(t) IN Written(f[t \ {k}], s[k])]
           c == CHOOSE f : IsFold(f)
<1>1. n \in Nat /\ DOMAIN s = 1 .. n /\ \A k \in 1 .. n : s[k] \in C \cup {NL}
  OBVIOUS
<1>2. b \in S
  BY DEF LinesOf
<1>3. \A x \in S, k \in 1 .. n : Written(x, s[k]) \in S
  BY <1>1, WrittenLines
<1>4. Split(s) = c[DOMAIN s]
  BY ONLY DEF Split, FoldLeft, MapThenFoldSet, c, IsFold, b
<1> HIDE DEF S, n, b
<1>5. G \in [S \X (1 .. n) -> S] /\ \A x \in S, k \in 1 .. n : G[<<x, k>>] = Written(x, s[k])
  BY <1>3
<1> HIDE DEF G
<1>6. \A t \in SUBSET (1 .. n) : t # {} => Max(t) \in 1 .. n
  <2> SUFFICES ASSUME NEW t \in SUBSET (1 .. n), t # {} PROVE Max(t) \in 1 .. n
    OBVIOUS
  <2>1. t \subseteq Int /\ n \in Int /\ \A y \in t : y <= n
    BY <1>1
  <2> QED
    BY <2>1, MaxIs
<1>7. IsFold(c)
  <2>0. n \in Nat /\ G \in [S \X (1 .. n) -> S]
    BY <1>1, <1>5
  <2>a. PICK f \in [SUBSET (1 .. n) -> S] : FoldsBy(f, b, n, G)
    BY ONLY <1>2, <2>0, FoldExists
  <2>1. \A t \in SUBSET (1 .. n) : f[t] = IF t = {} THEN b ELSE G[<<f[t \ {Max(t)}], Max(t)>>]
    BY ONLY <2>a DEF FoldsBy
  <2>2. \A t \in SUBSET (1 .. n) : t # {} => G[<<f[t \ {Max(t)}], Max(t)>>] = Written(f[t \ {Max(t)}], s[Max(t)])
    BY <1>5, <1>6
  <2>3. f = [t \in SUBSET (1 .. n) |-> f[t]]
    OBVIOUS
  <2>4. f = [t \in SUBSET (1 .. n) |-> IF t = {} THEN b ELSE Written(f[t \ {Max(t)}], s[Max(t)])]
    BY <2>1, <2>2, <2>3
  <2>5. IsFold(f)
    BY <1>1, <2>4
  <2> HIDE DEF IsFold
  <2> QED
    BY ONLY <2>5 DEF c
<1> HIDE DEF c
<1>8. FoldsIn(S, c, b, n, G)
  <2>1. \A t \in SUBSET (1 .. n) : c[t] = IF t = {} THEN b ELSE Written(c[t \ {Max(t)}], s[Max(t)])
    BY <1>1, <1>7
  <2> HIDE DEF IsFold
  <2>2. {} \in SUBSET (1 .. n)
    OBVIOUS
  <2> QED
    BY <1>5, <1>6, <2>1, <2>2 DEF FoldsIn
<1>9. RunsTo(S, c[1 .. n], b, n, G)
  <2>1. n \in Nat /\ G \in [S \X (1 .. n) -> S]
    BY <1>1, <1>5
  <2> HIDE DEF IsFold
  <2> QED
    BY ONLY <1>2, <1>8, <2>1, FoldTrace
<1>10. PICK g \in [0 .. n -> S] : RunsBy(g, b, n, G) /\ c[1 .. n] = g[n]
  BY <1>9 DEF RunsTo
<1>11. g[0] = b /\ \A k \in 1 .. n : g[k] = Written(g[k - 1], s[k])
  <2>1. \A k \in 1 .. n : k - 1 \in 0 .. n
    BY <1>1
  <2> QED
    BY <1>5, <1>10, <2>1 DEF RunsBy
<1> QED
  BY <1>1, <1>4, <1>10, <1>11 DEF n, S, b

(* A stream is split into lines.                                           *)
LEMMA SplitType ==
  ASSUME NEW C, NEW s \in Seq(C \cup {NL})
  PROVE  Split(s) \in LinesOf(C)
<1>1. PICK g \in [0 .. Len(s) -> LinesOf(C)] : Split(s) = g[Len(s)]
  BY SplitTrace
<1> QED
  BY <1>1

(* A stream without line ends is one line.                                 *)
LEMMA SplitPlain ==
  ASSUME NEW C, NL \notin C, NEW s \in Seq(C)
  PROVE  Split(s) = <<s>>
<1> DEFINE n == Len(s)
<1>1. n \in Nat /\ s \in Seq(C \cup {NL}) /\ \A k \in 1 .. n : s[k] \in C /\ s[k] # NL
  <2>1. \A k \in 1 .. n : s[k] \in C
    OBVIOUS
  <2> QED
    BY <2>1
<1>2. PICK g \in [0 .. n -> LinesOf(C)] :
        g[0] = <<<<>>>> /\ (\A k \in 1 .. n : g[k] = Written(g[k - 1], s[k])) /\ Split(s) = g[n]
  BY <1>1, SplitTrace
<1> DEFINE T == {k \in 0 .. n : g[k] = <<SubSeq(s, 1, k)>>}
<1>3. 0 \in T
  <2>1. SubSeq(s, 1, 0) = <<>>
    BY SubSeqEmpty
  <2>2. 0 \in 0 .. n /\ g[0] = <<SubSeq(s, 1, 0)>>
    BY <1>1, <1>2, <2>1
  <2> QED
    BY <2>2
<1>4. ASSUME NEW k \in 1 .. n, k - 1 \in T PROVE k \in T
  <2> DEFINE p == SubSeq(s, 1, k - 1)
  <2>1. k - 1 \in Nat /\ k - 1 <= n /\ k \in Nat /\ k <= n /\ g[k - 1] = <<p>>
    BY <1>1, <1>4
  <2>2. p \in Seq(C)
    BY <2>1, SubSeqOfSeq
  <2>3. SubSeq(s, 1, k) = Append(p, s[k])
    <3>1. SubSeq(s, 1, k - 1) \in Seq(C) /\ Len(SubSeq(s, 1, k - 1)) = k - 1
          /\ \A i \in 1 .. k - 1 : SubSeq(s, 1, k - 1)[i] = s[i]
      BY <2>1, SubSeqOfSeq
    <3>2. SubSeq(s, 1, k) \in Seq(C) /\ Len(SubSeq(s, 1, k)) = k
          /\ \A i \in 1 .. k : SubSeq(s, 1, k)[i] = s[i]
      BY <2>1, SubSeqOfSeq
    <3> DEFINE q == Append(p, s[k])
    <3>3. q \in Seq(C) /\ Len(q) = k /\ q[k] = s[k] /\ \A i \in 1 .. k - 1 : q[i] = p[i]
      <4>1. s[k] \in C
        BY <1>1
      <4> HIDE DEF p
      <4> QED
        BY <2>1, <2>2, <3>1, <4>1, AppendProperties DEF p
    <3>4. \A i \in 1 .. k : q[i] = SubSeq(s, 1, k)[i]
      BY <2>1, <3>1, <3>2, <3>3
    <3> HIDE DEF q
    <3> QED
      BY <3>2, <3>3, <3>4, SeqEqual DEF q
  <2>4. Written(<<p>>, s[k]) = <<Append(p, s[k])>>
    <3>1. s[k] # NL
      BY <1>1
    <3> HIDE DEF p
    <3> QED
      BY <2>2, <3>1 DEF Written
  <2>5. g[k] = <<SubSeq(s, 1, k)>>
    BY <1>2, <2>1, <2>3, <2>4
  <2>6. k \in 0 .. n
    BY <1>1
  <2> QED
    BY <2>5, <2>6
<1> HIDE DEF T
<1>5. \A k \in 0 .. n : k \in T
  BY ONLY <1>1, <1>3, <1>4, UpTo
<1>6. n \in T
  BY <1>1, <1>5
<1>7. SubSeq(s, 1, n) = s
  BY SubSeqFull
<1> QED
  BY <1>2, <1>6, <1>7 DEF T

(* The first line of a stream has what is before the first line end.       *)
LEMMA SplitBegins ==
  ASSUME NEW C, NEW s \in Seq(C \cup {NL}), NEW q \in 0 .. Len(s), \A i \in 1 .. q : s[i] # NL
  PROVE  Len(Split(s)[1]) >= q
<1> DEFINE n == Len(s)
           m(k) == IF k <= q THEN k ELSE q
<1>1. n \in Nat /\ \A k \in 1 .. n : s[k] \in C \cup {NL}
  OBVIOUS
<1>2. PICK g \in [0 .. n -> LinesOf(C)] :
        g[0] = <<<<>>>> /\ (\A k \in 1 .. n : g[k] = Written(g[k - 1], s[k])) /\ Split(s) = g[n]
  BY SplitTrace
<1> DEFINE T == {k \in 0 .. n : Len(g[k][1]) >= m(k) /\ (k <= q => Len(g[k]) = 1)}
<1>3. 0 \in T
  <2>1. Len(g[0][1]) = 0 /\ Len(g[0]) = 1
    BY <1>2
  <2> QED
    BY <1>1, <2>1
<1>4. ASSUME NEW k \in 1 .. n, k - 1 \in T PROVE k \in T
  <2> DEFINE h == g[k - 1]
  <2>1. k - 1 \in 0 .. n /\ k \in 0 .. n /\ Len(h[1]) >= m(k - 1) /\ (k - 1 <= q => Len(h) = 1)
    BY <1>1, <1>4
  <2>2. h \in LinesOf(C) /\ g[k] = Written(h, s[k]) /\ s[k] \in C \cup {NL}
    BY <1>1, <1>2, <2>1
  <2> HIDE DEF h
  <2>3. h \in Seq(Seq(C)) /\ Len(h) \in Nat \ {0}
    BY <2>2 DEF LinesOf
  <2>4. h[1] \in Seq(C) /\ Len(h[1]) \in Nat /\ 1 \in 1 .. Len(h)
    BY <2>3
  <2>5. CASE s[k] = NL
    <3>1. g[k][1] = h[1]
      BY <2>2, <2>4, <2>5, WrittenLines
    <3>2. ~(k <= q)
      BY <2>5
    <3> QED
      BY <2>1, <2>4, <3>1, <3>2
  <2>6. CASE s[k] # NL /\ Len(h) = 1
    <3>1. Len(g[k]) = 1 /\ g[k][1] = Append(h[1], s[k])
      BY <2>2, <2>6, WrittenLines
    <3>2. Len(Append(h[1], s[k])) = Len(h[1]) + 1
      BY <2>2, <2>4, <2>6
    <3> QED
      BY <2>1, <2>4, <3>1, <3>2
  <2>7. CASE s[k] # NL /\ Len(h) # 1
    <3>1. g[k][1] = h[1]
      <4>0. Len(h) \in Nat /\ Len(h) # 0 /\ Len(h) # 1
        BY <2>3, <2>7
      <4>1. 1 \in 1 .. Len(h) - 1
        BY ONLY <4>0
      <4> QED
        BY <2>2, <2>7, <4>1, WrittenLines
    <3>2. ~(k - 1 <= q)
      BY <2>1, <2>7
    <3> QED
      BY <2>1, <2>4, <3>1, <3>2
  <2> QED
    BY <2>5, <2>6, <2>7
<1> HIDE DEF T
<1>5. \A k \in 0 .. n : k \in T
  BY ONLY <1>1, <1>3, <1>4, UpTo
<1>6. n \in T
  BY <1>1, <1>5
<1>7. Len(g[n][1]) >= q
  BY <1>6 DEF T
<1> QED
  BY <1>2, <1>7

(* A line end makes one line more.                                         *)
LEMMA SplitTwo ==
  ASSUME NEW C, NEW s \in Seq(C \cup {NL}), NEW i \in 1 .. Len(s), s[i] = NL
  PROVE  Len(Split(s)) >= 2
<1> DEFINE n == Len(s)
<1>1. n \in Nat /\ \A k \in 1 .. n : s[k] \in C \cup {NL}
  OBVIOUS
<1>2. PICK g \in [0 .. n -> LinesOf(C)] :
        g[0] = <<<<>>>> /\ (\A k \in 1 .. n : g[k] = Written(g[k - 1], s[k])) /\ Split(s) = g[n]
  BY SplitTrace
<1> DEFINE T == {k \in 0 .. n : i <= k => Len(g[k]) >= 2}
<1>3. 0 \in T
  BY <1>1
<1>4. ASSUME NEW k \in 1 .. n, k - 1 \in T PROVE k \in T
  <2> DEFINE h == g[k - 1]
  <2>1. k - 1 \in 0 .. n /\ k \in 0 .. n /\ (i <= k - 1 => Len(h) >= 2)
    BY <1>1, <1>4
  <2>2. h \in LinesOf(C) /\ g[k] = Written(h, s[k]) /\ s[k] \in C \cup {NL}
    BY <1>1, <1>2, <2>1
  <2> HIDE DEF h
  <2>3. Len(h) \in Nat \ {0}
    BY <2>2 DEF LinesOf
  <2>4. (s[k] = NL => Len(g[k]) = Len(h) + 1) /\ (s[k] # NL => Len(g[k]) = Len(h))
    BY <2>2, WrittenLines
  <2>5. i <= k => i <= k - 1 \/ i = k
    BY <1>1
  <2> QED
    BY <2>1, <2>3, <2>4, <2>5
<1> HIDE DEF T
<1>5. \A k \in 0 .. n : k \in T
  BY ONLY <1>1, <1>3, <1>4, UpTo
<1>6. n \in T
  BY <1>1, <1>5
<1>7. Len(g[n]) >= 2
  BY <1>1, <1>6 DEF T
<1> QED
  BY <1>2, <1>7

(* A stream has at least the lines of a part of it.                        *)
LEMMA SplitLonger ==
  ASSUME NEW C, NEW t \in Seq(C \cup {NL}), NEW s \in Seq(C \cup {NL}), NEW p \in Nat,
         p + Len(s) <= Len(t), \A i \in 1 .. Len(s) : t[p + i] = s[i]
  PROVE  Len(Split(t)) >= Len(Split(s))
<1> DEFINE n == Len(t)
           m == Len(s)
<1>1. /\ n \in Nat /\ m \in Nat /\ p + m <= n
      /\ \A k \in 1 .. n : t[k] \in C \cup {NL}
      /\ \A k \in 1 .. m : s[k] \in C \cup {NL}
  OBVIOUS
<1>2. PICK g \in [0 .. n -> LinesOf(C)] :
        g[0] = <<<<>>>> /\ (\A k \in 1 .. n : g[k] = Written(g[k - 1], t[k])) /\ Split(t) = g[n]
  BY SplitTrace
<1>3. PICK h \in [0 .. m -> LinesOf(C)] :
        h[0] = <<<<>>>> /\ (\A k \in 1 .. m : h[k] = Written(h[k - 1], s[k])) /\ Split(s) = h[m]
  BY SplitTrace
<1>4. ASSUME NEW k \in 1 .. n
      PROVE  /\ Len(g[k]) \in Nat /\ Len(g[k - 1]) \in Nat \ {0}
             /\ Len(g[k]) = IF t[k] = NL THEN Len(g[k - 1]) + 1 ELSE Len(g[k - 1])
  <2>0. k - 1 \in 0 .. n
    BY <1>1
  <2>1. g[k - 1] \in LinesOf(C) /\ g[k] = Written(g[k - 1], t[k]) /\ t[k] \in C \cup {NL}
    BY <1>1, <1>2, <2>0
  <2>2. Len(g[k - 1]) \in Nat \ {0}
    BY <2>1 DEF LinesOf
  <2> QED
    BY <2>1, <2>2, WrittenLines
<1>5. ASSUME NEW k \in 1 .. m
      PROVE  /\ Len(h[k - 1]) \in Nat \ {0}
             /\ Len(h[k]) = IF s[k] = NL THEN Len(h[k - 1]) + 1 ELSE Len(h[k - 1])
  <2>0. k - 1 \in 0 .. m
    BY <1>1
  <2>1. h[k - 1] \in LinesOf(C) /\ h[k] = Written(h[k - 1], s[k]) /\ s[k] \in C \cup {NL}
    BY <1>1, <1>3, <2>0
  <2>2. Len(h[k - 1]) \in Nat \ {0}
    BY <2>1 DEF LinesOf
  <2> QED
    BY <2>1, <2>2, WrittenLines
<1> DEFINE T == {k \in 0 .. m : Len(g[p + k]) >= Len(h[k])}
           U == {k \in 0 .. n : k >= p + m => Len(g[k]) >= Len(h[m])}
<1>6. \A k \in 0 .. m : k \in T
  <2>1. 0 \in T
    <3>0. p \in 0 .. n /\ p + 0 = p
      BY <1>1
    <3>1. p \in 0 .. n /\ g[p] \in LinesOf(C) /\ Len(h[0]) = 1 /\ p + 0 = p
      BY <1>3, <3>0
    <3>2. Len(g[p]) \in Nat \ {0}
      BY <3>1 DEF LinesOf
    <3>3. 0 \in 0 .. m /\ Len(g[p + 0]) >= Len(h[0])
      BY <1>1, <3>1, <3>2
    <3> QED
      BY <3>3
  <2>2. ASSUME NEW k \in 1 .. m, k - 1 \in T PROVE k \in T
    <3>1. p + k \in 1 .. n /\ (p + k) - 1 = p + (k - 1) /\ t[p + k] = s[k] /\ k \in 0 .. m
      BY <1>1
    <3>2. Len(g[p + (k - 1)]) >= Len(h[k - 1])
      BY <2>2
    <3>3. Len(g[p + k]) = IF s[k] = NL THEN Len(g[p + (k - 1)]) + 1 ELSE Len(g[p + (k - 1)])
      BY <1>4, <3>1
    <3>4. Len(g[p + (k - 1)]) \in Nat
      BY <1>4, <3>1
    <3>5. Len(h[k - 1]) \in Nat /\ Len(h[k]) = IF s[k] = NL THEN Len(h[k - 1]) + 1 ELSE Len(h[k - 1])
      BY <1>5
    <3>6. Len(g[p + k]) >= Len(h[k])
      BY ONLY <3>2, <3>3, <3>4, <3>5
    <3> QED
      BY <3>1, <3>6
  <2> HIDE DEF T
  <2> QED
    BY ONLY <1>1, <2>1, <2>2, UpTo
<1>7. Len(g[p + m]) >= Len(h[m])
  BY <1>1, <1>6
<1> HIDE DEF T
<1>8. \A k \in 0 .. n : k \in U
  <2>1. 0 \in U
    <3>1. 0 >= p + m => p + m = 0
      BY <1>1
    <3> QED
      BY <1>1, <1>7, <3>1
  <2>2. ASSUME NEW k \in 1 .. n, k - 1 \in U PROVE k \in U
    <3>1. CASE k = p + m
      BY <1>1, <1>7, <3>1
    <3>2. CASE k # p + m
      <4>1. k >= p + m => k - 1 >= p + m
        BY <1>1, <3>2
      <4>2. k - 1 >= p + m => Len(g[k - 1]) >= Len(h[m])
        BY <2>2
      <4>3. Len(h[m]) \in Nat
        <5>1. h[m] \in Seq(Seq(C))
          BY <1>1 DEF LinesOf
        <5> QED
          BY <5>1
      <4>4. Len(g[k - 1]) \in Nat /\ Len(g[k]) = IF t[k] = NL THEN Len(g[k - 1]) + 1 ELSE Len(g[k - 1])
        BY <1>4
      <4>5. k >= p + m => Len(g[k]) >= Len(h[m])
        BY ONLY <4>1, <4>2, <4>3, <4>4
      <4> QED
        BY <1>1, <4>5
    <3> QED
      BY <3>1, <3>2
  <2> HIDE DEF U
  <2> QED
    BY ONLY <1>1, <2>1, <2>2, UpTo
<1>9. n >= p + m => Len(g[n]) >= Len(h[m])
  BY <1>1, <1>8
<1> QED
  BY <1>1, <1>2, <1>3, <1>9

(* Lines w are ls with line l replaced by the lines of b.                  *)
SplicedTo(C, ls, b, l, w) ==
  /\ w \in LinesOf(C) /\ Len(w) = Len(ls) + Len(b) - 1
  /\ \A i \in 1 .. l - 1 : w[i] = ls[i]
  /\ w[l] = b[1]
  /\ \A i \in l + 1 .. Len(ls) : w[i + Len(b) - 1] = ls[i]

(* What the parts of such lines are.                                       *)
LEMMA Spliced ==
  ASSUME NEW C, NEW ls \in LinesOf(C), NEW b \in LinesOf(C), NEW l \in 1 .. Len(ls), NEW w,
         w = SubSeq(ls, 1, l - 1) \o b \o SubSeq(ls, l + 1, Len(ls))
  PROVE  SplicedTo(C, ls, b, l, w)
<1> DEFINE p == SubSeq(ls, 1, l - 1)
           q == SubSeq(ls, l + 1, Len(ls))
<1>1. ls \in Seq(Seq(C)) /\ Len(ls) \in Nat /\ b \in Seq(Seq(C)) /\ Len(b) \in Nat \ {0}
  BY DEF LinesOf
<1>2. p \in Seq(Seq(C)) /\ Len(p) = l - 1 /\ \A i \in 1 .. l - 1 : p[i] = ls[i]
  <2>1. l - 1 \in Nat /\ l - 1 <= Len(ls)
    BY <1>1
  <2>2. /\ SubSeq(ls, 1, l - 1) \in Seq(Seq(C)) /\ Len(SubSeq(ls, 1, l - 1)) = l - 1
        /\ \A i \in 1 .. l - 1 - 1 + 1 : SubSeq(ls, 1, l - 1)[i] = ls[1 + i - 1]
    BY <1>1, <2>1, SubSeqOfSeq
  <2> QED
    BY <2>1, <2>2
<1>3. q \in Seq(Seq(C)) /\ Len(q) = Len(ls) - l /\ \A i \in 1 .. Len(ls) - l : q[i] = ls[l + i]
  <2>1. l + 1 \in Nat \ {0} /\ Len(ls) <= Len(ls)
    BY <1>1
  <2>2. /\ SubSeq(ls, l + 1, Len(ls)) \in Seq(Seq(C))
        /\ Len(SubSeq(ls, l + 1, Len(ls))) = IF l + 1 <= Len(ls) THEN Len(ls) - (l + 1) + 1 ELSE 0
        /\ \A i \in 1 .. Len(ls) - (l + 1) + 1 : SubSeq(ls, l + 1, Len(ls))[i] = ls[l + 1 + i - 1]
    BY <1>1, <2>1, SubSeqOfSeq
  <2>3. \A i \in 1 .. Len(ls) - l : i \in 1 .. Len(ls) - (l + 1) + 1 /\ l + 1 + i - 1 = l + i
    BY <1>1
  <2>4. \A i \in 1 .. Len(ls) - l : SubSeq(ls, l + 1, Len(ls))[i] = ls[l + i]
    BY <2>2, <2>3
  <2> QED
    BY <1>1, <2>2, <2>4
<1> HIDE DEF p, q
<1>4. w = p \o b \o q
  BY DEF p, q
<1>5. /\ p \o b \in Seq(Seq(C)) /\ Len(p \o b) = Len(p) + Len(b)
      /\ \A i \in 1 .. Len(p) + Len(b) : (p \o b)[i] = IF i <= Len(p) THEN p[i] ELSE b[i - Len(p)]
  BY <1>1, <1>2, ConcatProperties
<1> DEFINE r == p \o b
<1> HIDE DEF r
<1>6. /\ r \in Seq(Seq(C)) /\ Len(r) = l - 1 + Len(b)
      /\ \A i \in 1 .. l - 1 + Len(b) : r[i] = IF i <= l - 1 THEN p[i] ELSE b[i - (l - 1)]
  BY <1>1, <1>2, <1>5 DEF r
<1>7. /\ r \o q \in Seq(Seq(C)) /\ Len(r \o q) = Len(r) + Len(q)
      /\ \A i \in 1 .. Len(r) + Len(q) : (r \o q)[i] = IF i <= Len(r) THEN r[i] ELSE q[i - Len(r)]
  BY <1>3, <1>6, ConcatProperties
<1>8. w = r \o q
  BY <1>4 DEF r
<1>9. /\ w \in Seq(Seq(C)) /\ Len(w) = Len(ls) + Len(b) - 1
      /\ \A i \in 1 .. Len(r) + Len(q) : w[i] = IF i <= Len(r) THEN r[i] ELSE q[i - Len(r)]
  <2>1. l \in Int /\ l - 1 + Len(b) + (Len(ls) - l) = Len(ls) + Len(b) - 1
    BY <1>1
  <2>2. Len(r \o q) = Len(ls) + Len(b) - 1
    BY <1>3, <1>6, <1>7, <2>1
  <2> QED
    BY <1>7, <1>8, <2>2
<1>10. w # <<>>
  BY <1>1, <1>9
<1>11. ASSUME NEW i \in 1 .. l - 1 PROVE w[i] = ls[i]
  <2>1. i \in 1 .. Len(r) + Len(q) /\ i <= Len(r) /\ i \in 1 .. l - 1 + Len(b) /\ i <= l - 1
    BY <1>1, <1>3, <1>6
  <2> QED
    BY <1>2, <1>6, <1>9, <2>1
<1>12. w[l] = b[1]
  <2>1. l \in 1 .. Len(r) + Len(q) /\ l <= Len(r) /\ l \in 1 .. l - 1 + Len(b) /\ ~(l <= l - 1) /\ l - (l - 1) = 1
    BY <1>1, <1>3, <1>6
  <2> QED
    BY <1>6, <1>9, <2>1
<1>13. ASSUME NEW i \in l + 1 .. Len(ls) PROVE w[i + Len(b) - 1] = ls[i]
  <2> DEFINE j == i + Len(b) - 1
  <2>0. l \in Int /\ 1 <= l /\ i \in Int /\ l < i /\ i <= Len(ls) /\ Len(r) = l - 1 + Len(b) /\ Len(q) = Len(ls) - l
    BY <1>1, <1>3, <1>6
  <2>1. j \in 1 .. Len(r) + Len(q) /\ ~(j <= Len(r)) /\ j - Len(r) = i - l /\ i - l \in 1 .. Len(ls) - l
    BY <1>1, <2>0
  <2>2. q[i - l] = ls[l + (i - l)] /\ l + (i - l) = i
    BY <1>3, <2>0, <2>1
  <2> QED
    BY <1>9, <2>1, <2>2
<1> QED
  BY <1>9, <1>10, <1>11, <1>12, <1>13 DEF LinesOf, SplicedTo
-----------------------------------------------------------------------------
(* The documents whose characters are in C: each point that is set is on a *)
(* line, and the mark is not before the beginning of its line.             *)
Points == UNION {[D -> [line : Nat, pos : Int]] : D \in SUBSET {MARK, START, END}}
OnLines(p, n) == \A x \in DOMAIN p : p[x].line \in 1 .. n /\ (x = MARK => p[x].pos >= 0)
Undos == [level : Int, used : BOOLEAN, groups : Int]
Docs(C) == {d \in [lines : LinesOf(C), pts : Points, undo : Undos] : OnLines(d.pts, Len(d.lines))}

(* What is a set of points.                                                *)
LEMMA PointsAre ==
  ASSUME NEW p
  PROVE  p \in Points <=> DOMAIN p \subseteq {MARK, START, END} /\ p \in [DOMAIN p -> [line : Nat, pos : Int]]
<1>1. ASSUME p \in Points
      PROVE  DOMAIN p \subseteq {MARK, START, END} /\ p \in [DOMAIN p -> [line : Nat, pos : Int]]
  <2>1. PICK D \in SUBSET {MARK, START, END} : p \in [D -> [line : Nat, pos : Int]]
    BY <1>1 DEF Points
  <2>2. DOMAIN p = D
    BY <2>1
  <2> QED
    BY <2>1, <2>2
<1>2. ASSUME DOMAIN p \subseteq {MARK, START, END}, p \in [DOMAIN p -> [line : Nat, pos : Int]]
      PROVE  p \in Points
  <2> DEFINE D == DOMAIN p
  <2>1. D \in SUBSET {MARK, START, END} /\ p \in [D -> [line : Nat, pos : Int]]
    BY <1>2
  <2> HIDE DEF D
  <2> QED
    BY <2>1 DEF Points
<1> QED
  BY <1>1, <1>2

(* A point, and the number of its line and its position.                   *)
LEMMA PointIs ==
  ASSUME NEW p \in Points, NEW x \in DOMAIN p
  PROVE  p[x] \in [line : Nat, pos : Int] /\ p[x] = Point(p[x].line, p[x].pos)
         /\ p[x].line \in Nat /\ p[x].pos \in Int
<1>1. p[x] \in [line : Nat, pos : Int]
  BY PointsAre
<1> QED
  BY <1>1 DEF Point

(* What a document is made of.                                             *)
LEMMA DocIs ==
  ASSUME NEW C, NEW d \in Docs(C)
  PROVE  /\ d = [lines |-> d.lines, pts |-> d.pts, undo |-> d.undo]
         /\ d.lines \in LinesOf(C) /\ d.pts \in Points /\ d.undo \in Undos
         /\ OnLines(d.pts, Len(d.lines))
BY DEF Docs

(* A document from its parts.                                              *)
LEMMA DocMade ==
  ASSUME NEW C, NEW ls \in LinesOf(C), NEW p \in Points, NEW u \in Undos, OnLines(p, Len(ls))
  PROVE  [lines |-> ls, pts |-> p, undo |-> u] \in Docs(C)
BY DEF Docs

(* Other lines, points or undo steps.                                      *)
LEMMA DocChanged ==
  ASSUME NEW C, NEW d \in Docs(C), NEW ls, NEW p, NEW u
  PROVE  /\ [d EXCEPT !.undo = u] = [lines |-> d.lines, pts |-> d.pts, undo |-> u]
         /\ [d EXCEPT !.pts = p] = [lines |-> d.lines, pts |-> p, undo |-> d.undo]
         /\ [d EXCEPT !.lines = ls, !.pts = p] = [lines |-> ls, pts |-> p, undo |-> d.undo]
<1>1. d = [lines |-> d.lines, pts |-> d.pts, undo |-> d.undo]
  BY DocIs
<1>2. [d EXCEPT !.undo = u] = [lines |-> d.lines, pts |-> d.pts, undo |-> u]
  BY <1>1
<1>3. [d EXCEPT !.pts = p] = [lines |-> d.lines, pts |-> p, undo |-> d.undo]
  BY <1>1
<1>4. [d EXCEPT !.lines = ls, !.pts = p] = [lines |-> ls, pts |-> p, undo |-> d.undo]
  <2>1. DOMAIN d = {"lines", "pts", "undo"}
    BY <1>1
  <2> DEFINE e == [x \in {"lines", "pts", "undo"} |-> IF x = "lines" THEN ls ELSE IF x = "pts" THEN p ELSE d[x]]
  <2>2. [d EXCEPT !.lines = ls, !.pts = p] = e
    BY <1>1, <2>1
  <2>3. e = [lines |-> ls, pts |-> p, undo |-> d.undo]
    BY <2>1
  <2> QED
    BY <2>2, <2>3
<1> QED
  BY <1>2, <1>3, <1>4

(* The lines of a document, and each of them.                              *)
LEMMA LinesAre ==
  ASSUME NEW C, NEW ls \in LinesOf(C)
  PROVE  /\ ls \in Seq(Seq(C)) /\ Len(ls) \in Nat \ {0} /\ DOMAIN ls = 1 .. Len(ls)
         /\ \A l \in 1 .. Len(ls) : ls[l] \in Seq(C) /\ Len(ls[l]) \in Nat
<1>1. ls \in Seq(Seq(C)) /\ ls # <<>>
  BY DEF LinesOf
<1>2. Len(ls) \in Nat \ {0} /\ DOMAIN ls = 1 .. Len(ls) /\ \A l \in 1 .. Len(ls) : ls[l] \in Seq(C)
  BY <1>1
<1> QED
  BY <1>1, <1>2

(* Setting a point.                                                        *)
LEMMA SetDoc ==
  ASSUME NEW C, NEW d \in Docs(C), NEW x \in {MARK, START, END},
         NEW l \in 1 .. Len(d.lines), NEW q \in Int, x = MARK => q >= 0
  PROVE  /\ Set(d, x, Point(l, q)) \in Docs(C)
         /\ Set(d, x, Point(l, q)).lines = d.lines
         /\ Set(d, x, Point(l, q)).undo = d.undo
         /\ DOMAIN Set(d, x, Point(l, q)).pts = DOMAIN d.pts \cup {x}
<1> DEFINE pt == Point(l, q)
           p == Updated(d.pts, x, pt)
<1>1. d.lines \in LinesOf(C) /\ d.pts \in Points /\ d.undo \in Undos /\ OnLines(d.pts, Len(d.lines))
  BY DocIs
<1>2. Len(d.lines) \in Nat
  BY <1>1, LinesAre
<1>3. pt \in [line : Nat, pos : Int] /\ pt.line = l /\ pt.pos = q
  BY <1>2 DEF Point
<1> HIDE DEF pt
<1>4. p = [y \in DOMAIN d.pts \cup {x} |-> IF y = x THEN pt ELSE d.pts[y]]
  BY DEF Updated
<1> HIDE DEF p
<1>5. DOMAIN d.pts \subseteq {MARK, START, END} /\ \A y \in DOMAIN d.pts : d.pts[y] \in [line : Nat, pos : Int]
  BY <1>1, PointsAre
<1>6. DOMAIN p = DOMAIN d.pts \cup {x} /\ \A y \in DOMAIN p : p[y] = IF y = x THEN pt ELSE d.pts[y]
  BY <1>4
<1>7. p \in [DOMAIN p -> [line : Nat, pos : Int]]
  BY <1>3, <1>4, <1>5, <1>6
<1>8. p \in Points
  BY <1>5, <1>6, <1>7, PointsAre
<1>9. OnLines(p, Len(d.lines))
  BY <1>1, <1>3, <1>6 DEF OnLines
<1>10. Set(d, x, Point(l, q)) = [lines |-> d.lines, pts |-> p, undo |-> d.undo]
  <2>1. Set(d, x, Point(l, q)) = [d EXCEPT !.pts = p]
    BY DEF Set, p, pt
  <2> QED
    BY <2>1, DocChanged
<1> QED
  BY <1>1, <1>6, <1>8, <1>9, <1>10, DocMade

(* Resetting the mark.                                                     *)
LEMMA UnmarkedDoc ==
  ASSUME NEW C, NEW d \in Docs(C)
  PROVE  /\ Unmarked(d) \in Docs(C) /\ Unmarked(d).lines = d.lines /\ Unmarked(d).undo = d.undo
<1> DEFINE p == Restrict(d.pts, DOMAIN d.pts \ {MARK})
<1>1. d.lines \in LinesOf(C) /\ d.pts \in Points /\ d.undo \in Undos /\ OnLines(d.pts, Len(d.lines))
  BY DocIs
<1>2. p = [y \in DOMAIN d.pts \ {MARK} |-> d.pts[y]]
  BY DEF Restrict
<1> HIDE DEF p
<1>3. DOMAIN d.pts \subseteq {MARK, START, END} /\ \A y \in DOMAIN d.pts : d.pts[y] \in [line : Nat, pos : Int]
  BY <1>1, PointsAre
<1>4. DOMAIN p \subseteq DOMAIN d.pts /\ \A y \in DOMAIN p : p[y] = d.pts[y]
  BY <1>2
<1>5. p \in [DOMAIN p -> [line : Nat, pos : Int]]
  BY <1>2, <1>3, <1>4
<1>6. p \in Points
  BY <1>3, <1>4, <1>5, PointsAre
<1>7. OnLines(p, Len(d.lines))
  BY <1>1, <1>4 DEF OnLines
<1>8. Unmarked(d) = [lines |-> d.lines, pts |-> p, undo |-> d.undo]
  <2>1. Unmarked(d) = [d EXCEPT !.pts = p]
    BY DEF Unmarked, p
  <2> QED
    BY <2>1, DocChanged
<1> QED
  BY <1>1, <1>6, <1>7, <1>8, DocMade

(* Putting PASTE_END_BOOKMARK back.                                        *)
LEMMA PutBackDoc ==
  ASSUME NEW C, NEW d \in Docs(C)
  PROVE  /\ PutBackEnd(d) \in Docs(C) /\ PutBackEnd(d).lines = d.lines /\ PutBackEnd(d).undo = d.undo
         /\ DOMAIN PutBackEnd(d).pts = DOMAIN d.pts
<1>1. CASE END \in DOMAIN d.pts
  <2> DEFINE p == [d.pts EXCEPT ![END] = [d.pts[END] EXCEPT !.pos = d.pts[END].pos - 1]]
  <2>1. d.lines \in LinesOf(C) /\ d.pts \in Points /\ d.undo \in Undos /\ OnLines(d.pts, Len(d.lines))
    BY DocIs
  <2>2. DOMAIN d.pts \subseteq {MARK, START, END} /\ d.pts \in [DOMAIN d.pts -> [line : Nat, pos : Int]]
    BY <2>1, PointsAre
  <2> DEFINE pt == [d.pts[END] EXCEPT !.pos = d.pts[END].pos - 1]
  <2>3. pt \in [line : Nat, pos : Int] /\ pt.line = d.pts[END].line
    BY <1>1, <2>2
  <2> HIDE DEF pt
  <2>4. p = [y \in DOMAIN d.pts |-> IF y = END THEN pt ELSE d.pts[y]]
    BY <2>2 DEF pt
  <2> HIDE DEF p
  <2>5. DOMAIN p = DOMAIN d.pts /\ p \in [DOMAIN d.pts -> [line : Nat, pos : Int]]
    BY <2>2, <2>3, <2>4
  <2>6. p \in Points
    BY <2>2, <2>5, PointsAre
  <2>7. MARK # END
    BY DEF MARK, END
  <2>8. OnLines(p, Len(d.lines))
    BY <1>1, <2>1, <2>3, <2>4, <2>7 DEF OnLines
  <2>9. PutBackEnd(d) = [lines |-> d.lines, pts |-> p, undo |-> d.undo]
    <3>1. d = [lines |-> d.lines, pts |-> d.pts, undo |-> d.undo]
      BY DocIs
    <3>2. PutBackEnd(d) = [d EXCEPT !.pts = p]
      BY <1>1, <3>1 DEF PutBackEnd, p
    <3> QED
      BY <3>2, DocChanged
  <2> QED
    BY <2>1, <2>5, <2>6, <2>8, <2>9, DocMade
<1>2. CASE END \notin DOMAIN d.pts
  BY <1>2 DEF PutBackEnd
<1> QED
  BY <1>1, <1>2
-----------------------------------------------------------------------------
(* Nothing is recorded of d on the way to e, or one step is.               *)
Steps(d, e) == (e.lines = d.lines /\ e.undo = d.undo) \/ e.undo = add_undo_step(d).undo

(* In n chains: no step has been recorded and the lines are ls, or UNDO_A  *)
(* has one group of steps to undo, which is the open one.                  *)
Counts(ls, n, d) ==
  /\ d.undo.level = n
  /\ \/ d.undo.groups = 0 /\ d.lines = ls /\ (n > 0 => d.undo.used = FALSE)
     \/ d.undo.groups = 1 /\ (n > 0 => d.undo.used = TRUE)

(* What is recorded next goes in the same group.                           *)
Ready(ls, n, d) == Counts(ls, n, d) /\ (n = 0 => d.undo.groups = 0)

(* Other undo steps.                                                       *)
LEMMA OtherSteps ==
  ASSUME NEW C, NEW d \in Docs(C), NEW a \in Int, NEW b \in BOOLEAN, NEW c \in Int, NEW e,
         e = [d EXCEPT !.undo = [level |-> a, used |-> b, groups |-> c]]
  PROVE  /\ e \in Docs(C) /\ e.lines = d.lines /\ e.pts = d.pts
         /\ e.undo.level = a /\ e.undo.used = b /\ e.undo.groups = c
<1>1. d.lines \in LinesOf(C) /\ d.pts \in Points /\ OnLines(d.pts, Len(d.lines))
  BY DocIs
<1> DEFINE u == [level |-> a, used |-> b, groups |-> c]
<1>2. u \in Undos /\ u.level = a /\ u.used = b /\ u.groups = c
  BY DEF Undos
<1>3. e = [d EXCEPT !.undo = u]
  OBVIOUS
<1> HIDE DEF u
<1>4. e = [lines |-> d.lines, pts |-> d.pts, undo |-> u]
  BY <1>3, DocChanged
<1>5. [lines |-> d.lines, pts |-> d.pts, undo |-> u] \in Docs(C)
  BY <1>1, <1>2, DocMade
<1> QED
  BY ONLY <1>2, <1>4, <1>5

(* The undo steps of a document.                                           *)
LEMMA UndoIs ==
  ASSUME NEW C, NEW d \in Docs(C)
  PROVE  d.undo.level \in Int /\ d.undo.used \in BOOLEAN /\ d.undo.groups \in Int
BY DocIs DEF Undos

(* What the operations on the undo steps of a document do.                 *)
LEMMA StartDoc ==
  ASSUME NEW C, NEW d \in Docs(C), NEW e, e = start_undo_chain(d)
  PROVE  /\ e \in Docs(C) /\ e.lines = d.lines /\ e.pts = d.pts
         /\ e.undo.level = d.undo.level + 1 /\ e.undo.groups = d.undo.groups
         /\ d.undo.level = 0 => e.undo.used = FALSE
         /\ d.undo.level # 0 => e.undo.used = d.undo.used
<1> DEFINE b == d.undo.level # 0 /\ d.undo.used
<1>1. b \in BOOLEAN
  OBVIOUS
<1>2. e = [d EXCEPT !.undo = [level |-> d.undo.level + 1, used |-> b, groups |-> d.undo.groups]]
  BY DocIs DEF start_undo_chain
<1>3. (d.undo.level = 0 => b = FALSE) /\ (d.undo.level # 0 => b = d.undo.used)
  BY UndoIs
<1> HIDE DEF b
<1>4. d.undo.level + 1 \in Int /\ d.undo.groups \in Int
  BY UndoIs
<1>5. /\ e \in Docs(C) /\ e.lines = d.lines /\ e.pts = d.pts
      /\ e.undo.level = d.undo.level + 1 /\ e.undo.used = b /\ e.undo.groups = d.undo.groups
  BY <1>1, <1>2, <1>4, OtherSteps
<1> QED
  BY ONLY <1>3, <1>5

(* end_undo_chain().                                                       *)
LEMMA EndDoc ==
  ASSUME NEW C, NEW d \in Docs(C), NEW e, e = end_undo_chain(d)
  PROVE  /\ e \in Docs(C) /\ e.lines = d.lines /\ e.pts = d.pts
         /\ e.undo.level = d.undo.level - 1 /\ e.undo.groups = d.undo.groups
         /\ e.undo.used = d.undo.used
<1>1. e = [d EXCEPT !.undo = [level |-> d.undo.level - 1, used |-> d.undo.used, groups |-> d.undo.groups]]
  <2>1. /\ d.undo = [level |-> d.undo.level, used |-> d.undo.used, groups |-> d.undo.groups]
        /\ d = [lines |-> d.lines, pts |-> d.pts, undo |-> d.undo]
    BY DocIs DEF Undos
  <2> QED
    BY <2>1 DEF end_undo_chain
<1>2. d.undo.level - 1 \in Int /\ d.undo.used \in BOOLEAN /\ d.undo.groups \in Int
  BY UndoIs
<1> QED
  BY <1>1, <1>2, OtherSteps

(* The undo steps after add_undo_step().                                   *)
Recorded(u, v) ==
  /\ v.level = u.level /\ v.used = TRUE
  /\ u.level > 0 /\ u.used = TRUE => v.groups = u.groups
  /\ ~(u.level > 0 /\ u.used = TRUE) => v.groups = u.groups + 1

(* add_undo_step().                                                        *)
LEMMA StepDoc ==
  ASSUME NEW C, NEW d \in Docs(C), NEW e, e = add_undo_step(d)
  PROVE  e \in Docs(C) /\ e.lines = d.lines /\ e.pts = d.pts /\ Recorded(d.undo, e.undo)
<1> DEFINE next == IF d.undo.level > 0 /\ d.undo.used THEN d.undo.groups ELSE d.undo.groups + 1
           yes == TRUE
<1>1. e = [d EXCEPT !.undo = [level |-> d.undo.level, used |-> yes, groups |-> next]]
  BY DocIs DEF add_undo_step
<1>2. /\ d.undo.level > 0 /\ d.undo.used = TRUE => next = d.undo.groups
      /\ ~(d.undo.level > 0 /\ d.undo.used = TRUE) => next = d.undo.groups + 1
  BY UndoIs
<1>3. yes \in BOOLEAN
  OBVIOUS
<1> HIDE DEF next, yes
<1>4. d.undo.level \in Int /\ d.undo.groups \in Int
  BY UndoIs
<1>5. next \in Int
  BY <1>4 DEF next
<1>6. /\ e \in Docs(C) /\ e.lines = d.lines /\ e.pts = d.pts
      /\ e.undo.level = d.undo.level /\ e.undo.used = yes /\ e.undo.groups = next
  BY <1>1, <1>3, <1>4, <1>5, OtherSteps
<1> QED
  BY ONLY <1>2, <1>6 DEF yes, Recorded

(* What comes of a group of steps by a chain and by what is recorded.      *)
LEMMA CountsOn ==
  ASSUME NEW C, NEW ls, NEW n \in Nat, NEW d \in Docs(C)
  PROVE  /\ Counts(ls, n, d) /\ n > 0 => Ready(ls, n, d)
         /\ Ready(ls, n, d) => Ready(ls, n + 1, start_undo_chain(d))
         /\ Counts(ls, n + 1, d) => Counts(ls, n, end_undo_chain(d))
         /\ Ready(ls, n, d) => Counts(ls, n, d)
<1>1. /\ d.undo.level \in Int /\ d.undo.used \in BOOLEAN /\ d.undo.groups \in Int
  BY DocIs DEF Undos
<1>2. Counts(ls, n, d) /\ n > 0 => Ready(ls, n, d)
  BY DEF Ready
<1>3. ASSUME Ready(ls, n, d) PROVE Ready(ls, n + 1, start_undo_chain(d))
  <2> DEFINE e == start_undo_chain(d)
  <2>1. /\ e.lines = d.lines /\ e.undo.level = d.undo.level + 1 /\ e.undo.groups = d.undo.groups
        /\ d.undo.level = 0 => e.undo.used = FALSE
        /\ d.undo.level # 0 => e.undo.used = d.undo.used
    BY StartDoc
  <2> HIDE DEF e
  <2>2. Counts(ls, n, d) /\ (n = 0 => d.undo.groups = 0)
    BY <1>3 DEF Ready
  <2>3. e.undo.level = n + 1 /\ ~(n + 1 = 0) /\ (n > 0 <=> n # 0)
    BY <2>1, <2>2 DEF Counts
  <2>4. CASE d.undo.groups = 0 /\ d.lines = ls /\ (n > 0 => d.undo.used = FALSE)
    <3>1. e.undo.used = FALSE
      <4>1. d.undo.level # 0 => d.undo.used = FALSE
        BY <2>2, <2>3, <2>4 DEF Counts
      <4> QED
        BY <2>1, <4>1
    <3>2. e.undo.groups = 0 /\ e.lines = ls
      BY <2>1, <2>4
    <3> QED
      BY <2>3, <3>1, <3>2 DEF Ready, Counts, e
  <2>5. CASE d.undo.groups = 1 /\ (n > 0 => d.undo.used = TRUE)
    <3>1. n # 0
      BY <2>2, <2>5
    <3>2. e.undo.used = TRUE
      <4>1. d.undo.level # 0 /\ d.undo.used = TRUE
        BY <2>2, <2>3, <2>5, <3>1 DEF Counts
      <4> QED
        BY <2>1, <4>1
    <3>3. e.undo.groups = 1
      BY <2>1, <2>5
    <3> QED
      BY <2>3, <3>2, <3>3 DEF Ready, Counts, e
  <2> QED
    BY <2>2, <2>4, <2>5 DEF Counts, e
<1>4. ASSUME Counts(ls, n + 1, d) PROVE Counts(ls, n, end_undo_chain(d))
  <2> DEFINE e == end_undo_chain(d)
  <2>1. /\ e.lines = d.lines /\ e.undo.level = d.undo.level - 1 /\ e.undo.groups = d.undo.groups
        /\ e.undo.used = d.undo.used
    BY EndDoc
  <2> HIDE DEF e
  <2>2. n + 1 > 0 /\ (d.undo.level = n + 1 => e.undo.level = n)
    BY <1>1, <2>1
  <2>3. e.undo.level = n
    BY <1>4, <2>2 DEF Counts
  <2>4. \/ d.undo.groups = 0 /\ d.lines = ls /\ d.undo.used = FALSE
        \/ d.undo.groups = 1 /\ d.undo.used = TRUE
    BY <1>4, <2>2 DEF Counts
  <2> QED
    BY <2>1, <2>3, <2>4 DEF Counts, e
<1>5. Ready(ls, n, d) => Counts(ls, n, d)
  BY DEF Ready
<1> QED
  BY <1>2, <1>3, <1>4, <1>5

(* What is recorded goes in the group.                                     *)
LEMMA StepsCount ==
  ASSUME NEW C, NEW ls, NEW n \in Nat, NEW d \in Docs(C), Ready(ls, n, d), NEW e, Steps(d, e)
  PROVE  Counts(ls, n, e)
<1>1. /\ d.undo.level \in Int /\ d.undo.used \in BOOLEAN /\ d.undo.groups \in Int
  BY DocIs DEF Undos
<1>2. Counts(ls, n, d) /\ (n = 0 => d.undo.groups = 0)
  BY DEF Ready
<1>3. CASE e.lines = d.lines /\ e.undo = d.undo
  BY <1>2, <1>3 DEF Counts
<1>4. CASE e.undo = add_undo_step(d).undo
  <2>0. Recorded(d.undo, e.undo)
    BY <1>4, StepDoc
  <2>1. /\ e.undo.level = d.undo.level /\ e.undo.used = TRUE
        /\ d.undo.level > 0 /\ d.undo.used = TRUE => e.undo.groups = d.undo.groups
        /\ ~(d.undo.level > 0 /\ d.undo.used = TRUE) => e.undo.groups = d.undo.groups + 1
    BY <2>0 DEF Recorded
  <2>2. e.undo.level = n /\ d.undo.level = n
    BY <1>2, <2>1 DEF Counts
  <2>3. CASE d.undo.groups = 0
    <3>1. n > 0 => d.undo.used = FALSE
      BY <1>2, <2>3 DEF Counts
    <3>2. ~(d.undo.level > 0 /\ d.undo.used)
      BY <2>2, <3>1
    <3>3. e.undo.groups = d.undo.groups + 1
      BY <2>1, <3>2
    <3>4. e.undo.groups = 1
      BY <2>3, <3>3
    <3> QED
      BY <2>1, <2>2, <3>4 DEF Counts
  <2>4. CASE d.undo.groups = 1
    <3>1. n # 0
      BY <1>2, <2>4
    <3>2. n > 0
      BY <3>1
    <3>3. d.undo.level > 0 /\ d.undo.used = TRUE
      <4>1. d.undo.groups # 0
        BY <2>4
      <4> QED
        BY <1>2, <2>2, <3>2, <4>1 DEF Counts
    <3>4. e.undo.groups = 1
      BY <2>1, <2>4, <3>3
    <3> QED
      BY <2>1, <2>2, <3>4 DEF Counts
  <2> QED
    BY <1>2, <2>3, <2>4 DEF Counts
<1> QED
  BY <1>3, <1>4 DEF Steps
-----------------------------------------------------------------------------
(* Where an insertion moves a point.                                       *)
LEMMA AfterInsertIs ==
  ASSUME NEW C, NEW s \in Seq(C \cup {NL}), NEW n \in Nat, NEW l \in Nat, NEW p \in Nat,
         NEW pt \in [line : Nat, pos : Int], pt.line \in 1 .. n
  PROVE  /\ AfterInsert(pt, l, p, s) \in [line : Nat, pos : Int]
         /\ AfterInsert(pt, l, p, s).line \in 1 .. n + Len(Split(s)) - 1
         /\ pt.pos >= 0 => AfterInsert(pt, l, p, s).pos >= 0
<1> DEFINE pieces == Split(s)
           k == Len(pieces) - 1
           last == Len(Last(pieces))
           q == AfterInsert(pt, l, p, s)
<1>1. pieces \in LinesOf(C)
  BY SplitType
<1>2. pieces \in Seq(Seq(C)) /\ Len(pieces) \in Nat \ {0}
  BY <1>1, LinesAre
<1>3. k \in Nat /\ Len(pieces) = k + 1
  BY <1>2
<1>4. last \in Nat
  <2>1. pieces[Len(pieces)] \in Seq(C)
    BY <1>2
  <2> QED
    BY <2>1 DEF Last
<1>5. q = IF pt.line = l /\ pt.pos > p THEN Point(l + k, pt.pos + last - (IF k = 0 THEN 0 ELSE p))
          ELSE IF pt.line > l THEN [pt EXCEPT !.line = pt.line + k] ELSE pt
  BY DEF AfterInsert
<1>6. pt.line \in Nat /\ pt.pos \in Int /\ n + Len(Split(s)) - 1 = n + k
  BY <1>3
<1> HIDE DEF k, last, q, pieces
<1>7. CASE pt.line = l /\ pt.pos > p
  <2> DEFINE z == pt.pos + last - (IF k = 0 THEN 0 ELSE p)
  <2>1. z \in Int /\ z >= 0 /\ l + k \in Nat /\ l + k \in 1 .. n + k
    BY <1>3, <1>4, <1>6, <1>7
  <2>2. q = Point(l + k, z)
    BY <1>5, <1>7
  <2> HIDE DEF z
  <2>3. q \in [line : Nat, pos : Int] /\ q.line = l + k /\ q.pos = z
    BY <2>1, <2>2 DEF Point
  <2> QED
    BY <1>6, <2>1, <2>3 DEF q
<1>8. CASE ~(pt.line = l /\ pt.pos > p) /\ pt.line > l
  <2>1. q = [pt EXCEPT !.line = pt.line + k]
    BY <1>5, <1>8
  <2>2. pt.line + k \in Nat /\ pt.line + k \in 1 .. n + k
    BY <1>3, <1>6
  <2>3. q \in [line : Nat, pos : Int] /\ q.line = pt.line + k /\ q.pos = pt.pos
    BY <2>1, <2>2
  <2> QED
    BY <1>6, <2>2, <2>3 DEF q
<1>9. CASE ~(pt.line = l /\ pt.pos > p) /\ ~(pt.line > l)
  <2>1. q = pt /\ pt.line \in 1 .. n + k
    BY <1>3, <1>5, <1>6, <1>9
  <2> QED
    BY <1>6, <2>1 DEF q
<1> QED
  BY <1>7, <1>8, <1>9

(* The points after an insertion.                                          *)
LEMMA InsertPoints ==
  ASSUME NEW C, NEW d \in Docs(C), NEW s \in Seq(C \cup {NL}), NEW l \in Nat, NEW p \in Nat,
         NEW n \in Nat, n >= Len(d.lines) + Len(Split(s)) - 1, NEW f,
         f = [x \in DOMAIN d.pts |-> AfterInsert(d.pts[x], l, p, s)]
  PROVE  f \in Points /\ OnLines(f, n) /\ DOMAIN f = DOMAIN d.pts
<1>1. d.lines \in LinesOf(C) /\ d.pts \in Points /\ OnLines(d.pts, Len(d.lines))
  BY DocIs
<1>2. Len(d.lines) \in Nat /\ Len(Split(s)) \in Nat \ {0}
  BY <1>1, LinesAre, SplitType
<1>3. DOMAIN f = DOMAIN d.pts /\ DOMAIN f \subseteq {MARK, START, END}
  BY <1>1, PointsAre
<1>4. ASSUME NEW x \in DOMAIN f
      PROVE  /\ f[x] \in [line : Nat, pos : Int] /\ f[x].line \in 1 .. n
             /\ x = MARK => f[x].pos >= 0
  <2>1. d.pts[x] \in [line : Nat, pos : Int] /\ d.pts[x].line \in 1 .. Len(d.lines)
        /\ (x = MARK => d.pts[x].pos >= 0)
    BY <1>1, <1>3, PointIs DEF OnLines
  <2>2. f[x] = AfterInsert(d.pts[x], l, p, s)
    BY <1>3
  <2>3. /\ f[x] \in [line : Nat, pos : Int] /\ f[x].line \in 1 .. Len(d.lines) + Len(Split(s)) - 1
        /\ d.pts[x].pos >= 0 => f[x].pos >= 0
    BY <1>2, <2>1, <2>2, AfterInsertIs
  <2>4. f[x].line \in 1 .. n
    BY <1>2, <2>3
  <2> QED
    BY <2>1, <2>3, <2>4
<1>5. f \in [DOMAIN f -> [line : Nat, pos : Int]]
  BY <1>3, <1>4
<1>6. f \in Points
  BY <1>3, <1>5, PointsAre
<1> QED
  BY <1>3, <1>4, <1>6 DEF OnLines

(* Document e is d with a stream inserted at (l, p): what is before stays. *)
Inserted(C, d, e, l, p) ==
  /\ e \in Docs(C) /\ Steps(d, e) /\ DOMAIN e.pts = DOMAIN d.pts
  /\ Len(e.lines) >= Len(d.lines)
  /\ \A i \in 1 .. l - 1 : e.lines[i] = d.lines[i]
  /\ p <= Len(d.lines[l]) => Len(e.lines[l]) >= p

(* The n characters inserted have no line end.                             *)
InsertedIn(d, e, l, p, n) ==
  /\ Len(e.lines) = Len(d.lines)
  /\ \A i \in 1 .. Len(d.lines) : i # l => e.lines[i] = d.lines[i]
  /\ Len(e.lines[l]) = IF p <= Len(d.lines[l]) THEN Len(d.lines[l]) + n ELSE Len(d.lines[l])

(* The line in which a stream is inserted, before it is split.             *)
LineWith(C, ln, p, s, t) ==
  /\ t \in Seq(C \cup {NL}) /\ Len(t) = Len(ln) + Len(s)
  /\ \A i \in 1 .. p : t[i] = ln[i]
  /\ \A i \in 1 .. Len(s) : t[p + i] = s[i]
  /\ s \in Seq(C) => t \in Seq(C)

(* What it has.                                                            *)
LEMMA LineInserted ==
  ASSUME NEW C, NEW ln \in Seq(C), NEW s \in Seq(C \cup {NL}), NEW p \in Nat, p <= Len(ln), NEW t,
         t = SubSeq(ln, 1, p) \o s \o SubSeq(ln, p + 1, Len(ln))
  PROVE  LineWith(C, ln, p, s, t)
<1> DEFINE a == SubSeq(ln, 1, p)
           z == SubSeq(ln, p + 1, Len(ln))
<1>1. Len(ln) \in Nat /\ Len(s) \in Nat
  OBVIOUS
<1>2. a \in Seq(C) /\ Len(a) = p /\ \A i \in 1 .. p : a[i] = ln[i]
  BY <1>1, SubSeqOfSeq
<1>3. z \in Seq(C) /\ Len(z) = Len(ln) - p
  <2>1. p + 1 \in Nat \ {0} /\ Len(ln) <= Len(ln)
    BY <1>1
  <2>2. /\ SubSeq(ln, p + 1, Len(ln)) \in Seq(C)
        /\ Len(SubSeq(ln, p + 1, Len(ln))) = IF p + 1 <= Len(ln) THEN Len(ln) - (p + 1) + 1 ELSE 0
    BY <1>1, <2>1, SubSeqOfSeq
  <2> QED
    BY <1>1, <2>2
<1>4. t = a \o s \o z
  OBVIOUS
<1> HIDE DEF a, z
<1>5. ASSUME NEW S, a \in Seq(S), s \in Seq(S), z \in Seq(S)
      PROVE  /\ t \in Seq(S) /\ Len(t) = Len(a) + Len(s) + Len(z)
             /\ \A i \in 1 .. Len(a) : t[i] = a[i]
             /\ \A i \in 1 .. Len(s) : t[Len(a) + i] = s[i]
  <2> DEFINE r == a \o s
  <2>1. /\ r \in Seq(S) /\ Len(r) = Len(a) + Len(s)
        /\ \A i \in 1 .. Len(a) + Len(s) : r[i] = IF i <= Len(a) THEN a[i] ELSE s[i - Len(a)]
    BY <1>5, ConcatProperties
  <2>2. t = r \o z
    BY <1>4
  <2> HIDE DEF r
  <2>3. /\ r \o z \in Seq(S) /\ Len(r \o z) = Len(r) + Len(z)
        /\ \A i \in 1 .. Len(r) + Len(z) : (r \o z)[i] = IF i <= Len(r) THEN r[i] ELSE z[i - Len(r)]
    BY <1>5, <2>1, ConcatProperties
  <2>4. Len(a) \in Nat /\ Len(z) \in Nat
    BY <1>5
  <2>5. ASSUME NEW i \in 1 .. Len(a) + Len(s) PROVE t[i] = r[i]
    <3>1. i \in 1 .. Len(r) + Len(z) /\ i <= Len(r)
      BY <1>1, <2>1, <2>4
    <3> QED
      BY <2>2, <2>3, <3>1
  <2>6. ASSUME NEW i \in 1 .. Len(a) PROVE t[i] = a[i]
    <3>1. i \in 1 .. Len(a) + Len(s) /\ i <= Len(a)
      BY <1>1, <2>4
    <3> QED
      BY <2>1, <2>5, <3>1
  <2>7. ASSUME NEW i \in 1 .. Len(s) PROVE t[Len(a) + i] = s[i]
    <3>1. Len(a) + i \in 1 .. Len(a) + Len(s) /\ ~(Len(a) + i <= Len(a)) /\ Len(a) + i - Len(a) = i
      BY <1>1, <2>4
    <3>2. r[Len(a) + i] = s[Len(a) + i - Len(a)]
      BY <2>1, <3>1
    <3> QED
      BY <2>5, <3>1, <3>2
  <2> QED
    BY <2>1, <2>2, <2>3, <2>6, <2>7
<1>6. a \in Seq(C \cup {NL}) /\ z \in Seq(C \cup {NL})
  BY <1>2, <1>3
<1>7. /\ t \in Seq(C \cup {NL}) /\ Len(t) = Len(a) + Len(s) + Len(z)
      /\ \A i \in 1 .. Len(a) : t[i] = a[i]
      /\ \A i \in 1 .. Len(s) : t[Len(a) + i] = s[i]
  BY <1>5, <1>6
<1>8. s \in Seq(C) => t \in Seq(C)
  BY <1>2, <1>3, <1>5
<1>9. Len(t) = Len(ln) + Len(s)
  <2>1. Len(t) = p + Len(s) + (Len(ln) - p)
    BY <1>2, <1>3, <1>7
  <2> QED
    BY ONLY <1>1, <2>1, p \in Nat
<1>10. \A i \in 1 .. p : t[i] = ln[i]
  BY <1>2, <1>7
<1>11. \A i \in 1 .. Len(s) : t[p + i] = s[i]
  BY <1>2, <1>7
<1> QED
  BY <1>7, <1>8, <1>9, <1>10, <1>11 DEF LineWith

(* insert_stream().                                                        *)
LEMMA InsertDoc ==
  ASSUME NEW C, NL \notin C, NEW d \in Docs(C), NEW l \in 1 .. Len(d.lines), NEW p \in Nat,
         NEW s \in Seq(C \cup {NL}), NEW e, e = insert_stream(d, l, p, s)
  PROVE  /\ Inserted(C, d, e, l, p)
         /\ s \in Seq(C) => InsertedIn(d, e, l, p, Len(s))
         /\ p <= Len(d.lines[l]) /\ (\E i \in 1 .. Len(s) : s[i] = NL) => Len(e.lines) > Len(d.lines)
<1> DEFINE ls == d.lines
           ln == ls[l]
<1>1. ls \in LinesOf(C) /\ d.pts \in Points /\ d.undo \in Undos /\ OnLines(d.pts, Len(ls))
  BY DocIs
<1>2. ls \in Seq(Seq(C)) /\ Len(ls) \in Nat \ {0} /\ ln \in Seq(C) /\ Len(ln) \in Nat /\ Len(s) \in Nat
  BY <1>1, LinesAre
<1>3. CASE s = <<>> \/ p > Len(ln)
  <2>1. e = d
    BY <1>3 DEF insert_stream
  <2>2. Inserted(C, d, e, l, p)
    BY <1>2, <2>1 DEF Inserted, Steps
  <2>3. Len(ln) = IF p <= Len(ln) THEN Len(ln) + Len(s) ELSE Len(ln)
    <3>1. s = <<>> => Len(s) = 0
      OBVIOUS
    <3> HIDE DEF ln
    <3> QED
      BY ONLY <1>2, <1>3, <3>1, p \in Nat
  <2>4. InsertedIn(d, e, l, p, Len(s))
    BY <2>1, <2>3 DEF InsertedIn
  <2>5. ~(p <= Len(d.lines[l]) /\ (\E i \in 1 .. Len(s) : s[i] = NL))
    BY <1>2, <1>3
  <2> QED
    BY <2>2, <2>4, <2>5
<1>4. CASE ~(s = <<>> \/ p > Len(ln))
  <2> DEFINE t == SubSeq(ln, 1, p) \o s \o SubSeq(ln, p + 1, Len(ln))
             b == Split(t)
             w == SubSeq(ls, 1, l - 1) \o b \o SubSeq(ls, l + 1, Len(ls))
             f == [x \in DOMAIN d.pts |-> AfterInsert(d.pts[x], l, p, s)]
             r == add_undo_step(d)
  <2>1. r \in Docs(C) /\ r.lines = ls /\ r.pts = d.pts
    BY StepDoc
  <2>2. e = [lines |-> w, pts |-> f, undo |-> r.undo]
    <3>1. e = [r EXCEPT !.lines = SubSeq(r.lines, 1, l - 1)
                     \o Split(SubSeq(r.lines[l], 1, p) \o s \o SubSeq(r.lines[l], p + 1, Len(r.lines[l])))
                     \o SubSeq(r.lines, l + 1, Len(r.lines)), !.pts = f]
      BY <1>4 DEF insert_stream, Moved
    <3>2. e = [r EXCEPT !.lines = w, !.pts = f]
      BY <2>1, <3>1
    <3> HIDE DEF w, f, r
    <3> QED
      BY <2>1, <3>2, DocChanged
  <2>3. p <= Len(ln)
    BY <1>2, <1>4
  <2>b. LineWith(C, ln, p, s, t)
    <3>1. t = SubSeq(ln, 1, p) \o s \o SubSeq(ln, p + 1, Len(ln))
      OBVIOUS
    <3> HIDE DEF ln, t
    <3> QED
      BY ONLY <1>2, <2>3, <3>1, s \in Seq(C \cup {NL}), p \in Nat, LineInserted
  <2>4. /\ t \in Seq(C \cup {NL}) /\ Len(t) = Len(ln) + Len(s)
        /\ \A i \in 1 .. p : t[i] = ln[i]
        /\ \A i \in 1 .. Len(s) : t[p + i] = s[i]
        /\ s \in Seq(C) => t \in Seq(C)
    <3> HIDE DEF t, ln
    <3> QED
      BY <2>b DEF LineWith
  <2> HIDE DEF t
  <2>5. b \in LinesOf(C) /\ Len(b) \in Nat \ {0}
    BY <2>4, SplitType, LinesAre
  <2>6. Len(b) >= Len(Split(s))
    <3>1. p + Len(s) <= Len(t)
      BY <1>2, <2>3, <2>4
    <3> QED
      BY <2>4, <3>1, SplitLonger
  <2>7. Len(b[1]) >= p
    <3>1. p \in 0 .. Len(t)
      BY <1>2, <2>3, <2>4
    <3>2. \A i \in 1 .. p : t[i] # NL
      <4>1. \A i \in 1 .. p : i \in 1 .. Len(ln)
        BY <1>2, <2>3
      <4>2. \A i \in 1 .. p : ln[i] \in C
        BY <1>2, <4>1
      <4> QED
        BY <2>4, <4>2
    <3> QED
      BY <2>4, <3>1, <3>2, SplitBegins
  <2>8. s \in Seq(C) => b = <<t>>
    BY <2>4, SplitPlain
  <2>9. ASSUME NEW i \in 1 .. Len(s), s[i] = NL PROVE Len(b) >= 2
    <3>1. p + i \in 1 .. Len(t) /\ t[p + i] = NL
      BY <1>2, <2>3, <2>4, <2>9
    <3> QED
      BY <2>4, <3>1, SplitTwo
  <2> HIDE DEF b
  <2>a. SplicedTo(C, ls, b, l, w)
    <3>1. w = SubSeq(ls, 1, l - 1) \o b \o SubSeq(ls, l + 1, Len(ls)) /\ l \in 1 .. Len(ls)
      OBVIOUS
    <3> HIDE DEF ls, w
    <3> QED
      BY ONLY <1>1, <2>5, <3>1, Spliced
  <2>10. /\ w \in LinesOf(C) /\ Len(w) = Len(ls) + Len(b) - 1
         /\ \A i \in 1 .. l - 1 : w[i] = ls[i]
         /\ w[l] = b[1]
         /\ \A i \in l + 1 .. Len(ls) : w[i + Len(b) - 1] = ls[i]
    <3> HIDE DEF w
    <3> QED
      BY <2>a DEF SplicedTo
  <2> HIDE DEF w
  <2>11. f \in Points /\ OnLines(f, Len(w)) /\ DOMAIN f = DOMAIN d.pts
    <3>1. Len(w) \in Nat /\ Len(w) >= Len(d.lines) + Len(Split(s)) - 1
      <4>1. Len(Split(s)) \in Nat
        BY SplitType, LinesAre
      <4> QED
        BY <1>2, <2>5, <2>6, <2>10, <4>1
    <3>2. l \in Nat
      BY <1>2
    <3> HIDE DEF f, ls
    <3> QED
      BY <3>1, <3>2, InsertPoints DEF f
  <2> HIDE DEF f, r
  <2>12. e \in Docs(C) /\ e.lines = w /\ e.undo = r.undo /\ e.pts = f
    <3>1. r.undo \in Undos
      BY <2>1, DocIs
    <3> QED
      BY <2>2, <2>10, <2>11, <3>1, DocMade
  <2>13. Inserted(C, d, e, l, p)
    <3>1. Steps(d, e)
      BY <2>12 DEF Steps, r
    <3>2. Len(w) >= Len(ls)
      BY <1>2, <2>5, <2>10
    <3> QED
      BY <2>7, <2>10, <2>11, <2>12, <3>1, <3>2 DEF Inserted
  <2>14. ASSUME s \in Seq(C) PROVE InsertedIn(d, e, l, p, Len(s))
    <3>1. Len(b) = 1 /\ b[1] = t
      BY <2>8, <2>14
    <3>2. Len(w) = Len(ls) /\ w[l] = t
      BY <1>2, <2>10, <3>1
    <3>3. ASSUME NEW i \in 1 .. Len(ls), i # l PROVE w[i] = ls[i]
      <4>1. CASE i < l
        <5>1. i \in 1 .. l - 1
          BY <1>2, <4>1
        <5> QED
          BY <2>10, <5>1
      <4>2. CASE ~(i < l)
        <5>1. i \in l + 1 .. Len(ls) /\ i + Len(b) - 1 = i
          BY <1>2, <3>1, <3>3, <4>2
        <5> QED
          BY <2>10, <5>1
      <4> QED
        BY <4>1, <4>2
    <3>4. Len(w[l]) = Len(ln) + Len(s)
      BY <2>4, <3>2
    <3> QED
      BY <2>3, <2>12, <3>2, <3>3, <3>4 DEF InsertedIn
  <2>15. ASSUME NEW i \in 1 .. Len(s), s[i] = NL PROVE Len(e.lines) > Len(d.lines)
    <3>1. Len(b) >= 2
      BY <2>9, <2>15
    <3> QED
      BY <1>2, <2>5, <2>10, <2>12, <3>1
  <2> QED
    BY <2>13, <2>14, <2>15
<1> QED
  BY <1>3, <1>4
-----------------------------------------------------------------------------
(* A sequence without its i-th element.                                    *)
LEMMA RemovedAt ==
  ASSUME NEW S, NEW s \in Seq(S), NEW i \in 1 .. Len(s)
  PROVE  /\ RemoveAt(s, i) \in Seq(S) /\ Len(RemoveAt(s, i)) = Len(s) - 1
         /\ \A j \in 1 .. i - 1 : RemoveAt(s, i)[j] = s[j]
<1> DEFINE p == SubSeq(s, 1, i - 1)
           q == SubSeq(s, i + 1, Len(s))
<1>1. Len(s) \in Nat /\ i \in Nat /\ i <= Len(s) /\ i - 1 \in Nat /\ i + 1 \in Nat \ {0}
  OBVIOUS
<1>2. p \in Seq(S) /\ Len(p) = i - 1 /\ \A j \in 1 .. i - 1 : p[j] = s[j]
  BY <1>1, SubSeqOfSeq
<1>3. q \in Seq(S) /\ Len(q) = Len(s) - i
  <2>1. q \in Seq(S) /\ Len(q) = IF i + 1 <= Len(s) THEN Len(s) - (i + 1) + 1 ELSE 0
    BY <1>1, SubSeqOfSeq
  <2> QED
    BY <1>1, <2>1
<1>4. RemoveAt(s, i) = p \o q
  BY DEF RemoveAt
<1> HIDE DEF p, q
<1>5. /\ p \o q \in Seq(S) /\ Len(p \o q) = Len(p) + Len(q)
      /\ \A j \in 1 .. Len(p) + Len(q) : (p \o q)[j] = IF j <= Len(p) THEN p[j] ELSE q[j - Len(p)]
  BY <1>2, <1>3, ConcatProperties
<1>6. Len(p \o q) = Len(s) - 1
  BY <1>1, <1>2, <1>3, <1>5
<1>7. ASSUME NEW j \in 1 .. i - 1 PROVE (p \o q)[j] = s[j]
  <2>1. j \in 1 .. Len(p) + Len(q) /\ j <= Len(p)
    BY <1>1, <1>2, <1>3
  <2> QED
    BY <1>2, <1>5, <2>1
<1> QED
  BY <1>4, <1>5, <1>6, <1>7

(* Where the deletion of a character moves a point.                        *)
LEMMA AfterDeleteIs ==
  ASSUME NEW C, NEW ls \in LinesOf(C), NEW l \in 1 .. Len(ls), NEW p \in Nat,
         p < Len(ls[l]) \/ l < Len(ls), NEW pt \in [line : Nat, pos : Int], pt.line \in 1 .. Len(ls), NEW q,
         q = AfterDelete(pt, ls, l, p)
  PROVE  /\ q \in [line : Nat, pos : Int]
         /\ q.line \in 1 .. (IF p < Len(ls[l]) THEN Len(ls) ELSE Len(ls) - 1)
         /\ pt.pos >= 0 => q.pos >= 0
<1>1. Len(ls) \in Nat /\ Len(ls[l]) \in Nat /\ l \in Nat /\ pt.line \in Nat /\ pt.pos \in Int
  BY LinesAre
<1>2. CASE p < Len(ls[l])
  <2>1. q = IF pt.line = l /\ pt.pos > p THEN [pt EXCEPT !.pos = pt.pos - 1] ELSE pt
    BY <1>2 DEF AfterDelete
  <2>2. CASE pt.line = l /\ pt.pos > p
    <3>1. q = [pt EXCEPT !.pos = pt.pos - 1]
      BY <2>1, <2>2
    <3>2. pt.pos - 1 \in Int /\ pt.pos - 1 >= 0
      BY <1>1, <2>2
    <3>3. q \in [line : Nat, pos : Int] /\ q.line = pt.line /\ q.pos = pt.pos - 1
      BY <1>1, <3>1, <3>2
    <3> QED
      BY <1>2, <3>2, <3>3
  <2>3. CASE ~(pt.line = l /\ pt.pos > p)
    BY <1>2, <2>1, <2>3
  <2> QED
    BY <2>2, <2>3
<1>3. CASE ~(p < Len(ls[l]))
  <2>1. q = IF pt.line = l + 1 THEN Point(l, pt.pos + Len(ls[l]))
            ELSE IF pt.line > l THEN [pt EXCEPT !.line = pt.line - 1] ELSE pt
    BY <1>3 DEF AfterDelete
  <2>2. l < Len(ls)
    BY <1>3
  <2>3. CASE pt.line = l + 1
    <3>1. q = Point(l, pt.pos + Len(ls[l]))
      BY <2>1, <2>3
    <3>2. pt.pos + Len(ls[l]) \in Int /\ (pt.pos >= 0 => pt.pos + Len(ls[l]) >= 0)
      BY <1>1
    <3>3. q \in [line : Nat, pos : Int] /\ q.line = l /\ q.pos = pt.pos + Len(ls[l])
      BY <1>1, <3>1, <3>2 DEF Point
    <3>4. l \in 1 .. Len(ls) - 1
      BY <1>1, <2>2
    <3> QED
      BY <1>3, <3>2, <3>3, <3>4
  <2>4. CASE pt.line # l + 1 /\ pt.line > l
    <3>1. q = [pt EXCEPT !.line = pt.line - 1]
      BY <2>1, <2>4
    <3>2. pt.line - 1 \in Nat /\ pt.line - 1 \in 1 .. Len(ls) - 1
      BY <1>1, <2>4
    <3>3. q \in [line : Nat, pos : Int] /\ q.line = pt.line - 1 /\ q.pos = pt.pos
      BY <3>1, <3>2
    <3> QED
      BY <1>3, <3>2, <3>3
  <2>5. CASE pt.line # l + 1 /\ ~(pt.line > l)
    <3>1. q = pt /\ pt.line \in 1 .. Len(ls) - 1
      BY <1>1, <2>1, <2>2, <2>5
    <3> QED
      BY <1>3, <3>1
  <2> QED
    BY <2>3, <2>4, <2>5
<1> QED
  BY <1>2, <1>3

(* Document e is d with characters deleted at (l, p): the position is      *)
(* still there.                                                            *)
Deleted(C, d, e, l, p) ==
  /\ e \in Docs(C) /\ e.undo = d.undo /\ DOMAIN e.pts = DOMAIN d.pts
  /\ l <= Len(e.lines) /\ p <= Len(e.lines[l])

(* The n characters deleted were in line l.                                *)
DeletedIn(d, e, l, n) ==
  /\ Len(e.lines) = Len(d.lines)
  /\ \A i \in 1 .. Len(d.lines) : i # l => e.lines[i] = d.lines[i]
  /\ Len(e.lines[l]) = Len(d.lines[l]) - n

(* One character, or line end, deleted.                                    *)
LEMMA DeleteOneDoc ==
  ASSUME NEW C, NEW d \in Docs(C), NEW l \in 1 .. Len(d.lines), NEW p \in Nat, p <= Len(d.lines[l]),
         NEW e, e = DeleteOne(d, l, p)
  PROVE  Deleted(C, d, e, l, p) /\ (p < Len(d.lines[l]) => DeletedIn(d, e, l, 1))
<1> DEFINE ls == d.lines
           ln == ls[l]
<1>1. ls \in LinesOf(C) /\ d.pts \in Points /\ d.undo \in Undos /\ OnLines(d.pts, Len(ls))
  BY DocIs
<1>2. ls \in Seq(Seq(C)) /\ Len(ls) \in Nat \ {0} /\ ln \in Seq(C) /\ Len(ln) \in Nat /\ DOMAIN ls = 1 .. Len(ls)
  BY <1>1, LinesAre
<1>3. CASE AtEndOfText(ls, l, p)
  <2>1. e = d /\ p = Len(ln)
    BY <1>3 DEF DeleteOne, AtEndOfText
  <2>2. ~(p < Len(ln))
    BY <1>2, <2>1
  <2> QED
    BY <1>2, <2>1, <2>2 DEF Deleted
<1>4. CASE ~AtEndOfText(ls, l, p)
  <2> DEFINE w == IF p < Len(ln) THEN [ls EXCEPT ![l] = RemoveAt(ln, p + 1)]
                  ELSE RemoveAt([ls EXCEPT ![l] = ln \o ls[l + 1]], l + 1)
             f == [x \in DOMAIN d.pts |-> AfterDelete(d.pts[x], ls, l, p)]
             n == IF p < Len(ln) THEN Len(ls) ELSE Len(ls) - 1
  <2>1. e = [lines |-> w, pts |-> f, undo |-> d.undo]
    <3>0. w = WithoutOne(ls, l, p)
      BY DEF WithoutOne
    <3>1. e = [d EXCEPT !.lines = w, !.pts = f]
      BY <1>4, <3>0 DEF DeleteOne, Moved
    <3> HIDE DEF w, f
    <3> QED
      BY <3>1, DocChanged
  <2>2. p < Len(ln) \/ l < Len(ls)
    <3>1. p # Len(ln) \/ l # Len(ls)
      BY <1>4 DEF AtEndOfText
    <3> QED
      BY <1>2, <3>1
  <2>3. w \in LinesOf(C) /\ Len(w) = n /\ l <= n /\ w[l] \in Seq(C) /\ p <= Len(w[l])
        /\ (p < Len(ln) => Len(w[l]) = Len(ln) - 1 /\ \A i \in 1 .. Len(ls) : i # l => w[i] = ls[i])
    <3>1. CASE p < Len(ln)
      <4>1. p + 1 \in 1 .. Len(ln)
        BY <1>2, <3>1
      <4> DEFINE x == RemoveAt(ln, p + 1)
      <4>2. x \in Seq(C) /\ Len(x) = Len(ln) - 1
        <5> HIDE DEF ln
        <5> QED
          BY <1>2, <4>1, RemovedAt
      <4> HIDE DEF x
      <4>3. w = [ls EXCEPT ![l] = x] /\ l \in 1 .. Len(ls)
        BY <3>1 DEF x
      <4> HIDE DEF w, ls
      <4>4. w \in Seq(Seq(C)) /\ Len(w) = Len(ls)
        BY ONLY <1>2, <4>2, <4>3, ExceptSeq
      <4>5. w[l] = x /\ \A i \in 1 .. Len(ls) : i # l => w[i] = ls[i]
        BY ONLY <1>2, <4>3
      <4>6. w # <<>>
        BY <1>2, <4>4
      <4>7. n = Len(ls) /\ l <= n /\ p <= Len(ln) - 1
        <5>1. n = Len(ls)
          BY <3>1
        <5> HIDE DEF n, ls, ln
        <5> QED
          BY <1>2, <3>1, <4>3, <5>1
      <4> QED
        BY <4>2, <4>4, <4>5, <4>6, <4>7 DEF LinesOf
    <3>2. CASE ~(p < Len(ln))
      <4>1. l + 1 \in 1 .. Len(ls) /\ p = Len(ln) /\ l < Len(ls) /\ l \in Nat /\ 1 <= l
        BY <1>2, <2>2, <3>2
      <4> DEFINE x == ln \o ls[l + 1]
                 v == [ls EXCEPT ![l] = x]
      <4>2. ls[l + 1] \in Seq(C)
        BY <1>2, <4>1
      <4>3. x \in Seq(C) /\ Len(x) = Len(ln) + Len(ls[l + 1]) /\ Len(ls[l + 1]) \in Nat
        BY <1>2, <4>2, ConcatType
      <4> HIDE DEF x
      <4>4. v \in Seq(Seq(C)) /\ Len(v) = Len(ls) /\ v[l] = x
        BY <1>2, <4>3, ExceptSeq
      <4>5. w = RemoveAt(v, l + 1)
        BY <3>2 DEF x
      <4> HIDE DEF v, w
      <4>6. l + 1 \in 1 .. Len(v)
        BY <4>1, <4>4
      <4>7. w \in Seq(Seq(C)) /\ Len(w) = Len(v) - 1
        BY ONLY <4>4, <4>5, <4>6, RemovedAt
      <4>8. w[l] = x
        <5>1. \A j \in 1 .. (l + 1) - 1 : RemoveAt(v, l + 1)[j] = v[j]
          BY ONLY <4>4, <4>6, RemovedAt
        <5>2. l \in 1 .. (l + 1) - 1
          BY ONLY <4>1
        <5> QED
          BY <4>4, <4>5, <5>1, <5>2
      <4>9. n = Len(ls) - 1 /\ l <= n /\ n # 0
        <5>1. n = Len(ls) - 1
          BY <3>2
        <5>2. Len(ls) \in Nat
          BY <1>2
        <5> HIDE DEF n, ls, ln
        <5> QED
          BY ONLY <4>1, <5>1, <5>2
      <4>10. w # <<>>
        BY <4>4, <4>7, <4>9
      <4>11. p <= Len(x)
        <5> HIDE DEF ln
        <5> QED
          BY ONLY <1>2, <4>1, <4>3
      <4> QED
        BY <3>2, <4>3, <4>4, <4>7, <4>8, <4>9, <4>10, <4>11 DEF LinesOf
    <3> QED
      BY <3>1, <3>2
  <2>4. f \in Points /\ OnLines(f, n) /\ DOMAIN f = DOMAIN d.pts
    <3>1. DOMAIN f = DOMAIN d.pts /\ DOMAIN f \subseteq {MARK, START, END}
      BY <1>1, PointsAre
    <3>2. ASSUME NEW x \in DOMAIN f
          PROVE  f[x] \in [line : Nat, pos : Int] /\ f[x].line \in 1 .. n /\ (x = MARK => f[x].pos >= 0)
      <4>1. d.pts[x] \in [line : Nat, pos : Int] /\ d.pts[x].line \in 1 .. Len(ls)
            /\ (x = MARK => d.pts[x].pos >= 0)
        BY <1>1, <3>1, PointIs DEF OnLines
      <4>2. f[x] = AfterDelete(d.pts[x], ls, l, p)
        BY <3>1
      <4> HIDE DEF f, ls
      <4>3. /\ f[x] \in [line : Nat, pos : Int]
            /\ f[x].line \in 1 .. (IF p < Len(ls[l]) THEN Len(ls) ELSE Len(ls) - 1)
            /\ d.pts[x].pos >= 0 => f[x].pos >= 0
        BY <1>1, <2>2, <4>1, <4>2, AfterDeleteIs DEF ls
      <4> QED
        BY <4>1, <4>3
    <3> HIDE DEF f, n
    <3>3. f \in [DOMAIN f -> [line : Nat, pos : Int]]
      <4>1. f = [x \in DOMAIN f |-> f[x]]
        BY DEF f
      <4> QED
        BY <3>2, <4>1
    <3>4. f \in Points
      BY <3>1, <3>3, PointsAre
    <3> QED
      BY <3>1, <3>2, <3>4 DEF OnLines
  <2> HIDE DEF w, f, n
  <2>5. e \in Docs(C) /\ e.lines = w /\ e.undo = d.undo /\ e.pts = f
    BY <1>1, <2>1, <2>3, <2>4, DocMade
  <2>6. Deleted(C, d, e, l, p)
    BY <2>3, <2>4, <2>5 DEF Deleted
  <2>7. p < Len(ln) => DeletedIn(d, e, l, 1)
    BY <2>3, <2>5 DEF DeletedIn, n
  <2> QED
    BY <2>6, <2>7
<1> QED
  BY <1>3, <1>4

(* Document e is b after m deletions at (l, p).                            *)
DeletesTo(S, b, m, l, p, e) ==
  \E g \in [0 .. m -> S] : g[0] = b /\ (\A k \in 1 .. m : g[k] = DeleteOne(g[k - 1], l, p)) /\ e = g[m]

(* The deletions of delete_stream(), one after the other.                  *)
LEMMA DeleteTrace ==
  ASSUME NEW S, NEW d, NEW l, NEW p, NEW n \in Int, add_undo_step(d) \in S,
         ~(n = 0 \/ p > Len(d.lines[l]) \/ AtEndOfText(d.lines, l, p)),
         NEW m \in Nat, 1 .. n = 1 .. m, \A x \in S : DeleteOne(x, l, p) \in S
  PROVE  DeletesTo(S, add_undo_step(d), m, l, p, delete_stream(d, l, p, n))
<1> DEFINE b == add_undo_step(d)
           seq == [i \in 1 .. n |-> i]
           G == [z \in S \X (1 .. m) |-> DeleteOne(z[1], l, p)]
           IsFold(f) == f = [t \in SUBSET DOMAIN seq |->
                               IF t = {} THEN b ELSE LET k == Max(t) IN DeleteOne(f[t \ {k}], l, p)]
           c == CHOOSE f : IsFold(f)
<1>a. delete_stream(d, l, p, n) = FoldLeft(LAMBDA x, i : DeleteOne(x, l, p), b, seq)
  BY DEF delete_stream
<1>b. FoldLeft(LAMBDA x, i : DeleteOne(x, l, p), b, seq) = c[DOMAIN seq]
  BY ONLY DEF FoldLeft, MapThenFoldSet, c, IsFold
<1>1. delete_stream(d, l, p, n) = c[DOMAIN seq]
  BY <1>a, <1>b
<1>c. DOMAIN seq = 1 .. m /\ b \in S
  OBVIOUS
<1> HIDE DEF b, seq
<1>2. G \in [S \X (1 .. m) -> S] /\ \A x \in S, k \in 1 .. m : G[<<x, k>>] = DeleteOne(x, l, p)
  OBVIOUS
<1> HIDE DEF G
<1>3. \A t \in SUBSET (1 .. m) : t # {} => Max(t) \in 1 .. m
  <2> SUFFICES ASSUME NEW t \in SUBSET (1 .. m), t # {} PROVE Max(t) \in 1 .. m
    OBVIOUS
  <2>1. t \subseteq Int /\ m \in Int /\ \A y \in t : y <= m
    OBVIOUS
  <2> QED
    BY <2>1, MaxIs
<1>4. IsFold(c)
  <2>1. PICK f \in [SUBSET (1 .. m) -> S] : FoldsBy(f, b, m, G)
    BY <1>2, <1>c, FoldExists
  <2>2. \A t \in SUBSET (1 .. m) : f[t] = IF t = {} THEN b ELSE G[<<f[t \ {Max(t)}], Max(t)>>]
    BY ONLY <2>1 DEF FoldsBy
  <2>3. \A t \in SUBSET (1 .. m) : t # {} => G[<<f[t \ {Max(t)}], Max(t)>>] = DeleteOne(f[t \ {Max(t)}], l, p)
    BY <1>2, <1>3
  <2>4. f = [t \in SUBSET (1 .. m) |-> f[t]]
    OBVIOUS
  <2>5. f = [t \in SUBSET (1 .. m) |-> IF t = {} THEN b ELSE DeleteOne(f[t \ {Max(t)}], l, p)]
    BY <2>2, <2>3, <2>4
  <2>6. IsFold(f)
    BY <1>c, <2>5
  <2> HIDE DEF IsFold
  <2> QED
    BY ONLY <2>6 DEF c
<1> HIDE DEF c
<1>5. FoldsIn(S, c, b, m, G)
  <2>1. \A t \in SUBSET (1 .. m) : c[t] = IF t = {} THEN b ELSE DeleteOne(c[t \ {Max(t)}], l, p)
    BY <1>c, <1>4
  <2> HIDE DEF IsFold
  <2>2. {} \in SUBSET (1 .. m)
    OBVIOUS
  <2> QED
    BY <1>2, <1>3, <2>1, <2>2 DEF FoldsIn
<1>6. RunsTo(S, c[1 .. m], b, m, G)
  <2> HIDE DEF IsFold
  <2> QED
    BY <1>2, <1>5, <1>c, FoldTrace
<1>7. PICK g \in [0 .. m -> S] : RunsBy(g, b, m, G) /\ c[1 .. m] = g[m]
  BY <1>6 DEF RunsTo
<1>8. g[0] = b /\ \A k \in 1 .. m : g[k] = DeleteOne(g[k - 1], l, p)
  <2>1. \A k \in 1 .. m : k - 1 \in 0 .. m
    OBVIOUS
  <2> QED
    BY <1>2, <1>7, <2>1 DEF RunsBy
<1> QED
  BY <1>1, <1>7, <1>8, <1>c DEF DeletesTo, b

(* delete_stream().                                                        *)
LEMMA DeleteDoc ==
  ASSUME NEW C, NEW d \in Docs(C), NEW l \in 1 .. Len(d.lines), NEW p \in Nat, NEW n \in Int,
         NEW e, e = delete_stream(d, l, p, n)
  PROVE  /\ e \in Docs(C) /\ Steps(d, e) /\ DOMAIN e.pts = DOMAIN d.pts /\ l <= Len(e.lines)
         /\ p <= Len(d.lines[l]) => p <= Len(e.lines[l])
         /\ p + n <= Len(d.lines[l]) =>
              Len(e.lines) = Len(d.lines) /\ \A i \in 1 .. Len(d.lines) : i # l => e.lines[i] = d.lines[i]
<1>1. Len(d.lines) \in Nat /\ Len(d.lines[l]) \in Nat
  BY DocIs, LinesAre
<1>2. CASE n = 0 \/ p > Len(d.lines[l]) \/ AtEndOfText(d.lines, l, p)
  <2>1. e = d
    BY <1>2 DEF delete_stream
  <2> QED
    BY <1>1, <2>1 DEF Steps
<1>3. CASE ~(n = 0 \/ p > Len(d.lines[l]) \/ AtEndOfText(d.lines, l, p))
  <2> DEFINE r == add_undo_step(d)
             m == IF n > 0 THEN n ELSE 0
             S == {x \in Docs(C) : Deleted(C, r, x, l, p)}
  <2>1. r \in Docs(C) /\ r.lines = d.lines /\ r.pts = d.pts
    BY StepDoc
  <2>2. p <= Len(d.lines[l]) /\ m \in Nat /\ 1 .. n = 1 .. m
    BY <1>1, <1>3
  <2> HIDE DEF r, m
  <2>4. r \in S
    BY <1>1, <2>1, <2>2 DEF Deleted
  <2>5. ASSUME NEW x \in S
        PROVE  DeleteOne(x, l, p) \in S /\ (p < Len(x.lines[l]) => DeletedIn(x, DeleteOne(x, l, p), l, 1))
    <3>1. /\ x \in Docs(C) /\ x.undo = r.undo /\ DOMAIN x.pts = DOMAIN r.pts
          /\ l <= Len(x.lines) /\ p <= Len(x.lines[l])
      BY DEF Deleted
    <3>2. l \in 1 .. Len(x.lines)
      <4>1. Len(x.lines) \in Nat
        BY <3>1, DocIs, LinesAre
      <4> QED
        BY <1>1, <3>1, <4>1
    <3> DEFINE y == DeleteOne(x, l, p)
    <3>3. Deleted(C, x, y, l, p) /\ (p < Len(x.lines[l]) => DeletedIn(x, y, l, 1))
      BY <3>1, <3>2, DeleteOneDoc
    <3> HIDE DEF y
    <3>4. Deleted(C, r, y, l, p) /\ y \in Docs(C)
      BY <3>1, <3>3 DEF Deleted
    <3> QED
      BY <3>3, <3>4 DEF y
  <2>6. PICK g \in [0 .. m -> S] :
          /\ g[0] = r /\ \A k \in 1 .. m : g[k] = DeleteOne(g[k - 1], l, p)
          /\ e = g[m]
    <3> HIDE DEF S
    <3>1. r \in S /\ r = add_undo_step(d)
      BY <2>4 DEF r
    <3>2. \A x \in S : DeleteOne(x, l, p) \in S
      BY <2>5
    <3>3. DeletesTo(S, r, m, l, p, e)
      BY ONLY <1>3, <2>2, <3>1, <3>2, DeleteTrace, e = delete_stream(d, l, p, n), n \in Int
    <3> QED
      BY <3>3 DEF DeletesTo
  <2>7. e \in S
    BY <2>2, <2>6
  <2>8. e \in Docs(C) /\ Steps(d, e) /\ DOMAIN e.pts = DOMAIN d.pts /\ l <= Len(e.lines) /\ p <= Len(e.lines[l])
    BY <2>1, <2>7 DEF Deleted, Steps, r
  <2>9. ASSUME p + n <= Len(d.lines[l])
        PROVE  Len(e.lines) = Len(d.lines) /\ \A i \in 1 .. Len(d.lines) : i # l => e.lines[i] = d.lines[i]
    <3> DEFINE T == {k \in 0 .. m : DeletedIn(r, g[k], l, k)}
    <3>1. 0 \in T
      BY <1>1, <2>1, <2>2, <2>6 DEF DeletedIn
    <3>2. ASSUME NEW k \in 1 .. m, k - 1 \in T PROVE k \in T
      <4>1. k - 1 \in 0 .. m /\ k \in 0 .. m /\ g[k] = DeleteOne(g[k - 1], l, p) /\ g[k - 1] \in S
        BY <2>2, <2>6
      <4>2. DeletedIn(r, g[k - 1], l, k - 1)
        BY <3>2
      <4>3. Len(g[k - 1].lines[l]) = Len(d.lines[l]) - (k - 1)
        BY <2>1, <4>2 DEF DeletedIn
      <4>4. p < Len(g[k - 1].lines[l])
        <5>1. k <= n /\ n \in Nat
          BY <2>2 DEF m
        <5> QED
          BY <1>1, <2>9, <4>3, <5>1
      <4>5. DeletedIn(g[k - 1], g[k], l, 1)
        BY <2>5, <4>1, <4>4
      <4>6. DeletedIn(r, g[k], l, k)
        <5>1. Len(g[k].lines) = Len(r.lines)
          BY <4>2, <4>5 DEF DeletedIn
        <5>2. \A i \in 1 .. Len(r.lines) : i # l => g[k].lines[i] = r.lines[i]
          BY <4>2, <4>5 DEF DeletedIn
        <5>3. Len(g[k].lines[l]) = Len(r.lines[l]) - k
          <6>1. Len(g[k].lines[l]) = Len(g[k - 1].lines[l]) - 1
            BY <4>5 DEF DeletedIn
          <6> QED
            BY <1>1, <2>1, <4>3, <6>1
        <5> QED
          BY <5>1, <5>2, <5>3 DEF DeletedIn
      <4> QED
        BY <4>1, <4>6
    <3> HIDE DEF T
    <3>3. \A k \in 0 .. m : k \in T
      BY ONLY <2>2, <3>1, <3>2, UpTo
    <3>4. m \in T
      BY <2>2, <3>3
    <3>5. DeletedIn(r, e, l, m)
      BY <2>6, <3>4 DEF T
    <3> QED
      BY <2>1, <3>5 DEF DeletedIn
  <2> QED
    BY <2>8, <2>9
<1> QED
  BY <1>2, <1>3
-----------------------------------------------------------------------------
(* calc_pos() answers with a position of the line.                         *)
LEMMA PosIs ==
  ASSUME NEW C, NEW ln \in Seq(C), NEW col, NEW tab
  PROVE  calc_pos(ln, col, tab) \in 0 .. Len(ln)
<1> DEFINE T == {q \in 0 .. Len(ln) - 1 : calc_width(ln, q, tab) + char_width(ln[q + 1]) > col} \cup {Len(ln)}
<1>1. Len(ln) \in Nat
  OBVIOUS
<1>2. T \subseteq Nat /\ T # {} /\ T \subseteq 0 .. Len(ln)
  BY <1>1
<1>3. calc_pos(ln, col, tab) = Min(T)
  BY DEF calc_pos
<1> HIDE DEF T
<1>4. Min(T) \in T
  BY <1>2, MinIs
<1> QED
  BY <1>2, <1>3, <1>4

(* So does the search of PasteVert for the place of a row.                 *)
LEMMA RowPlaceIs ==
  ASSUME NEW C, NEW ln \in Seq(C), NEW x
  PROVE  RowPlace(ln, x) \in 0 .. Len(ln)
<1> DEFINE T == {q \in 0 .. Len(ln) - 1 : calc_width(ln, q, TabSize) >= x} \cup {Len(ln)}
<1>1. Len(ln) \in Nat
  OBVIOUS
<1>2. T \subseteq Nat /\ T # {} /\ T \subseteq 0 .. Len(ln)
  BY <1>1
<1>3. RowPlace(ln, x) = Min(T)
  BY DEF RowPlace
<1> HIDE DEF T
<1>4. Min(T) \in T
  BY <1>2, MinIs
<1> QED
  BY <1>2, <1>3, <1>4

(* The column after a character.                                           *)
LEMMA NextIs ==
  ASSUME NEW w \in Nat, NEW c
  PROVE  NextColumn(w, c, TabSize) \in Nat
<1>1. char_width(c) \in Nat
  BY DEF char_width
<1>2. TabStop(w, TabSize) \in Nat
  <2>1. TabSize \in Nat /\ TabSize > 0
    BY TabAssumption
  <2>2. w % TabSize \in 0 .. TabSize - 1
    BY <2>1
  <2> QED
    BY <2>1, <2>2 DEF TabStop
<1> QED
  BY <1>1, <1>2 DEF NextColumn

(* The smaller of two numbers, and the greater.                            *)
LEMMA OfTwo ==
  ASSUME NEW x \in Int, NEW y \in Int
  PROVE  /\ x >= 0 /\ y >= 0 => Min({x, y}) \in {x, y} /\ Min({x, y}) <= x /\ Min({x, y}) <= y
         /\ Max({x, y}) \in {x, y} /\ Max({x, y}) >= x /\ Max({x, y}) >= y
<1>1. ASSUME x >= 0, y >= 0 PROVE Min({x, y}) \in {x, y} /\ Min({x, y}) <= x /\ Min({x, y}) <= y
  <2>1. {x, y} \subseteq Nat /\ {x, y} # {}
    BY <1>1
  <2> QED
    BY <2>1, MinIs
<1>2. Max({x, y}) \in {x, y} /\ Max({x, y}) >= x /\ Max({x, y}) >= y
  <2> DEFINE b == IF x <= y THEN y ELSE x
  <2>1. {x, y} \subseteq Int /\ {x, y} # {} /\ b \in Int /\ \A z \in {x, y} : z <= b
    OBVIOUS
  <2>2. Max({x, y}) \in {x, y} /\ \A z \in {x, y} : z <= Max({x, y})
    BY ONLY <2>1, MaxIs
  <2> QED
    BY <2>2
<1> QED
  BY <1>1, <1>2

(* calc_width() answers with a column.                                     *)
LEMMA WidthIs ==
  ASSUME NEW C, NEW ln \in Seq(C), NEW q \in Nat
  PROVE  calc_width(ln, q, TabSize) \in Nat
<1> DEFINE seq == SubSeq(ln, 1, Min({q, Len(ln)}))
           m == Len(seq)
           G == [z \in Nat \X (1 .. m) |-> NextColumn(z[1], seq[z[2]], TabSize)]
           IsFold(f) == f = [t \in SUBSET DOMAIN seq |->
                               IF t = {} THEN 0 ELSE LET k == Max(t) IN NextColumn(f[t \ {k}], seq[k], TabSize)]
           c == CHOOSE f : IsFold(f)
           beyond == Max({0, q - Len(ln)})
<1>1. Len(ln) \in Nat
  OBVIOUS
<1>2. Min({q, Len(ln)}) \in Nat /\ Min({q, Len(ln)}) <= Len(ln)
  <2>1. q \in Int /\ Len(ln) \in Int /\ q >= 0 /\ Len(ln) >= 0
    BY <1>1
  <2>2. Min({q, Len(ln)}) \in {q, Len(ln)} /\ Min({q, Len(ln)}) <= Len(ln)
    BY ONLY <2>1, OfTwo
  <2> QED
    BY <1>1, <2>2
<1>3. seq \in Seq(C)
  <2> DEFINE u == Min({q, Len(ln)})
  <2>1. u \in Nat /\ u <= Len(ln)
    BY <1>2
  <2> HIDE DEF u
  <2>2. SubSeq(ln, 1, u) \in Seq(C)
    BY <2>1, SubSeqOfSeq
  <2> QED
    BY <2>2 DEF u
<1>4. beyond \in Nat
  <2>1. 0 \in Int /\ q - Len(ln) \in Int
    BY <1>1
  <2>2. Max({0, q - Len(ln)}) \in {0, q - Len(ln)} /\ Max({0, q - Len(ln)}) >= 0
    BY <2>1, OfTwo
  <2> QED
    BY <2>1, <2>2
<1>5. FoldLeft(LAMBDA w, ch : NextColumn(w, ch, TabSize), 0, seq) = c[DOMAIN seq]
  BY ONLY DEF FoldLeft, MapThenFoldSet, c, IsFold
<1>6. calc_width(ln, q, TabSize) = c[DOMAIN seq] + beyond
  BY <1>5 DEF calc_width
<1> HIDE DEF seq, beyond
<1>7. m \in Nat /\ DOMAIN seq = 1 .. m
  BY <1>3
<1> HIDE DEF m
<1>8. G \in [Nat \X (1 .. m) -> Nat] /\ \A x \in Nat, k \in 1 .. m : G[<<x, k>>] = NextColumn(x, seq[k], TabSize)
  BY NextIs
<1> HIDE DEF G
<1>9. \A t \in SUBSET (1 .. m) : t # {} => Max(t) \in 1 .. m
  <2> SUFFICES ASSUME NEW t \in SUBSET (1 .. m), t # {} PROVE Max(t) \in 1 .. m
    OBVIOUS
  <2>1. t \subseteq Int /\ m \in Int /\ \A y \in t : y <= m
    BY <1>7
  <2> QED
    BY <2>1, MaxIs
<1>10. IsFold(c)
  <2>1. PICK f \in [SUBSET (1 .. m) -> Nat] : FoldsBy(f, 0, m, G)
    BY <1>7, <1>8, FoldExists
  <2>2. \A t \in SUBSET (1 .. m) : f[t] = IF t = {} THEN 0 ELSE G[<<f[t \ {Max(t)}], Max(t)>>]
    BY ONLY <2>1 DEF FoldsBy
  <2>3. \A t \in SUBSET (1 .. m) :
          t # {} => G[<<f[t \ {Max(t)}], Max(t)>>] = NextColumn(f[t \ {Max(t)}], seq[Max(t)], TabSize)
    BY <1>8, <1>9
  <2>4. f = [t \in SUBSET (1 .. m) |-> f[t]]
    OBVIOUS
  <2>5. f = [t \in SUBSET (1 .. m) |->
               IF t = {} THEN 0 ELSE NextColumn(f[t \ {Max(t)}], seq[Max(t)], TabSize)]
    BY <2>2, <2>3, <2>4
  <2>6. IsFold(f)
    BY <1>7, <2>5
  <2> HIDE DEF IsFold
  <2> QED
    BY ONLY <2>6 DEF c
<1> HIDE DEF c
<1>11. FoldsIn(Nat, c, 0, m, G)
  <2>1. \A t \in SUBSET (1 .. m) : c[t] = IF t = {} THEN 0 ELSE NextColumn(c[t \ {Max(t)}], seq[Max(t)], TabSize)
    BY <1>7, <1>10
  <2> HIDE DEF IsFold
  <2>2. {} \in SUBSET (1 .. m)
    OBVIOUS
  <2> QED
    BY <1>8, <1>9, <2>1, <2>2 DEF FoldsIn
<1>12. RunsTo(Nat, c[1 .. m], 0, m, G)
  <2> HIDE DEF IsFold
  <2>1. 0 \in Nat
    OBVIOUS
  <2> QED
    BY ONLY <1>7, <1>8, <1>11, <2>1, FoldTrace
<1>13. c[1 .. m] \in Nat
  <2>1. PICK g \in [0 .. m -> Nat] : c[1 .. m] = g[m]
    BY <1>12 DEF RunsTo
  <2> QED
    BY <1>7, <2>1
<1> QED
  BY <1>4, <1>6, <1>7, <1>13
-----------------------------------------------------------------------------
(* The characters a text may have in an encoding, and the clips that hold  *)
(* what their encoding can.                                                *)
Encodings == {"ASCII", "UTF8", "8BIT"}
Allowed(enc) ==
  IF enc = "ASCII" THEN Char \ (Utf8Char \cup Latin1Char)
  ELSE IF enc = "UTF8" THEN Char \ Latin1Char ELSE Char
SoundClips ==
  {c \in [cs : Seq(Char \cup {NL}), encoding : Encodings] : c.cs \in Seq(Allowed(c.encoding) \cup {NL})}

(* Spaces go with all encodings, and what is in ASCII too.                 *)
LEMMA AllowedIs ==
  ASSUME NEW enc \in Encodings
  PROVE  /\ Allowed(enc) \subseteq Char /\ NL \notin Allowed(enc) /\ Space \in Allowed(enc)
         /\ Allowed("ASCII") \subseteq Allowed(enc)
<1>1. Allowed(enc) \subseteq Char
  BY DEF Allowed
<1>2. NL \notin Allowed(enc)
  BY <1>1, CharAssumption
<1>3. Space \in Char /\ Space \notin Utf8Char /\ Space \notin Latin1Char
  BY CharAssumption
<1>4. Space \in Allowed(enc)
  BY <1>3 DEF Allowed
<1>5. Allowed("ASCII") \subseteq Allowed(enc)
  BY DEF Allowed
<1> QED
  BY <1>1, <1>2, <1>4, <1>5

(* What is detected holds the text.                                        *)
LEMMA DetectHolds ==
  ASSUME NEW s \in Seq(Char \cup {NL})
  PROVE  Detect(s) \in Encodings /\ s \in Seq(Allowed(Detect(s)) \cup {NL})
<1>1. Len(s) \in Nat /\ DOMAIN s = 1 .. Len(s) /\ s = [i \in 1 .. Len(s) |-> s[i]]
      /\ \A i \in 1 .. Len(s) : s[i] \in Char \cup {NL}
  OBVIOUS
<1>2. ASSUME NEW S, \A i \in 1 .. Len(s) : s[i] \in S PROVE s \in Seq(S)
  BY <1>1, <1>2
<1>3. CASE \E i \in DOMAIN s : s[i] \in Latin1Char
  <2>1. Detect(s) = "8BIT"
    BY <1>3 DEF Detect
  <2>2. Allowed("8BIT") = Char
    BY DEF Allowed
  <2> QED
    BY <2>1, <2>2 DEF Encodings
<1>4. CASE ~(\E i \in DOMAIN s : s[i] \in Latin1Char) /\ (\E i \in DOMAIN s : s[i] \in Utf8Char)
  <2>1. Detect(s) = "UTF8"
    BY <1>4 DEF Detect
  <2>2. Allowed("UTF8") = Char \ Latin1Char
    BY DEF Allowed
  <2>3. \A i \in 1 .. Len(s) : s[i] \in (Char \ Latin1Char) \cup {NL}
    BY <1>1, <1>4
  <2> QED
    BY <1>2, <2>1, <2>2, <2>3 DEF Encodings
<1>5. CASE ~(\E i \in DOMAIN s : s[i] \in Latin1Char) /\ ~(\E i \in DOMAIN s : s[i] \in Utf8Char)
  <2>1. Detect(s) = "ASCII"
    BY <1>5 DEF Detect
  <2>2. Allowed("ASCII") = Char \ (Utf8Char \cup Latin1Char)
    BY DEF Allowed
  <2>3. \A i \in 1 .. Len(s) : s[i] \in (Char \ (Utf8Char \cup Latin1Char)) \cup {NL}
    BY <1>1, <1>5
  <2> QED
    BY <1>2, <2>1, <2>2, <2>3 DEF Encodings
<1> QED
  BY <1>3, <1>4, <1>5

(* What set_stream_encoding() makes of a stream is sound.                  *)
LEMMA ClipIs ==
  ASSUME NEW s \in Seq(Char \cup {NL}), NEW source
  PROVE  Clip(s, source) \in SoundClips /\ Clip(s, source).cs = s
<1>1. Detect(s) \in Encodings /\ s \in Seq(Allowed(Detect(s)) \cup {NL})
  BY DetectHolds
<1> DEFINE enc == StreamEncoding(s, source)
<1>2. enc \in Encodings /\ s \in Seq(Allowed(enc) \cup {NL})
  <2>1. CASE source = "8BIT" /\ Detect(s) = "UTF8"
    <3>1. enc = "8BIT" /\ Allowed("8BIT") = Char
      BY <2>1 DEF StreamEncoding, Allowed
    <3> QED
      BY <3>1 DEF Encodings
  <2>2. CASE ~(source = "8BIT" /\ Detect(s) = "UTF8")
    <3>1. enc = Detect(s)
      BY <2>2 DEF StreamEncoding
    <3> QED
      BY <1>1, <3>1
  <2> QED
    BY <2>1, <2>2
<1>3. Clip(s, source) = [cs |-> s, encoding |-> enc]
  BY DEF Clip
<1> HIDE DEF enc
<1> QED
  BY <1>2, <1>3 DEF SoundClips

(* What a sound clip is made of.                                           *)
LEMMA SoundClipIs ==
  ASSUME NEW c \in SoundClips
  PROVE  /\ c.encoding \in Encodings /\ c.cs \in Seq(Allowed(c.encoding) \cup {NL})
         /\ [cs |-> <<>>, encoding |-> c.encoding] \in SoundClips
         /\ [c EXCEPT !.cs = <<>>] \in SoundClips
<1>1. c \in [cs : Seq(Char \cup {NL}), encoding : Encodings] /\ c.cs \in Seq(Allowed(c.encoding) \cup {NL})
  BY DEF SoundClips
<1>2. <<>> \in Seq(Char \cup {NL}) /\ <<>> \in Seq(Allowed(c.encoding) \cup {NL})
  OBVIOUS
<1>3. [cs |-> <<>>, encoding |-> c.encoding] \in SoundClips
  BY <1>1, <1>2 DEF SoundClips
<1>4. [c EXCEPT !.cs = <<>>] = [cs |-> <<>>, encoding |-> c.encoding]
  BY <1>1
<1> QED
  BY <1>1, <1>3, <1>4

(* More characters may be written in the lines of a document.              *)
LEMMA DocsWider ==
  ASSUME NEW C, NEW D, C \subseteq D, NEW d \in Docs(C)
  PROVE  d \in Docs(D)
<1>1. d.lines \in LinesOf(C) /\ d.pts \in Points /\ d.undo \in Undos /\ OnLines(d.pts, Len(d.lines))
      /\ d = [lines |-> d.lines, pts |-> d.pts, undo |-> d.undo]
  BY DocIs
<1>2. Seq(C) \subseteq Seq(D)
  OBVIOUS
<1>3. Seq(Seq(C)) \subseteq Seq(Seq(D))
  BY <1>2
<1>4. d.lines \in LinesOf(D)
  BY <1>1, <1>3 DEF LinesOf
<1> QED
  BY ONLY <1>1, <1>4, DocMade

(* The group of steps of a document whose points change.                   *)
LEMMA CountsSame ==
  ASSUME NEW ls, NEW n, NEW d, NEW e, e.lines = d.lines, e.undo = d.undo
  PROVE  (Counts(ls, n, d) => Counts(ls, n, e)) /\ (Ready(ls, n, d) => Ready(ls, n, e))
BY DEF Counts, Ready

(* insert_spaces().                                                        *)
LEMMA SpacesDoc ==
  ASSUME NEW C, NL \notin C, Space \in C, NEW d \in Docs(C), NEW l \in 1 .. Len(d.lines), NEW p \in Nat,
         NEW n \in Int, NEW e, e = insert_spaces(d, l, p, n)
  PROVE  Inserted(C, d, e, l, p) /\ InsertedIn(d, e, l, p, IF n > 0 THEN n ELSE 0)
<1> DEFINE m == IF n > 0 THEN n ELSE 0
           s == [i \in 1 .. n |-> Space]
<1>1. m \in Nat /\ 1 .. n = 1 .. m
  OBVIOUS
<1>2. s = [i \in 1 .. m |-> Space]
  BY <1>1
<1>4. e = insert_stream(d, l, p, s)
  BY DEF insert_spaces
<1> HIDE DEF s
<1>3. s \in Seq(C) /\ Len(s) = m /\ s \in Seq(C \cup {NL})
  <2> HIDE DEF m
  <2>1. m \in Nat /\ s = [i \in 1 .. m |-> Space]
    BY <1>1, <1>2
  <2>2. \A S : Space \in S => s \in Seq(S)
    BY <2>1
  <2>3. Len(s) = m
    BY <2>1
  <2> QED
    BY <2>2, <2>3
<1> HIDE DEF m
<1>5. Inserted(C, d, e, l, p) /\ InsertedIn(d, e, l, p, Len(s))
  BY <1>3, <1>4, InsertDoc
<1> QED
  BY <1>3, <1>5 DEF m

(* The pieces of a text that is written with them.                         *)
LEMMA PiecesType ==
  ASSUME NEW S, NEW m \in Int, NEW seqs, seqs = [k \in 1 .. m |-> seqs[k]],
         \A k \in 1 .. m : seqs[k] \in Seq(S)
  PROVE  seqs \in Seq(Seq(S)) /\ FlattenSeq(seqs) \in Seq(S)
<1> DEFINE n == IF m > 0 THEN m ELSE 0
<1>1. n \in Nat /\ 1 .. m = 1 .. n
  OBVIOUS
<1> HIDE DEF n
<1>2. seqs \in Seq(Seq(S))
  BY <1>1
<1> QED
  BY <1>2, FlattenType

-----------------------------------------------------------------------------
(* A point is in a text: its line is one of it, and the point is in it     *)
(* unless free form is on.                                                 *)
OnText(pt) == pt \in [line : Nat, pos : Nat] /\ pt.line \in 1 .. Len(lines)
InPlace(ls, pt) ==
  /\ pt \in [line : Nat, pos : Nat] /\ pt.line \in 1 .. Len(ls)
  /\ free_form \/ pt.pos <= Len(ls[pt.line])

(* The inductive invariant.                                                *)
DocSound ==
  encoding \in Encodings /\ Doc \in Docs(Allowed(encoding)) /\ undo.level = 0 /\ InPlace(lines, cur)
ClipsSound ==
  /\ clips \in [DOMAIN clips -> SoundClips]
  /\ THROUGH \in DOMAIN clips /\ DOMAIN clips \subseteq Clips \cup {THROUGH}
IInv ==
  DocSound /\ ClipsSound /\ vertical \in BOOLEAN /\ free_form \in BOOLEAN /\ edits \in 0 .. MaxEdits

(* What a document that is sound gives of the variables.                   *)
LEMMA StateIs ==
  ASSUME NEW C, Doc \in Docs(C)
  PROVE  /\ lines \in LinesOf(C) /\ pts \in Points /\ OnLines(pts, Len(lines))
         /\ Doc.lines = lines /\ Doc.pts = pts /\ Doc.undo = NoUndo
         /\ Ready(lines, 0, Doc) /\ Len(lines) \in Nat \ {0}
<1>1. Doc.lines = lines /\ Doc.pts = pts /\ Doc.undo = NoUndo
  BY DEF Doc
<1>2. lines \in LinesOf(C) /\ pts \in Points /\ OnLines(pts, Len(lines))
  BY ONLY <1>1, DocIs, Doc \in Docs(C)
<1>3. Doc.undo.level = 0 /\ Doc.undo.groups = 0
  BY <1>1 DEF NoUndo
<1>4. Ready(lines, 0, Doc)
  BY <1>1, <1>3 DEF Ready, Counts
<1>5. Len(lines) \in Nat \ {0}
  BY <1>2, LinesAre
<1> QED
  BY <1>1, <1>2, <1>4, <1>5

(* The ends of the block.                                                  *)
LEMMA MarkIs ==
  ASSUME NEW C, Doc \in Docs(C), InPlace(lines, cur), Marking
  PROVE  OnText(cur) /\ OnText(Mark) /\ OnText(From) /\ OnText(To)
         /\ Mark = Point(Mark.line, Mark.pos) /\ From.line <= To.line
<1>1. pts \in Points /\ OnLines(pts, Len(lines))
  BY StateIs
<1>2. MARK \in DOMAIN pts
  BY DEF Marking
<1>3. pts[MARK] \in [line : Nat, pos : Int] /\ pts[MARK] = Point(pts[MARK].line, pts[MARK].pos)
  BY ONLY <1>1, <1>2, PointIs
<1>4. pts[MARK].line \in 1 .. Len(lines) /\ pts[MARK].pos >= 0
  BY <1>1, <1>2 DEF OnLines
<1>5. pts[MARK].pos \in Int /\ pts[MARK].line \in Nat
  BY <1>3
<1>6. pts[MARK].pos \in Nat
  BY <1>4, <1>5
<1>7. OnText(Mark) /\ Mark = Point(Mark.line, Mark.pos)
  BY <1>3, <1>4, <1>5, <1>6 DEF OnText, Mark, Point
<1>8. OnText(cur)
  BY DEF InPlace, OnText
<1>9. From.line <= To.line
  <2>1. Mark.line \in Int /\ cur.line \in Int
    BY <1>7, <1>8 DEF OnText
  <2> QED
    BY <2>1 DEF From, To, Precedes
<1> QED
  BY <1>7, <1>8, <1>9 DEF From, To

(* The text of the block, and that of the rectangle.                       *)
LEMMA BlockTextIs ==
  ASSUME NEW C, Doc \in Docs(C), InPlace(lines, cur), Marking
  PROVE  BlockText(lines) \in Seq(C \cup {NL})
<1> DEFINE m == To.line - From.line + 1
           Piece(k) == LET i == From.line + k - 1
                       IN  SubSeq(lines[i], IF i = From.line THEN Smaller(From.pos, Len(lines[i])) + 1 ELSE 1,
                                            IF i = To.line THEN Smaller(To.pos, Len(lines[i])) ELSE Len(lines[i]))
                             \o IF i < To.line THEN <<NL>> ELSE <<>>
           seqs == [k \in 1 .. m |-> Piece(k)]
<1>1. lines \in LinesOf(C)
  BY StateIs
<1>2. /\ From.line \in Nat /\ From.pos \in Nat /\ From.line \in 1 .. Len(lines)
      /\ To.line \in Nat /\ To.pos \in Nat /\ To.line \in 1 .. Len(lines) /\ From.line <= To.line
  BY MarkIs DEF OnText
<1>3. ASSUME NEW k \in 1 .. m PROVE Piece(k) \in Seq(C \cup {NL})
  <2> DEFINE i == From.line + k - 1
             a == IF i = From.line THEN Smaller(From.pos, Len(lines[i])) + 1 ELSE 1
             b == IF i = To.line THEN Smaller(To.pos, Len(lines[i])) ELSE Len(lines[i])
  <2>1. i \in 1 .. Len(lines) /\ i \in Nat
    BY <1>2, <1>1, LinesAre
  <2>2. lines[i] \in Seq(C) /\ Len(lines[i]) \in Nat
    BY <1>1, <2>1, LinesAre
  <2> HIDE DEF i
  <2>3. a \in Nat \ {0} /\ b \in Nat /\ b <= Len(lines[i])
    BY <1>2, <2>1, <2>2 DEF Smaller
  <2> HIDE DEF a, b
  <2>4. SubSeq(lines[i], a, b) \in Seq(C)
    BY <2>2, <2>3, SubSeqOfSeq
  <2>5. SubSeq(lines[i], a, b) \in Seq(C \cup {NL})
    BY <2>4
  <2>6. (IF i < To.line THEN <<NL>> ELSE <<>>) \in Seq(C \cup {NL})
    <3>1. <<NL>> \in Seq(C \cup {NL}) /\ <<>> \in Seq(C \cup {NL})
      OBVIOUS
    <3> QED
      BY ONLY <3>1
  <2>7. SubSeq(lines[i], a, b) \o (IF i < To.line THEN <<NL>> ELSE <<>>) \in Seq(C \cup {NL})
    BY <2>5, <2>6, ConcatType
  <2> QED
    BY <2>7 DEF a, b, i
<1>4. BlockText(lines) = FlattenSeq(seqs)
  BY DEF BlockText
<1> HIDE DEF Piece
<1>5. m \in Int
  BY <1>2
<1>6. seqs = [k \in 1 .. m |-> seqs[k]] /\ \A k \in 1 .. m : seqs[k] \in Seq(C \cup {NL})
  BY <1>3
<1> HIDE DEF seqs, m
<1>7. FlattenSeq(seqs) \in Seq(C \cup {NL})
  BY ONLY <1>5, <1>6, PiecesType
<1> QED
  BY <1>4, <1>7

(* The lines of the rectangle.                                             *)
LEMMA RectangleIs ==
  ASSUME NEW C, Doc \in Docs(C), InPlace(lines, cur), Marking
  PROVE  /\ Top \in 1 .. Len(lines) /\ Top \in Nat /\ Bottom \in 1 .. Len(lines) /\ Bottom \in Nat
         /\ Top <= Bottom
<1>1. Len(lines) \in Nat /\ Mark.line \in 1 .. Len(lines) /\ cur.line \in 1 .. Len(lines)
      /\ Mark.line \in Nat /\ cur.line \in Nat
  BY MarkIs, StateIs DEF OnText
<1> QED
  BY <1>1 DEF Top, Bottom, Smaller

(* The text of the rectangle, without the line end after its last row.     *)
LEMMA VertTextIs ==
  ASSUME NEW C, Doc \in Docs(C), InPlace(lines, cur), Marking
  PROVE  VertText \in Seq(C \cup {NL})
<1> DEFINE m == Bottom - Top + 1
           Piece(k) == LET ln == lines[Top + k - 1] IN Append(SubSeq(ln, Left(ln) + 1, Right(ln)), NL)
           seqs == [k \in 1 .. m |-> Piece(k)]
<1>1. lines \in LinesOf(C)
  BY StateIs
<1>2. Top \in Nat /\ Top \in 1 .. Len(lines) /\ Bottom \in Nat /\ Bottom \in 1 .. Len(lines) /\ Top <= Bottom
  BY RectangleIs
<1>3. ASSUME NEW k \in 1 .. m PROVE Piece(k) \in Seq(C \cup {NL})
  <2> DEFINE i == Top + k - 1
  <2>1. i \in 1 .. Len(lines)
    BY <1>2, <1>1, LinesAre
  <2>2. lines[i] \in Seq(C) /\ Len(lines[i]) \in Nat
    BY <1>1, <2>1, LinesAre
  <2> HIDE DEF i
  <2> DEFINE a == Left(lines[i])
             b == Right(lines[i])
  <2>3. a \in 0 .. Len(lines[i]) /\ b \in 0 .. Len(lines[i])
    BY <2>2, PosIs DEF Left, Right
  <2> HIDE DEF a, b
  <2>4. a + 1 \in Nat \ {0} /\ b \in Nat /\ b <= Len(lines[i])
    BY <2>2, <2>3
  <2>5. SubSeq(lines[i], a + 1, b) \in Seq(C)
    BY <2>2, <2>4, SubSeqOfSeq
  <2>6. SubSeq(lines[i], a + 1, b) \in Seq(C \cup {NL})
    BY <2>5
  <2>7. Append(SubSeq(lines[i], a + 1, b), NL) \in Seq(C \cup {NL})
    BY <2>6
  <2> QED
    BY <2>7 DEF a, b, i
<1>4. VertText = FlattenSeq(seqs)
  BY DEF VertText
<1> HIDE DEF Piece
<1>5. m \in Int
  BY <1>2
<1>6. seqs = [k \in 1 .. m |-> seqs[k]] /\ \A k \in 1 .. m : seqs[k] \in Seq(C \cup {NL})
  BY <1>3
<1> HIDE DEF seqs, m
<1>7. FlattenSeq(seqs) \in Seq(C \cup {NL})
  BY ONLY <1>5, <1>6, PiecesType
<1> QED
  BY <1>4, <1>7

-----------------------------------------------------------------------------
(* What the commands on the block leave: a document, the steps it took,    *)
(* and the cursor in it.                                                   *)
LeftWith(C, n, r) == r.doc \in Docs(C) /\ Counts(lines, n, r.doc) /\ InPlace(r.doc.lines, r.cur)

(* delete_stream() at a place of a document.                               *)
LEMMA DeleteFromDoc ==
  ASSUME NEW C, NEW d \in Docs(C), NEW ls, NEW n \in Nat, Ready(ls, n, d), NEW at, InPlace(d.lines, at),
         at.pos <= Len(d.lines[at.line]), NEW k \in Int, NEW e, e = delete_stream(d, at.line, at.pos, k)
  PROVE  e \in Docs(C) /\ Counts(ls, n, e) /\ InPlace(e.lines, at)
<1>1. at \in [line : Nat, pos : Nat] /\ at.line \in 1 .. Len(d.lines) /\ at.pos \in Nat /\ at.line \in Nat
  BY DEF InPlace
<1>2. /\ e \in Docs(C) /\ Steps(d, e) /\ at.line <= Len(e.lines) /\ at.pos <= Len(e.lines[at.line])
  <2> DEFINE l == at.line
             p == at.pos
  <2>1. l \in 1 .. Len(d.lines) /\ p \in Nat /\ p <= Len(d.lines[l]) /\ e = delete_stream(d, l, p, k)
    BY <1>1
  <2> HIDE DEF l, p
  <2>2. e \in Docs(C) /\ Steps(d, e) /\ l <= Len(e.lines) /\ p <= Len(e.lines[l])
    BY ONLY <2>1, d \in Docs(C), k \in Int, DeleteDoc
  <2> QED
    BY <2>2 DEF l, p
<1>3. Counts(ls, n, e)
  BY ONLY <1>2, Ready(ls, n, d), d \in Docs(C), n \in Nat, StepsCount
<1>4. e.lines \in LinesOf(C)
  BY <1>2, DocIs
<1>5. Len(e.lines) \in Nat
  BY <1>4, LinesAre
<1>6. InPlace(e.lines, at)
  BY <1>1, <1>2, <1>5 DEF InPlace
<1> QED
  BY <1>2, <1>3, <1>6

(* erase_block(), of a document with the lines that are.                   *)
LEMMA EraseBlock ==
  ASSUME NEW C, NL \notin C, Space \in C, Doc \in Docs(C), InPlace(lines, cur), Marking,
         NEW d \in Docs(C), d.lines = lines, NEW n \in Nat, Ready(lines, n, d), NEW r, r = erase_block(d)
  PROVE  LeftWith(C, n, r)
<1> DEFINE l == From.line
           p == From.pos
           q == Padded(d)
           k == Len(BlockText(lines))
           e == delete_stream(q, l, p, k)
<1>1. lines \in LinesOf(C) /\ Len(lines) \in Nat
  BY StateIs
<1>2. /\ l \in Nat /\ p \in Nat /\ l \in 1 .. Len(lines) /\ From \in [line : Nat, pos : Nat]
      /\ Mark.line \in 1 .. Len(lines) /\ Mark.pos \in Nat /\ Mark = Point(Mark.line, Mark.pos)
  BY MarkIs DEF OnText
<1>3. lines[l] \in Seq(C) /\ Len(lines[l]) \in Nat
  BY <1>1, <1>2, LinesAre
<1>4. k \in Int
  BY BlockTextIs
<1>5. CASE NoBlock
  <2>1. r = [doc |-> d, cur |-> cur]
    BY <1>5 DEF erase_block
  <2>2. r.doc = d /\ r.cur = cur
    BY <2>1
  <2> QED
    BY <2>2 DEF LeftWith, Ready
<1>6. CASE ~NoBlock
  <2>1. r = [doc |-> Unpadded(e), cur |-> From]
    BY <1>6 DEF erase_block, BlockGone
  <2>2. r.doc = Unpadded(e) /\ r.cur = From
    BY <2>1
  <2>3. CASE p <= Len(lines[l])
    <3>1. q = d
      BY <2>3 DEF Padded, PadFrom
    <3>2. Unpadded(e) = e
      BY <2>3 DEF Unpadded
    <3>3. InPlace(d.lines, From) /\ From.pos <= Len(d.lines[From.line])
      BY <1>2, <2>3 DEF InPlace
    <3> HIDE DEF q, k
    <3>4. e \in Docs(C) /\ Counts(lines, n, e) /\ InPlace(e.lines, From)
      BY <1>4, <3>1, <3>3, DeleteFromDoc
    <3> QED
      BY ONLY <2>2, <3>2, <3>4 DEF LeftWith
  <2>4. CASE ~(p <= Len(lines[l]))
    <3> DEFINE m == Len(lines[l])
               a == start_undo_chain(d)
               b == insert_spaces(a, l, m, p - m)
    <3>1. q = Set(b, MARK, Mark)
      BY <2>4 DEF Padded, PadFrom
    <3>2. Unpadded(e) = end_undo_chain(e)
      BY <2>4 DEF Unpadded
    <3>3. m \in Nat /\ p - m \in Int /\ p - m > 0 /\ l \in Nat
      BY <1>2, <1>3, <2>4
    <3> HIDE DEF m, k, q
    <3>4. a \in Docs(C) /\ a.lines = lines
      BY StartDoc
    <3>5. Ready(lines, n + 1, a)
      BY CountsOn
    <3> HIDE DEF a
    <3>6. l \in 1 .. Len(a.lines)
      BY <1>2, <3>4
    <3>7. Inserted(C, a, b, l, m) /\ InsertedIn(a, b, l, m, IF p - m > 0 THEN p - m ELSE 0)
      BY <3>3, <3>4, <3>6, SpacesDoc
    <3>8. b \in Docs(C) /\ Steps(a, b)
      BY <3>7 DEF Inserted
    <3>9. Len(b.lines) = Len(lines) /\ Len(b.lines[l]) = p
      <4>1. Len(b.lines) = Len(lines) /\ Len(b.lines[l]) = IF m <= Len(a.lines[l]) THEN Len(a.lines[l]) + (p - m) ELSE Len(a.lines[l])
        BY <3>3, <3>4, <3>7 DEF InsertedIn
      <4>2. Len(a.lines[l]) = m
        BY <3>4 DEF m
      <4> QED
        BY <4>1, <4>2, <3>3, <1>2
    <3> HIDE DEF b
    <3>10. n + 1 \in Nat /\ n + 1 > 0
      OBVIOUS
    <3>11. Counts(lines, n + 1, b)
      BY <3>4, <3>5, <3>8, <3>10, StepsCount
    <3>12. Ready(lines, n + 1, b)
      BY <3>8, <3>10, <3>11, CountsOn
    <3>13. q \in Docs(C) /\ q.lines = b.lines /\ q.undo = b.undo
      <4>1. Mark.line \in 1 .. Len(b.lines) /\ Mark.pos \in Int /\ Mark.pos >= 0
        BY <1>2, <3>9
      <4>2. Set(b, MARK, Point(Mark.line, Mark.pos)) \in Docs(C)
            /\ Set(b, MARK, Point(Mark.line, Mark.pos)).lines = b.lines
            /\ Set(b, MARK, Point(Mark.line, Mark.pos)).undo = b.undo
        BY <3>8, <4>1, SetDoc
      <4> QED
        BY ONLY <1>2, <3>1, <4>2
    <3>14. Ready(lines, n + 1, q)
      BY <3>12, <3>13, CountsSame
    <3>15. InPlace(q.lines, From) /\ From.pos <= Len(q.lines[From.line])
      BY <1>2, <3>9, <3>13 DEF InPlace
    <3>16. e \in Docs(C) /\ Counts(lines, n + 1, e) /\ InPlace(e.lines, From)
      BY <1>4, <3>10, <3>13, <3>14, <3>15, DeleteFromDoc
    <3> HIDE DEF e
    <3>17. end_undo_chain(e) \in Docs(C) /\ end_undo_chain(e).lines = e.lines
      BY <3>16, EndDoc
    <3>18. Counts(lines, n, end_undo_chain(e))
      BY <3>16, CountsOn
    <3> QED
      BY ONLY <2>2, <3>2, <3>16, <3>17, <3>18 DEF LeftWith
  <2> QED
    BY <2>3, <2>4
<1> QED
  BY <1>5, <1>6

(* What is left when the first k lines of the rectangle are gone: the      *)
(* lines from l on are still as they were.                                 *)
GoneTo(C, n, d, l, x) ==
  /\ x \in Docs(C) /\ Counts(lines, n, x) /\ DOMAIN x.pts = DOMAIN d.pts
  /\ Len(x.lines) = Len(lines)
  /\ \A i \in l .. Len(lines) : x.lines[i] = lines[i]

(* One line of the rectangle.                                              *)
LEMMA OutOfLineDoc ==
  ASSUME NEW C, Doc \in Docs(C), NEW n \in Nat, n > 0, NEW d, NEW l \in Nat, l \in 1 .. Len(lines),
         NEW x, GoneTo(C, n, d, l, x), NEW y, y = OutOfLine(x, l, lines[l])
  PROVE  GoneTo(C, n, d, l + 1, y)
<1> DEFINE p == Left(lines[l])
           q == Right(lines[l])
<1>1. lines \in LinesOf(C) /\ Len(lines) \in Nat
  BY StateIs
<1>2. lines[l] \in Seq(C) /\ Len(lines[l]) \in Nat
  BY <1>1, LinesAre
<1>3. p \in 0 .. Len(lines[l]) /\ q \in 0 .. Len(lines[l])
  BY <1>2, PosIs DEF Left, Right
<1>4. y = delete_stream(x, l, p, q - p)
  BY DEF OutOfLine
<1> HIDE DEF p, q
<1>5. p \in Nat /\ q - p \in Int /\ p + (q - p) <= Len(lines[l])
  BY <1>2, <1>3
<1>6. x \in Docs(C) /\ l \in 1 .. Len(x.lines) /\ x.lines[l] = lines[l]
  BY <1>1 DEF GoneTo
<1>7. p + (q - p) <= Len(x.lines[l])
  BY ONLY <1>5, <1>6
<1>8. /\ y \in Docs(C) /\ Steps(x, y) /\ DOMAIN y.pts = DOMAIN x.pts
      /\ Len(y.lines) = Len(x.lines) /\ \A i \in 1 .. Len(x.lines) : i # l => y.lines[i] = x.lines[i]
  <2> DEFINE k == q - p
  <2>0. y = delete_stream(x, l, p, k) /\ p \in Nat /\ k \in Int /\ x \in Docs(C) /\ l \in 1 .. Len(x.lines)
    BY <1>4, <1>5, <1>6
  <2>1. p + k <= Len(x.lines[l])
    BY <1>7
  <2> HIDE DEF k
  <2>2. y \in Docs(C) /\ Steps(x, y) /\ DOMAIN y.pts = DOMAIN x.pts
    <3>1. Steps(x, y)
      BY ONLY <2>0, DeleteDoc
    <3>2. y \in Docs(C)
      BY ONLY <2>0, DeleteDoc
    <3>3. DOMAIN y.pts = DOMAIN x.pts
      BY ONLY <2>0, DeleteDoc
    <3> QED
      BY <3>1, <3>2, <3>3
  <2>3. p + k <= Len(x.lines[l]) =>
          Len(y.lines) = Len(x.lines) /\ \A i \in 1 .. Len(x.lines) : i # l => y.lines[i] = x.lines[i]
    BY ONLY <2>0, DeleteDoc
  <2> QED
    BY <2>1, <2>2, <2>3
<1>9. Counts(lines, n, x) /\ DOMAIN x.pts = DOMAIN d.pts /\ Len(x.lines) = Len(lines)
      /\ \A i \in l .. Len(lines) : x.lines[i] = lines[i]
  BY DEF GoneTo
<1>10. Ready(lines, n, x)
  BY <1>6, <1>9, CountsOn
<1>11. Counts(lines, n, y)
  BY <1>6, <1>8, <1>10, StepsCount
<1>12. \A i \in l + 1 .. Len(lines) : y.lines[i] = lines[i]
  <2> TAKE i \in l + 1 .. Len(lines)
  <2>1. i \in l .. Len(lines) /\ i \in 1 .. Len(lines) /\ i # l
    BY <1>1
  <2> QED
    BY <1>8, <1>9, <2>1
<1> QED
  BY ONLY <1>8, <1>9, <1>11, <1>12 DEF GoneTo

(* All of them.                                                            *)
LEMMA VertDoc ==
  ASSUME NEW C, Doc \in Docs(C), InPlace(lines, cur), Marking, NEW n \in Nat, n > 0,
         NEW d \in Docs(C), d.lines = lines, Ready(lines, n, d), NEW e, e = VertDeleted(d)
  PROVE  e \in Docs(C) /\ Counts(lines, n, e) /\ DOMAIN e.pts = DOMAIN d.pts /\ Len(e.lines) = Len(lines)
<1> DEFINE m == Bottom - Top + 1
           Next1(x, k) == OutOfLine(x, Top + k - 1, lines[Top + k - 1])
           Gone(k, f) == f = [i \in 0 .. k |-> IF i = 0 THEN d ELSE Next1(f[i - 1], i)]
           Ok(k) == \E f : Gone(k, f)
           c == CHOOSE f : Gone(m, f)
           T == {k \in 0 .. m : Ok(k)}
           U == {k \in 0 .. m : GoneTo(C, n, d, Top + k, c[k])}
<1>1. lines \in LinesOf(C) /\ Len(lines) \in Nat
  BY StateIs
<1>2. Top \in Nat /\ Top \in 1 .. Len(lines) /\ Bottom \in Nat /\ Bottom \in 1 .. Len(lines) /\ Top <= Bottom
  BY RectangleIs
<1>3. m \in Nat /\ \A k \in 1 .. m : Top + k - 1 \in Nat /\ Top + k - 1 \in 1 .. Len(lines)
  BY <1>1, <1>2
<1>4. e = c[m]
  BY DEF VertDeleted
<1> HIDE DEF m
<1>5. 0 \in T
  <2>1. Gone(0, [i \in 0 .. 0 |-> d])
    OBVIOUS
  <2> HIDE DEF Gone
  <2> QED
    BY <1>3, <2>1
<1>6. ASSUME NEW k \in 1 .. m, k - 1 \in T PROVE k \in T
  <2>1. PICK f : Gone(k - 1, f)
    BY <1>6
  <2> DEFINE h == [i \in 0 .. k |-> IF i = k THEN Next1(f[k - 1], k) ELSE f[i]]
  <2>2. ASSUME NEW i \in 0 .. k PROVE h[i] = IF i = 0 THEN d ELSE Next1(h[i - 1], i)
    <3> HIDE DEF Next1
    <3>1. CASE i = k
      <4>1. i # 0 /\ k - 1 \in 0 .. k /\ k - 1 # k
        BY <3>1
      <4>2. h[k - 1] = f[k - 1] /\ h[k] = Next1(f[k - 1], k)
        BY <4>1
      <4> QED
        BY <3>1, <4>1, <4>2
    <3>2. CASE i # k
      <4>1. i \in 0 .. k - 1 /\ (i # 0 => i - 1 \in 0 .. k /\ i - 1 # k)
        BY <3>2
      <4>2. f[i] = IF i = 0 THEN d ELSE Next1(f[i - 1], i)
        BY <2>1, <4>1
      <4>3. h[i] = f[i] /\ (i # 0 => h[i - 1] = f[i - 1])
        BY <3>2, <4>1
      <4> QED
        BY <4>2, <4>3
    <3> QED
      BY <3>1, <3>2
  <2>3. h = [i \in 0 .. k |-> h[i]]
    OBVIOUS
  <2> HIDE DEF h, Next1
  <2>4. Gone(k, h)
    BY <2>2, <2>3
  <2> HIDE DEF Gone
  <2> QED
    BY <1>3, <2>4
<1> HIDE DEF T
<1>7. \A k \in 0 .. m : k \in T
  BY ONLY <1>3, <1>5, <1>6, UpTo
<1>8. Gone(m, c)
  <2> HIDE DEF Gone, Ok
  <2>1. Ok(m)
    BY <1>3, <1>7 DEF T
  <2> QED
    BY <2>1 DEF Ok
<1> HIDE DEF c
<1>9. 0 \in U
  <2> HIDE DEF Next1
  <2>1. c[0] = d
    BY <1>3, <1>8
  <2>2. Top + 0 = Top
    BY <1>2
  <2>3. GoneTo(C, n, d, Top, d)
    BY DEF GoneTo, Ready
  <2> QED
    BY <1>3, <2>1, <2>2, <2>3
<1>10. ASSUME NEW k \in 1 .. m, k - 1 \in U PROVE k \in U
  <2>1. c[k] = OutOfLine(c[k - 1], Top + k - 1, lines[Top + k - 1])
    <3> HIDE DEF Next1
    <3>1. c[k] = Next1(c[k - 1], k)
      BY <1>3, <1>8
    <3> QED
      BY <3>1 DEF Next1
  <2>2. GoneTo(C, n, d, Top + (k - 1), c[k - 1])
    BY <1>10
  <2>3. Top + (k - 1) = Top + k - 1 /\ Top + k - 1 + 1 = Top + k /\ k \in 0 .. m
    BY <1>2, <1>3
  <2>4. Top + k - 1 \in Nat /\ Top + k - 1 \in 1 .. Len(lines)
    BY <1>3
  <2> DEFINE l == Top + k - 1
  <2>5. l \in Nat /\ l \in 1 .. Len(lines) /\ c[k] = OutOfLine(c[k - 1], l, lines[l]) /\ GoneTo(C, n, d, l, c[k - 1])
    BY <2>1, <2>2, <2>3, <2>4
  <2>6. l + 1 = Top + k
    BY <2>3
  <2> HIDE DEF l
  <2>7. GoneTo(C, n, d, l + 1, c[k])
    BY ONLY <2>5, Doc \in Docs(C), n \in Nat, n > 0, OutOfLineDoc
  <2> QED
    BY ONLY <2>3, <2>6, <2>7 DEF U
<1> HIDE DEF U
<1>11. \A k \in 0 .. m : k \in U
  BY ONLY <1>3, <1>9, <1>10, UpTo
<1>12. GoneTo(C, n, d, Top + m, e)
  BY <1>3, <1>4, <1>11 DEF U
<1> QED
  BY <1>12 DEF GoneTo

(* goto_line_pos().                                                        *)
LEMMA GotoIs ==
  ASSUME NEW C, NEW ls \in LinesOf(C), NEW l \in Nat, l \in 1 .. Len(ls), NEW p \in Nat
  PROVE  InPlace(ls, Goto(ls, l, p))
<1>1. Len(ls) \in Nat /\ Len(ls[l]) \in Nat
  BY LinesAre
<1>2. ~(l > Len(ls))
  BY <1>1
<1> DEFINE q == IF p > Len(ls[l]) /\ ~free_form THEN Len(ls[l]) ELSE p
<1>3. Goto(ls, l, p) = Point(l, q)
  BY <1>2 DEF Goto
<1>4. q \in Nat /\ (free_form \/ q <= Len(ls[l]))
  BY <1>1
<1> HIDE DEF q
<1> QED
  BY <1>3, <1>4 DEF InPlace, Point

(* erase_vert_block().                                                     *)
LEMMA EraseVertBlock ==
  ASSUME NEW C, Doc \in Docs(C), InPlace(lines, cur), Marking,
         NEW d \in Docs(C), d.lines = lines, MARK \in DOMAIN d.pts,
         NEW n \in Nat, Ready(lines, n, d), NEW r, r = erase_vert_block(d)
  PROVE  LeftWith(C, n, r)
<1>1. CASE NoVertBlock
  <2>1. r = [doc |-> d, cur |-> cur]
    BY <1>1 DEF erase_vert_block
  <2>2. r.doc = d /\ r.cur = cur
    BY <2>1
  <2> QED
    BY <2>2 DEF LeftWith, Ready
<1>2. CASE ~NoVertBlock
  <2> DEFINE a == start_undo_chain(d)
             b == VertDeleted(a)
             e == end_undo_chain(b)
             p == Smaller(e.pts[MARK].pos, cur.pos)
  <2>1. r = [doc |-> e, cur |-> Goto(e.lines, Top, p)]
    BY <1>2 DEF erase_vert_block, RectangleGone
  <2>2. r.doc = e /\ r.cur = Goto(e.lines, Top, p)
    BY <2>1
  <2>3. a \in Docs(C) /\ a.lines = lines /\ a.pts = d.pts
    BY StartDoc
  <2>4. Ready(lines, n + 1, a) /\ n + 1 \in Nat /\ n + 1 > 0
    BY CountsOn
  <2> HIDE DEF a
  <2>5. b \in Docs(C) /\ Counts(lines, n + 1, b) /\ DOMAIN b.pts = DOMAIN d.pts /\ Len(b.lines) = Len(lines)
    <3>1. b \in Docs(C) /\ Counts(lines, n + 1, b) /\ DOMAIN b.pts = DOMAIN a.pts /\ Len(b.lines) = Len(lines)
      BY <2>3, <2>4, VertDoc
    <3> QED
      BY <2>3, <3>1
  <2> HIDE DEF b
  <2>6. e \in Docs(C) /\ e.lines = b.lines /\ e.pts = b.pts
    BY <2>5, EndDoc
  <2>7. Counts(lines, n, e)
    BY <2>5, CountsOn
  <2> HIDE DEF e
  <2>8. e.pts[MARK].pos \in Int /\ e.pts[MARK].pos >= 0
    <3>1. e.pts \in Points /\ OnLines(e.pts, Len(e.lines)) /\ MARK \in DOMAIN e.pts
      BY <2>5, <2>6, DocIs
    <3>2. e.pts[MARK].pos \in Int
      BY ONLY <3>1, PointIs
    <3> QED
      BY <3>1, <3>2 DEF OnLines
  <2>9. p \in Nat
    <3>1. cur.pos \in Nat
      BY DEF InPlace
    <3> QED
      BY <2>8, <3>1 DEF Smaller
  <2> HIDE DEF p
  <2>10. e.lines \in LinesOf(C) /\ Top \in Nat /\ Top \in 1 .. Len(e.lines)
    BY <2>5, <2>6, RectangleIs, DocIs
  <2>11. InPlace(e.lines, Goto(e.lines, Top, p))
    BY <2>9, <2>10, GotoIs
  <2> QED
    BY ONLY <2>2, <2>6, <2>7, <2>11 DEF LeftWith
<1> QED
  BY <1>1, <1>2

-----------------------------------------------------------------------------
(* No line is shorter than it was, and none is lost.                       *)
Longer(d, e) ==
  Len(e.lines) >= Len(d.lines) /\ \A i \in 1 .. Len(d.lines) : Len(e.lines[i]) >= Len(d.lines[i])
PastesTo(C, ls, n, d, e) == e \in Docs(C) /\ Counts(ls, n, e) /\ Longer(d, e)

(* The lines of a document have lengths.                                   *)
LEMMA DocLengths ==
  ASSUME NEW C, NEW d \in Docs(C)
  PROVE  Len(d.lines) \in Nat \ {0} /\ \A i \in 1 .. Len(d.lines) : Len(d.lines[i]) \in Nat
BY DocIs, LinesAre

(* An order of documents: a place of one is a place of a longer one.       *)
LEMMA LongerIs ==
  ASSUME NEW C, NEW d \in Docs(C), NEW e \in Docs(C), NEW f \in Docs(C)
  PROVE  /\ Longer(d, d)
         /\ Longer(d, e) /\ Longer(e, f) => Longer(d, f)
         /\ \A at : Longer(d, e) /\ InPlace(d.lines, at) => InPlace(e.lines, at)
<1>1. Len(d.lines) \in Nat /\ \A i \in 1 .. Len(d.lines) : Len(d.lines[i]) \in Nat
  BY DocLengths
<1>2. Len(e.lines) \in Nat /\ \A i \in 1 .. Len(e.lines) : Len(e.lines[i]) \in Nat
  BY DocLengths
<1>3. Len(f.lines) \in Nat /\ \A i \in 1 .. Len(f.lines) : Len(f.lines[i]) \in Nat
  BY DocLengths
<1>4. Longer(d, d)
  BY <1>1 DEF Longer
<1>5. ASSUME Longer(d, e), Longer(e, f) PROVE Longer(d, f)
  <2>1. Len(e.lines) >= Len(d.lines) /\ Len(f.lines) >= Len(e.lines)
    BY <1>5 DEF Longer
  <2>2. ASSUME NEW i \in 1 .. Len(d.lines) PROVE Len(f.lines[i]) >= Len(d.lines[i])
    <3>1. i \in 1 .. Len(e.lines) /\ i \in 1 .. Len(f.lines)
      BY <1>1, <1>2, <1>3, <2>1
    <3>2. Len(e.lines[i]) >= Len(d.lines[i]) /\ Len(f.lines[i]) >= Len(e.lines[i])
      BY <1>5, <3>1 DEF Longer
    <3>3. Len(d.lines[i]) \in Nat /\ Len(e.lines[i]) \in Nat /\ Len(f.lines[i]) \in Nat
      BY <1>1, <1>2, <1>3, <3>1
    <3> QED
      BY ONLY <3>2, <3>3
  <2> QED
    BY <1>1, <1>2, <1>3, <2>1, <2>2 DEF Longer
<1>6. ASSUME NEW at, Longer(d, e), InPlace(d.lines, at) PROVE InPlace(e.lines, at)
  <2>1. at \in [line : Nat, pos : Nat] /\ at.line \in 1 .. Len(d.lines) /\ at.pos \in Nat
        /\ (free_form \/ at.pos <= Len(d.lines[at.line]))
    BY <1>6 DEF InPlace
  <2>2. Len(e.lines) >= Len(d.lines) /\ Len(e.lines[at.line]) >= Len(d.lines[at.line])
    BY <1>6, <2>1 DEF Longer
  <2>3. at.line \in 1 .. Len(e.lines)
    BY <1>1, <1>2, <2>1, <2>2
  <2>4. free_form \/ at.pos <= Len(e.lines[at.line])
    BY <1>1, <1>2, <2>1, <2>2, <2>3
  <2> QED
    BY <2>1, <2>3, <2>4 DEF InPlace
<1> QED
  BY <1>4, <1>5, <1>6

(* Insertions into a line make it longer.                                  *)
LEMMA InsertedLonger ==
  ASSUME NEW C, NEW d \in Docs(C), NEW e \in Docs(C), NEW l \in 1 .. Len(d.lines), NEW p \in Nat,
         NEW n \in Nat, InsertedIn(d, e, l, p, n)
  PROVE  Longer(d, e)
<1>1. Len(d.lines) \in Nat /\ \A i \in 1 .. Len(d.lines) : Len(d.lines[i]) \in Nat
  BY DocLengths
<1>2. /\ Len(e.lines) = Len(d.lines)
      /\ \A i \in 1 .. Len(d.lines) : i # l => e.lines[i] = d.lines[i]
      /\ Len(e.lines[l]) = IF p <= Len(d.lines[l]) THEN Len(d.lines[l]) + n ELSE Len(d.lines[l])
  BY DEF InsertedIn
<1>3. Len(d.lines[l]) \in Nat
  BY <1>1
<1>4. Len(e.lines[l]) >= Len(d.lines[l])
  BY ONLY <1>2, <1>3, n \in Nat
<1>5. \A i \in 1 .. Len(d.lines) : Len(e.lines[i]) >= Len(d.lines[i])
  <2> TAKE i \in 1 .. Len(d.lines)
  <2>1. Len(d.lines[i]) \in Nat
    BY <1>1
  <2>2. i # l => e.lines[i] = d.lines[i]
    BY <1>2
  <2> QED
    BY <1>4, <2>1, <2>2
<1>6. Len(e.lines) >= Len(d.lines)
  BY <1>1, <1>2
<1> QED
  BY <1>5, <1>6 DEF Longer

(* insert_spaces() and insert_stream() in a line, within a chain.          *)
LEMMA SpacesPaste ==
  ASSUME NEW C, NL \notin C, Space \in C, NEW ls, NEW n \in Nat, NEW d \in Docs(C), Ready(ls, n, d),
         NEW l \in 1 .. Len(d.lines), NEW p \in Nat, NEW k \in Int, NEW e, e = insert_spaces(d, l, p, k)
  PROVE  PastesTo(C, ls, n, d, e) /\ InsertedIn(d, e, l, p, IF k > 0 THEN k ELSE 0)
<1> DEFINE m == IF k > 0 THEN k ELSE 0
<1>1. Inserted(C, d, e, l, p) /\ InsertedIn(d, e, l, p, m)
  BY SpacesDoc
<1>2. m \in Nat
  OBVIOUS
<1> HIDE DEF m
<1>3. e \in Docs(C) /\ Steps(d, e)
  BY <1>1 DEF Inserted
<1>4. Counts(ls, n, e)
  BY <1>3, StepsCount
<1>5. Longer(d, e)
  BY <1>1, <1>2, <1>3, InsertedLonger
<1> QED
  BY <1>1, <1>3, <1>4, <1>5 DEF PastesTo, m

(* One row of PasteVert goes in a line of the document.                    *)
LEMMA RowPaste ==
  ASSUME NEW C, NL \notin C, NEW ls, NEW n \in Nat, NEW d \in Docs(C), Ready(ls, n, d),
         NEW l \in 1 .. Len(d.lines), NEW p \in Nat, NEW s \in Seq(C), NEW e, e = insert_stream(d, l, p, s)
  PROVE  PastesTo(C, ls, n, d, e)
<1>0. s \in Seq(C \cup {NL})
  OBVIOUS
<1>1. Inserted(C, d, e, l, p) /\ InsertedIn(d, e, l, p, Len(s))
  BY <1>0, InsertDoc
<1>2. Len(s) \in Nat
  OBVIOUS
<1>3. e \in Docs(C) /\ Steps(d, e)
  BY <1>1 DEF Inserted
<1>4. Counts(ls, n, e)
  BY <1>3, StepsCount
<1>5. Longer(d, e)
  BY <1>1, <1>2, <1>3, InsertedLonger
<1> QED
  BY <1>3, <1>4, <1>5 DEF PastesTo

(* A line is added at the end when there are no more lines for a row.      *)
LEMMA LinePaste ==
  ASSUME NEW C, NL \notin C, NEW ls, NEW n \in Nat, NEW d \in Docs(C), Ready(ls, n, d),
         NEW l \in Nat, l > 0, l - 1 <= Len(d.lines), NEW e, e = WithLine(d, l)
  PROVE  PastesTo(C, ls, n, d, e) /\ l \in 1 .. Len(e.lines)
<1>1. Len(d.lines) \in Nat \ {0} /\ \A i \in 1 .. Len(d.lines) : Len(d.lines[i]) \in Nat
  BY DocLengths
<1>2. CASE l <= Len(d.lines)
  <2>1. e = d
    BY <1>2 DEF WithLine
  <2> QED
    BY <1>1, <1>2, <2>1, LongerIs DEF PastesTo, Ready
<1>3. CASE ~(l <= Len(d.lines))
  <2> DEFINE k == l - 1
             p == Len(d.lines[k])
  <2>1. k = Len(d.lines) /\ k \in 1 .. Len(d.lines) /\ p \in Nat
    BY <1>1, <1>3
  <2>2. e = insert_stream(d, k, p, <<NL>>)
    BY <1>3 DEF WithLine, insert_one_line
  <2>3. <<NL>> \in Seq(C \cup {NL}) /\ \E i \in 1 .. Len(<<NL>>) : <<NL>>[i] = NL
    OBVIOUS
  <2> DEFINE s == <<NL>>
  <2>4. p <= Len(d.lines[k])
    BY <2>1
  <2> HIDE DEF p, k, s
  <2>5. Inserted(C, d, e, k, p)
    BY <2>1, <2>2, <2>3, InsertDoc DEF s
  <2>6. Len(e.lines) > Len(d.lines)
    BY <2>1, <2>2, <2>3, <2>4, InsertDoc DEF s
  <2>7. e \in Docs(C) /\ Steps(d, e) /\ (\A i \in 1 .. k - 1 : e.lines[i] = d.lines[i]) /\ Len(e.lines[k]) >= p
    BY <2>4, <2>5 DEF Inserted
  <2>8. Counts(ls, n, e)
    BY <2>7, StepsCount
  <2>9. \A i \in 1 .. Len(d.lines) : Len(e.lines[i]) >= Len(d.lines[i])
    <3> TAKE i \in 1 .. Len(d.lines)
    <3>1. Len(d.lines[i]) \in Nat
      BY <1>1
    <3>2. i = k \/ i \in 1 .. k - 1
      BY <1>1, <2>1
    <3>3. i = k => Len(e.lines[i]) >= Len(d.lines[i])
      BY <2>7 DEF p
    <3> QED
      BY <2>7, <3>1, <3>2, <3>3
  <2>10. Len(e.lines) \in Nat
    BY <2>7, DocLengths
  <2>11. Longer(d, e)
    BY <1>1, <2>6, <2>9, <2>10 DEF Longer
  <2>12. l \in 1 .. Len(e.lines)
    BY <1>1, <2>1, <2>6, <2>10 DEF k
  <2> QED
    BY <2>7, <2>8, <2>11, <2>12 DEF PastesTo
<1> QED
  BY <1>2, <1>3

(* The spaces that bring the end of a line to a column.                    *)
LEMMA GapIs ==
  ASSUME NEW C, NEW ln \in Seq(C), NEW p \in Nat, NEW x \in Nat
  PROVE  Gap(ln, p, x) \in Nat
<1> DEFINE w == calc_width(ln, p, TabSize)
<1>1. w \in Nat
  BY WidthIs
<1>2. Gap(ln, p, x) = IF p = Len(ln) THEN Max({0, x - w}) ELSE 0
  BY DEF Gap
<1> HIDE DEF w
<1>3. x - w \in Int /\ 0 \in Int
  BY <1>1
<1> DEFINE y == x - w
<1>4. y \in Int
  BY <1>3
<1> HIDE DEF y
<1>5. Max({0, y}) \in {0, y} /\ Max({0, y}) >= 0
  BY <1>3, <1>4, OfTwo
<1>6. Max({0, y}) \in Nat
  BY <1>4, <1>5
<1> QED
  BY <1>2, <1>6 DEF y

(* One row of what PasteVert pastes.                                       *)
LEMMA PasteRowDoc ==
  ASSUME NEW C, NL \notin C, Space \in C, NEW ls, NEW n \in Nat, n > 0, NEW d \in Docs(C), Ready(ls, n, d),
         NEW l \in 1 .. Len(d.lines), NEW x \in Nat, NEW row \in Seq(C), NEW e, e = PasteRow(d, l, x, row)
  PROVE  PastesTo(C, ls, n, d, e)
<1> DEFINE p == RowPlace(d.lines[l], x)
           gap == Gap(d.lines[l], p, x)
           q == p + gap
           a == insert_spaces(d, l, p, gap)
           b == KeepEnd(a, l, q)
<1>1. CASE row = <<>>
  <2>1. e = d
    BY <1>1 DEF PasteRow
  <2> QED
    BY <2>1, LongerIs DEF PastesTo, Ready
<1>2. CASE row # <<>>
  <2>1. e = insert_stream(b, l, q, row)
    BY <1>2 DEF PasteRow, RowAtColumn, RowAt
  <2>2. d.lines \in LinesOf(C)
    BY DocIs
  <2>3. d.lines[l] \in Seq(C) /\ Len(d.lines[l]) \in Nat
    BY <2>2, LinesAre
  <2>4. p \in Nat
    BY <2>3, RowPlaceIs
  <2> HIDE DEF p
  <2>5. gap \in Nat /\ gap \in Int
    <3> DEFINE ln == d.lines[l]
    <3>1. ln \in Seq(C)
      BY <2>3
    <3> HIDE DEF ln
    <3>2. Gap(ln, p, x) \in Nat
      BY ONLY <2>4, <3>1, x \in Nat, GapIs
    <3> QED
      BY <3>2 DEF ln
  <2> HIDE DEF gap
  <2>6. q \in Nat
    BY <2>4, <2>5
  <2>7. PastesTo(C, ls, n, d, a)
    BY <2>4, <2>5, SpacesPaste
  <2>8. a \in Docs(C) /\ Counts(ls, n, a) /\ Longer(d, a)
    BY <2>7 DEF PastesTo
  <2>9. Ready(ls, n, a)
    BY <2>8, CountsOn
  <2>10. l \in 1 .. Len(a.lines)
    <3>1. Len(d.lines) \in Nat /\ Len(a.lines) \in Nat
      BY <2>8, DocLengths
    <3> QED
      BY <2>8, <3>1 DEF Longer
  <2> HIDE DEF a, q
  <2>11. b = Set(a, END, Point(l, q + 1)) /\ q + 1 \in Int /\ END # MARK
    BY <2>6 DEF KeepEnd, END, MARK
  <2>12. b \in Docs(C) /\ b.lines = a.lines /\ b.undo = a.undo
    BY ONLY <2>8, <2>10, <2>11, SetDoc
  <2> HIDE DEF b
  <2>13. Ready(ls, n, b) /\ l \in 1 .. Len(b.lines)
    BY <2>9, <2>10, <2>12, CountsSame
  <2>14. PastesTo(C, ls, n, b, e)
    BY <2>1, <2>6, <2>12, <2>13, RowPaste
  <2>15. e \in Docs(C) /\ Counts(ls, n, e) /\ Longer(b, e)
    BY <2>14 DEF PastesTo
  <2>16. Longer(d, b)
    BY <2>8, <2>12 DEF Longer
  <2>17. Longer(d, e)
    BY <2>12, <2>15, <2>16, LongerIs
  <2> QED
    BY <2>15, <2>17 DEF PastesTo
<1> QED
  BY <1>1, <1>2

(* The rows of a stream.                                                   *)
LEMMA RowsAre ==
  ASSUME NEW C, NEW s \in Seq(C \cup {NL})
  PROVE  Rows(s) \in Seq(Seq(C))
<1>1. Split(s) \in Seq(Seq(C)) /\ Split(s) # <<>>
  BY SplitType DEF LinesOf
<1> DEFINE w == Split(s)
<1>2. Rows(s) = Front(w) \/ Rows(s) = w
  BY DEF Rows
<1> HIDE DEF w
<1>3. w \in Seq(Seq(C)) /\ w # <<>>
  BY <1>1 DEF w
<1>4. 1 \in Nat \ {0} /\ Len(w) - 1 \in Nat /\ Len(w) - 1 <= Len(w)
  BY <1>3
<1> DEFINE m == Len(w) - 1
<1>5. m \in Nat /\ m <= Len(w)
  BY <1>4
<1>6. Front(w) = SubSeq(w, 1, m)
  BY DEF Front
<1> HIDE DEF m
<1>7. SubSeq(w, 1, m) \in Seq(Seq(C))
  BY <1>3, <1>4, <1>5, SubSeqOfSeq
<1> QED
  BY <1>2, <1>3, <1>6, <1>7

(* The first k rows have been pasted, and there is a line for the last.    *)
RowsPasted(C, ls, n, d, l, x) == PastesTo(C, ls, n, d, x) /\ l <= Len(x.lines)

(* After k rows, one more.                                                 *)
LEMMA NextRow ==
  ASSUME NEW C, NL \notin C, Space \in C, NEW ls, NEW n \in Nat, n > 0, NEW d \in Docs(C), NEW l \in Nat, l > 0,
         NEW x \in Nat, NEW row \in Seq(C), NEW a, RowsPasted(C, ls, n, d, l - 1, a), NEW e,
         e = PasteRow(WithLine(a, l), l, x, row)
  PROVE  RowsPasted(C, ls, n, d, l, e)
<1> DEFINE b == WithLine(a, l)
<1>1. a \in Docs(C) /\ Counts(ls, n, a) /\ Longer(d, a) /\ l - 1 <= Len(a.lines)
  BY DEF RowsPasted, PastesTo
<1>2. Ready(ls, n, a)
  BY <1>1, CountsOn
<1>3. PastesTo(C, ls, n, a, b) /\ l \in 1 .. Len(b.lines)
  BY <1>1, <1>2, LinePaste
<1> HIDE DEF b
<1>4. b \in Docs(C) /\ Counts(ls, n, b) /\ Longer(a, b)
  BY <1>3 DEF PastesTo
<1>5. Ready(ls, n, b)
  BY <1>4, CountsOn
<1>6. e = PasteRow(b, l, x, row)
  BY DEF b
<1>7. PastesTo(C, ls, n, b, e)
  BY <1>3, <1>4, <1>5, <1>6, PasteRowDoc
<1>8. e \in Docs(C) /\ Counts(ls, n, e) /\ Longer(b, e)
  BY <1>7 DEF PastesTo
<1>9. Longer(d, b)
  BY <1>1, <1>4, LongerIs
<1>10. Longer(d, e)
  BY <1>4, <1>8, <1>9, LongerIs
<1>11. l <= Len(e.lines)
  <2>1. Len(b.lines) \in Nat /\ Len(e.lines) \in Nat
    BY <1>4, <1>8, DocLengths
  <2> QED
    BY <1>3, <1>8, <2>1 DEF Longer
<1> QED
  BY <1>8, <1>10, <1>11 DEF RowsPasted, PastesTo

(* What pasting the rows makes of a document, in an open chain.            *)
LEMMA PasteRowsDoc ==
  ASSUME NEW C, NL \notin C, Space \in C, NEW ls, NEW n \in Nat, n > 0, NEW d \in Docs(C), Ready(ls, n, d),
         NEW l \in 1 .. Len(d.lines), NEW x \in Nat, NEW rows \in Seq(Seq(C)), NEW e, e = PasteRows(d, l, x, rows)
  PROVE  PastesTo(C, ls, n, d, e)
<1> DEFINE m == Len(rows)
           Next1(y, k) == PasteRow(WithLine(y, l + k - 1), l + k - 1, x, rows[k])
           Gone(k, f) == f = [i \in 0 .. k |-> IF i = 0 THEN d ELSE Next1(f[i - 1], i)]
           Ok(k) == \E f : Gone(k, f)
           c == CHOOSE f : Gone(m, f)
           T == {k \in 0 .. m : Ok(k)}
           U == {k \in 0 .. m : RowsPasted(C, ls, n, d, l + k - 1, c[k])}
<1>1. Len(d.lines) \in Nat /\ l \in Nat /\ l > 0
  BY DocLengths
<1>3. m \in Nat /\ \A k \in 1 .. m : rows[k] \in Seq(C)
  OBVIOUS
<1>4. e = c[m]
  BY DEF PasteRows
<1> HIDE DEF m
<1>5. 0 \in T
  <2>1. Gone(0, [i \in 0 .. 0 |-> d])
    OBVIOUS
  <2> HIDE DEF Gone
  <2> QED
    BY <1>3, <2>1
<1>6. ASSUME NEW k \in 1 .. m, k - 1 \in T PROVE k \in T
  <2>1. PICK f : Gone(k - 1, f)
    BY <1>6
  <2> DEFINE h == [i \in 0 .. k |-> IF i = k THEN Next1(f[k - 1], k) ELSE f[i]]
  <2>2. ASSUME NEW i \in 0 .. k PROVE h[i] = IF i = 0 THEN d ELSE Next1(h[i - 1], i)
    <3> HIDE DEF Next1
    <3>1. CASE i = k
      <4>1. i # 0 /\ k - 1 \in 0 .. k /\ k - 1 # k
        BY <3>1
      <4>2. h[k - 1] = f[k - 1] /\ h[k] = Next1(f[k - 1], k)
        BY <4>1
      <4> QED
        BY <3>1, <4>1, <4>2
    <3>2. CASE i # k
      <4>1. i \in 0 .. k - 1 /\ (i # 0 => i - 1 \in 0 .. k /\ i - 1 # k)
        BY <3>2
      <4>2. f[i] = IF i = 0 THEN d ELSE Next1(f[i - 1], i)
        BY <2>1, <4>1
      <4>3. h[i] = f[i] /\ (i # 0 => h[i - 1] = f[i - 1])
        BY <3>2, <4>1
      <4> QED
        BY <4>2, <4>3
    <3> QED
      BY <3>1, <3>2
  <2>3. h = [i \in 0 .. k |-> h[i]]
    OBVIOUS
  <2> HIDE DEF h, Next1
  <2>4. Gone(k, h)
    BY <2>2, <2>3
  <2> HIDE DEF Gone
  <2> QED
    BY <1>3, <2>4
<1> HIDE DEF T
<1>7. \A k \in 0 .. m : k \in T
  BY ONLY <1>3, <1>5, <1>6, UpTo
<1>8. Gone(m, c)
  <2> HIDE DEF Gone, Ok
  <2>1. Ok(m)
    BY <1>3, <1>7 DEF T
  <2> QED
    BY <2>1 DEF Ok
<1> HIDE DEF c
<1>9. 0 \in U
  <2> HIDE DEF Next1
  <2>1. c[0] = d
    BY <1>3, <1>8
  <2>2. l + 0 - 1 = l - 1 /\ l - 1 <= Len(d.lines)
    BY <1>1
  <2>3. RowsPasted(C, ls, n, d, l - 1, d)
    BY <2>2, LongerIs DEF RowsPasted, PastesTo, Ready
  <2> QED
    BY <1>3, <2>1, <2>2, <2>3
<1>10. ASSUME NEW k \in 1 .. m, k - 1 \in U PROVE k \in U
  <2> DEFINE j == l + k - 1
  <2>1. c[k] = PasteRow(WithLine(c[k - 1], j), j, x, rows[k])
    <3> HIDE DEF Next1
    <3>1. c[k] = Next1(c[k - 1], k)
      BY <1>3, <1>8
    <3> QED
      BY <3>1 DEF Next1
  <2>2. RowsPasted(C, ls, n, d, l + (k - 1) - 1, c[k - 1])
    BY <1>10
  <2>3. l + (k - 1) - 1 = j - 1 /\ j \in Nat /\ j > 0 /\ k \in 0 .. m
    BY <1>1, <1>3
  <2> HIDE DEF j
  <2>4. RowsPasted(C, ls, n, d, j - 1, c[k - 1])
    BY ONLY <2>2, <2>3
  <2>5. rows[k] \in Seq(C)
    BY <1>3
  <2>6. RowsPasted(C, ls, n, d, j, c[k])
    BY <2>1, <2>3, <2>4, <2>5, NextRow
  <2> QED
    BY ONLY <2>3, <2>6 DEF U, j
<1> HIDE DEF U
<1>11. \A k \in 0 .. m : k \in U
  BY ONLY <1>3, <1>9, <1>10, UpTo
<1>12. RowsPasted(C, ls, n, d, l + m - 1, e)
  BY <1>3, <1>4, <1>11 DEF U
<1> QED
  BY <1>12 DEF RowsPasted

(* paste_vert_to_buffer().                                                 *)
LEMMA PasteVert ==
  ASSUME NEW C, NL \notin C, Space \in C, NEW ls, NEW n \in Nat, NEW d \in Docs(C), Ready(ls, n, d),
         NEW at, InPlace(d.lines, at), NEW x \in Nat, NEW s \in Seq(C \cup {NL}),
         NEW e, e = paste_vert_to_buffer(d, at, x, s)
  PROVE  e \in Docs(C) /\ Counts(ls, n, e) /\ InPlace(e.lines, at)
<1> DEFINE l == at.line
           p == at.pos
           rows == Rows(s)
           a == start_undo_chain(d)
           b == StartMarked(a, at)
           f == PasteRows(b, l, x, rows)
           g == end_undo_chain(f)
<1>1. /\ l \in 1 .. Len(d.lines) /\ p \in Int /\ at = Point(l, p)
  BY DEF InPlace, Point
<1>2. e = PutBackEnd(g)
  BY DEF paste_vert_to_buffer
<1>3. a \in Docs(C) /\ a.lines = d.lines
  BY StartDoc
<1>4. Ready(ls, n + 1, a)
  BY ONLY d \in Docs(C), n \in Nat, Ready(ls, n, d), CountsOn
<1>0. n + 1 \in Nat /\ n + 1 > 0
  OBVIOUS
<1> HIDE DEF a
<1>5. b = Set(a, START, Point(l, p)) /\ START # MARK /\ l \in 1 .. Len(a.lines)
  BY <1>1, <1>3 DEF StartMarked, START, MARK
<1> HIDE DEF l, p
<1>6. b \in Docs(C) /\ b.lines = a.lines /\ b.undo = a.undo
  BY ONLY <1>1, <1>3, <1>5, SetDoc
<1> HIDE DEF b
<1>7. Ready(ls, n + 1, b) /\ l \in 1 .. Len(b.lines)
  BY <1>4, <1>5, <1>6, CountsSame
<1>8. rows \in Seq(Seq(C))
  BY RowsAre
<1> HIDE DEF rows
<1>9. PastesTo(C, ls, n + 1, b, f)
  BY <1>0, <1>6, <1>7, <1>8, PasteRowsDoc
<1>10. f \in Docs(C) /\ Counts(ls, n + 1, f) /\ Longer(b, f)
  BY <1>9 DEF PastesTo
<1>11. InPlace(f.lines, at)
  BY <1>3, <1>6, <1>10, LongerIs
<1> HIDE DEF f
<1>12. g \in Docs(C) /\ g.lines = f.lines /\ Counts(ls, n, g)
  BY <1>0, <1>10, EndDoc, CountsOn
<1> HIDE DEF g
<1>13. e \in Docs(C) /\ e.lines = g.lines /\ e.undo = g.undo
  BY <1>2, <1>12, PutBackDoc
<1>14. Counts(ls, n, e)
  BY <1>12, <1>13, CountsSame
<1> QED
  BY <1>11, <1>12, <1>13, <1>14

(* insert_stream() at a place of a document.                               *)
LEMMA PutInDoc ==
  ASSUME NEW C, NL \notin C, NEW ls, NEW n \in Nat, NEW d \in Docs(C), Ready(ls, n, d),
         NEW at, InPlace(d.lines, at), NEW s \in Seq(C \cup {NL}), NEW e, e = insert_stream(d, at.line, at.pos, s)
  PROVE  e \in Docs(C) /\ Counts(ls, n, e) /\ InPlace(e.lines, at)
<1> DEFINE l == at.line
           p == at.pos
<1>1. at \in [line : Nat, pos : Nat] /\ l \in 1 .. Len(d.lines) /\ l \in Nat /\ p \in Nat
      /\ (free_form \/ p <= Len(d.lines[l])) /\ e = insert_stream(d, l, p, s)
  BY DEF InPlace
<1>2. Inserted(C, d, e, l, p)
  <2> HIDE DEF l, p
  <2> QED
    BY <1>1, InsertDoc
<1>3. e \in Docs(C) /\ Steps(d, e) /\ Len(e.lines) >= Len(d.lines) /\ (p <= Len(d.lines[l]) => Len(e.lines[l]) >= p)
  BY <1>2 DEF Inserted
<1>4. Counts(ls, n, e)
  BY <1>3, StepsCount
<1>5. Len(d.lines) \in Nat /\ Len(e.lines) \in Nat /\ \A i \in 1 .. Len(e.lines) : Len(e.lines[i]) \in Nat
  BY <1>3, DocLengths
<1>6. l \in 1 .. Len(e.lines)
  BY <1>1, <1>3, <1>5
<1>7. free_form \/ p <= Len(e.lines[l])
  BY <1>1, <1>3, <1>5, <1>6
<1>8. InPlace(e.lines, at)
  BY ONLY <1>1, <1>6, <1>7 DEF InPlace
<1> HIDE DEF l, p
<1> QED
  BY ONLY <1>3, <1>4, <1>8

(* paste_to_buffer().                                                      *)
LEMMA PasteText ==
  ASSUME NEW C, NL \notin C, Space \in C, NEW ls, NEW n \in Nat, NEW d \in Docs(C), Ready(ls, n, d),
         NEW at, InPlace(d.lines, at), NEW s \in Seq(C \cup {NL}), NEW e, e = paste_to_buffer(d, at, s)
  PROVE  e \in Docs(C) /\ Counts(ls, n, e) /\ InPlace(e.lines, at)
<1> DEFINE l == at.line
           p == at.pos
           a == StartMarked(d, at)
           b == KeepEnd(a, l, p)
           c == start_undo_chain(b)
           m == Len(c.lines[l])
           f == Fill(c, at)
           g == insert_stream(f, l, p, s)
           h == end_undo_chain(g)
<1>1. /\ l \in 1 .. Len(d.lines) /\ p \in Int /\ p \in Nat /\ p + 1 \in Int /\ at = Point(l, p)
  BY DEF InPlace, Point
<1>2. e = PutBackEnd(h)
  BY DEF paste_to_buffer
<1>3. a = Set(d, START, Point(l, p)) /\ START # MARK /\ END # MARK
  BY <1>1 DEF StartMarked, START, MARK, END
<1>4. f = insert_spaces(c, l, m, p - m)
  BY DEF Fill, PadTo
<1>5. b = Set(a, END, Point(l, p + 1))
  BY DEF KeepEnd
<1> HIDE DEF l, p, f
<1>6. a \in Docs(C) /\ a.lines = d.lines /\ a.undo = d.undo
  BY ONLY <1>1, <1>3, d \in Docs(C), SetDoc
<1> HIDE DEF a
<1>7. b \in Docs(C) /\ b.lines = a.lines /\ b.undo = a.undo
  <2>1. l \in 1 .. Len(a.lines)
    BY <1>1, <1>6
  <2> QED
    BY ONLY <1>1, <1>3, <1>5, <1>6, <2>1, SetDoc
<1> HIDE DEF b
<1>8. Ready(ls, n, b)
  BY <1>6, <1>7, CountsSame
<1>9. c \in Docs(C) /\ c.lines = b.lines
  BY <1>7, StartDoc
<1>10. Ready(ls, n + 1, c)
  BY ONLY <1>7, <1>8, n \in Nat, CountsOn
<1>0. n + 1 \in Nat /\ n + 1 > 0
  OBVIOUS
<1> HIDE DEF c
<1>11. l \in 1 .. Len(c.lines)
  BY <1>1, <1>6, <1>7, <1>9
<1>12. m \in Nat /\ p - m \in Int
  BY <1>1, <1>9, <1>11, DocLengths
<1> HIDE DEF m
<1>13. PastesTo(C, ls, n + 1, c, f)
  <2> DEFINE k == p - m
  <2>1. k \in Int /\ f = insert_spaces(c, l, m, k)
    BY <1>4, <1>12
  <2> HIDE DEF k
  <2> QED
    BY <1>0, <1>9, <1>10, <1>11, <1>12, <2>1, SpacesPaste
<1>14. f \in Docs(C) /\ Counts(ls, n + 1, f) /\ Longer(c, f)
  BY <1>13 DEF PastesTo
<1>15. Ready(ls, n + 1, f)
  BY <1>0, <1>14, CountsOn
<1>16. InPlace(f.lines, at)
  <2>1. InPlace(c.lines, at)
    BY <1>6, <1>7, <1>9
  <2> QED
    BY <1>9, <1>14, <2>1, LongerIs
<1>17. g \in Docs(C) /\ Counts(ls, n + 1, g) /\ InPlace(g.lines, at)
  <2>1. g = insert_stream(f, at.line, at.pos, s)
    BY DEF l, p
  <2> HIDE DEF g
  <2> QED
    BY ONLY <1>0, <1>14, <1>15, <1>16, <2>1, NL \notin C, s \in Seq(C \cup {NL}), PutInDoc
<1> HIDE DEF g
<1>18. h \in Docs(C) /\ h.lines = g.lines /\ Counts(ls, n, h)
  BY <1>17, EndDoc, CountsOn
<1> HIDE DEF h
<1>19. e \in Docs(C) /\ e.lines = h.lines /\ e.undo = h.undo
  BY <1>2, <1>18, PutBackDoc
<1>20. Counts(ls, n, e)
  BY <1>18, <1>19, CountsSame
<1> QED
  BY <1>17, <1>18, <1>19, <1>20

(* What pasting a stream makes of a document.                              *)
LEMMA PastedDoc ==
  ASSUME NEW C, NL \notin C, Space \in C, NEW ls, NEW n \in Nat, NEW d \in Docs(C), Ready(ls, n, d),
         NEW at, InPlace(d.lines, at), NEW s \in Seq(C \cup {NL}), NEW v, NEW e, e = Pasted(d, at, s, v)
  PROVE  e \in Docs(C) /\ Counts(ls, n, e) /\ InPlace(e.lines, at)
<1>1. CASE s = <<>>
  BY <1>1 DEF Pasted, Ready
<1>2. CASE s # <<>> /\ v
  <2> DEFINE x == calc_width(d.lines[at.line], at.pos, TabSize)
  <2>1. e = paste_vert_to_buffer(d, at, x, s)
    BY <1>2 DEF Pasted
  <2>2. d.lines[at.line] \in Seq(C) /\ at.pos \in Nat
    BY DocIs, LinesAre DEF InPlace
  <2>3. x \in Nat
    BY <2>2, WidthIs
  <2> HIDE DEF x
  <2> QED
    BY <2>1, <2>3, PasteVert
<1>3. CASE s # <<>> /\ ~v
  <2>1. e = paste_to_buffer(d, at, s)
    BY <1>3 DEF Pasted
  <2> QED
    BY <2>1, PasteText
<1> QED
  BY <1>1, <1>2, <1>3

-----------------------------------------------------------------------------
(* A step of a command: no chain is open, and a change is one group.       *)
OneStep == undo'.level = 0 /\ (lines' # lines => undo'.groups = 1)

(* A document that replaces the one there is.                              *)
LEMMA Becomes ==
  ASSUME NEW C, NEW e \in Docs(C), Counts(lines, 0, e), Become(e)
  PROVE  Doc' \in Docs(C) /\ lines' = e.lines /\ OneStep
<1>1. lines' = e.lines /\ pts' = e.pts /\ undo' = e.undo
  BY DEF Become
<1>2. e.lines \in LinesOf(C) /\ e.pts \in Points /\ OnLines(e.pts, Len(e.lines))
  BY DocIs
<1>3. NoUndo \in Undos
  BY DEF NoUndo, Undos
<1>4. [lines |-> e.lines, pts |-> e.pts, undo |-> NoUndo] \in Docs(C)
  BY <1>2, <1>3, DocMade
<1>5. Doc' = [lines |-> e.lines, pts |-> e.pts, undo |-> NoUndo]
  BY <1>1 DEF Doc
<1>6. OneStep
  BY <1>1 DEF OneStep, Counts
<1> QED
  BY <1>1, <1>4, <1>5, <1>6

(* The same when the mark is taken away, as the commands on the block do.  *)
LEMMA BecomesUnmarked ==
  ASSUME NEW C, NEW e \in Docs(C), Counts(lines, 0, e), Become(Unmarked(e))
  PROVE  Doc' \in Docs(C) /\ lines' = e.lines /\ OneStep
<1> DEFINE f == Unmarked(e)
<1>1. f \in Docs(C) /\ f.lines = e.lines /\ f.undo = e.undo
  BY UnmarkedDoc
<1>2. Become(f)
  OBVIOUS
<1> HIDE DEF f
<1>3. Counts(lines, 0, f)
  BY <1>1, CountsSame
<1> QED
  BY <1>1, <1>2, <1>3, Becomes

(* Nothing happens to the lines.                                           *)
LEMMA LinesStay ==
  ASSUME NEW C, NEW e \in Docs(C), DocSound, lines' = lines, pts' = e.pts, undo' = undo, e.lines = lines
  PROVE  Doc' \in Docs(C) /\ OneStep
<1>1. OnLines(e.pts, Len(lines)) /\ lines \in LinesOf(C) /\ e.pts \in Points
  BY DocIs
<1>2. NoUndo \in Undos
  BY DEF NoUndo, Undos
<1>3. [lines |-> lines, pts |-> e.pts, undo |-> NoUndo] \in Docs(C)
  BY <1>1, <1>2, DocMade
<1> QED
  BY <1>3 DEF Doc, OneStep, DocSound

(* A clip becomes another.                                                 *)
LEMMA ClipBecomes ==
  ASSUME ClipsSound, NEW n \in Clips \cup {THROUGH}, NEW c \in SoundClips, clips' = Updated(clips, n, c)
  PROVE  ClipsSound'
<1>1. clips \in [DOMAIN clips -> SoundClips] /\ THROUGH \in DOMAIN clips /\ DOMAIN clips \subseteq Clips \cup {THROUGH}
  BY DEF ClipsSound
<1>2. clips' = [y \in DOMAIN clips \cup {n} |-> IF y = n THEN c ELSE clips[y]]
  BY DEF Updated
<1>3. DOMAIN clips' = DOMAIN clips \cup {n}
  BY <1>2
<1>4. clips' \in [DOMAIN clips \cup {n} -> SoundClips]
  BY <1>1, <1>2
<1> QED
  BY <1>1, <1>3, <1>4 DEF ClipsSound

(* The block is copied into a clip.                                        *)
LEMMA BlockClipped ==
  ASSUME DocSound, ClipsSound, Marking, NEW n \in Clips \cup {THROUGH}, clips' = BlockClip(n, Block)
  PROVE  ClipsSound'
<1> DEFINE empty == IF vertical THEN NoVertBlock ELSE NoBlock
           enc == IF vertical \/ n \notin DOMAIN clips THEN "ASCII" ELSE clips[n].encoding
           c == IF empty THEN [cs |-> <<>>, encoding |-> enc] ELSE Clip(Block, encoding)
<1>1. clips' = Updated(clips, n, c)
  BY DEF BlockClip
<1>2. Allowed(encoding) \subseteq Char /\ Doc \in Docs(Allowed(encoding)) /\ InPlace(lines, cur)
  BY AllowedIs DEF DocSound
<1>3. Doc \in Docs(Char)
  BY <1>2, DocsWider
<1>4. Block \in Seq(Char \cup {NL})
  <2>1. VertText \in Seq(Char \cup {NL}) /\ BlockText(lines) \in Seq(Char \cup {NL})
    BY <1>2, <1>3, VertTextIs, BlockTextIs
  <2>2. <<>> \in Seq(Char \cup {NL})
    OBVIOUS
  <2> QED
    BY <2>1, <2>2 DEF Block
<1>5. enc \in Encodings
  BY SoundClipIs DEF Encodings, ClipsSound
<1> HIDE DEF empty, enc
<1>6. [cs |-> <<>>, encoding |-> enc] \in SoundClips
  <2>1. <<>> \in Seq(Char \cup {NL}) /\ <<>> \in Seq(Allowed(enc) \cup {NL})
    OBVIOUS
  <2> QED
    BY <1>5, <2>1 DEF SoundClips
<1>7. Clip(Block, encoding) \in SoundClips
  BY <1>4, ClipIs
<1>8. c \in SoundClips
  BY <1>6, <1>7
<1> HIDE DEF c
<1> QED
  BY <1>1, <1>8, ClipBecomes

(* The encoding a document takes holds what it has and what is pasted.     *)
LEMMA TakesIs ==
  ASSUME encoding \in Encodings, NEW c \in SoundClips, Compatible(c)
  PROVE  /\ Takes(c) \in Encodings /\ Allowed(encoding) \subseteq Allowed(Takes(c))
         /\ c.cs \in Seq(Allowed(Takes(c)) \cup {NL})
<1>1. c.encoding \in Encodings /\ c.cs \in Seq(Allowed(c.encoding) \cup {NL})
  BY SoundClipIs
<1>2. Allowed("ASCII") \subseteq Allowed(c.encoding) /\ Allowed("ASCII") \subseteq Allowed(encoding)
  BY <1>1, AllowedIs
<1>3. CASE c.cs = <<>>
  <2>1. Takes(c) = encoding
    BY <1>3 DEF Takes
  <2> QED
    BY <1>3, <2>1
<1>4. CASE c.cs # <<>> /\ encoding = "ASCII"
  <2>1. Takes(c) = c.encoding
    BY <1>4 DEF Takes
  <2> QED
    BY <1>1, <1>2, <1>4, <2>1
<1>5. CASE c.cs # <<>> /\ encoding # "ASCII"
  <2>1. Takes(c) = encoding
    BY <1>5 DEF Takes
  <2>2. c.encoding = "ASCII" \/ c.encoding = encoding
    BY <1>5 DEF Compatible
  <2>3. Allowed(c.encoding) \subseteq Allowed(encoding)
    BY <1>2, <2>2
  <2>4. Allowed(c.encoding) \cup {NL} \subseteq Allowed(encoding) \cup {NL}
    BY <2>3
  <2> DEFINE S == Allowed(c.encoding) \cup {NL}
             R == Allowed(encoding) \cup {NL}
  <2>5. S \subseteq R /\ c.cs \in Seq(S)
    BY <1>1, <2>4
  <2> HIDE DEF S, R
  <2>6. c.cs \in Seq(R)
    BY <2>5
  <2> QED
    BY <2>1, <2>6 DEF R
<1> QED
  BY <1>3, <1>4, <1>5

(* The block is taken out of a document with the lines that are.           *)
LEMMA ErasedDoc ==
  ASSUME DocSound, Marking, NEW d \in Docs(Allowed(encoding)), d.lines = lines, MARK \in DOMAIN d.pts,
         NEW n \in Nat, Ready(lines, n, d), NEW r, r = Erased(d)
  PROVE  LeftWith(Allowed(encoding), n, r)
<1> DEFINE C == Allowed(encoding)
<1>1. NL \notin C /\ Space \in C /\ Doc \in Docs(C) /\ InPlace(lines, cur) /\ d \in Docs(C)
  BY AllowedIs DEF DocSound
<1> HIDE DEF C
<1>2. CASE vertical
  <2>1. r = erase_vert_block(d)
    BY <1>2 DEF Erased
  <2> QED
    BY <1>1, <2>1, EraseVertBlock DEF C
<1>3. CASE ~vertical
  <2>1. r = erase_block(d)
    BY <1>3 DEF Erased
  <2> QED
    BY <1>1, <2>1, EraseBlock DEF C
<1> QED
  BY <1>2, <1>3

-----------------------------------------------------------------------------
(* Erase, and the part of Cut that takes the block out.                    *)
LEMMA BlockTaken ==
  ASSUME DocSound, Marking, BlockErased(Erased(Doc)), UNCHANGED <<encoding, free_form>>
  PROVE  DocSound' /\ OneStep
<1> DEFINE C == Allowed(encoding)
           r == Erased(Doc)
<1>1. Doc \in Docs(C) /\ encoding \in Encodings
  BY DEF DocSound
<1> HIDE DEF C
<1>2. Doc.lines = lines /\ MARK \in DOMAIN Doc.pts /\ Ready(lines, 0, Doc)
  BY <1>1, StateIs DEF Marking
<1>3. LeftWith(C, 0, r)
  <2>1. 0 \in Nat
    OBVIOUS
  <2> HIDE DEF r
  <2>2. r = Erased(Doc)
    BY DEF r
  <2> QED
    BY <1>1, <1>2, <2>1, <2>2, ErasedDoc DEF C
<1>4. r.doc \in Docs(C) /\ Counts(lines, 0, r.doc) /\ InPlace(r.doc.lines, r.cur)
  BY <1>3 DEF LeftWith
<1>5. Become(Unmarked(r.doc)) /\ cur' = r.cur
  BY DEF BlockErased
<1> HIDE DEF r
<1>6. Doc' \in Docs(C) /\ lines' = r.doc.lines /\ OneStep
  BY <1>4, <1>5, BecomesUnmarked
<1>7. InPlace(lines, cur)'
  BY <1>4, <1>5, <1>6 DEF InPlace
<1>8. undo'.level = 0
  BY <1>6 DEF OneStep
<1> QED
  BY <1>1, <1>6, <1>7, <1>8 DEF DocSound, C

(* The cursor goes elsewhere.                                              *)
LEMMA MoveStep ==
  ASSUME IInv, NEW l \in DOMAIN lines, NEW p \in 0 .. Len(lines[l]) + MaxBeyond, Move(l, p)
  PROVE  IInv' /\ OneStep
<1>1. UNCHANGED <<docVars, vertical, encoding, free_form, clips, edits>> /\ cur' = Point(l, p)
      /\ p <= Len(lines[l]) + (IF free_form THEN MaxBeyond ELSE 0)
  BY DEF Move
<1>2. Doc \in Docs(Allowed(encoding))
  BY DEF IInv, DocSound
<1>3. lines \in LinesOf(Allowed(encoding))
  BY <1>2, StateIs
<1>4. l \in 1 .. Len(lines) /\ l \in Nat /\ Len(lines[l]) \in Nat
  BY <1>3, LinesAre
<1>5. p \in Nat /\ (free_form \/ p <= Len(lines[l]))
  BY <1>1, <1>4, BlockBounds
<1>6. InPlace(lines, cur)'
  <2>1. cur' \in [line : Nat, pos : Nat] /\ cur'.line = l /\ cur'.pos = p
    BY <1>1, <1>4, <1>5 DEF Point
  <2> QED
    BY <1>1, <1>4, <1>5, <2>1 DEF InPlace, docVars
<1>7. DocSound'
  BY <1>1, <1>6 DEF IInv, DocSound, Doc, docVars
<1>8. ClipsSound'
  BY <1>1 DEF IInv, ClipsSound
<1>9. OneStep
  BY <1>1 DEF OneStep, IInv, DocSound, docVars
<1> QED
  BY <1>1, <1>7, <1>8, <1>9 DEF IInv

(* The commands that set the mark, or take it away.                        *)
LEMMA PointsStep ==
  ASSUME IInv, NEW e \in Docs(Allowed(encoding)), e.lines = lines, pts' = e.pts, vertical' \in BOOLEAN,
         UNCHANGED <<lines, undo, cur, encoding, free_form, clips, edits>>
  PROVE  IInv' /\ OneStep
<1> DEFINE C == Allowed(encoding)
<1>1. e \in Docs(C) /\ DocSound
  BY DEF IInv
<1> HIDE DEF C
<1>2. Doc' \in Docs(C) /\ OneStep
  BY <1>1, LinesStay
<1>3. Doc' \in Docs(Allowed(encoding))
  BY <1>2 DEF C
<1>4. InPlace(lines, cur)'
  BY <1>1 DEF DocSound, InPlace
<1>5. DocSound'
  BY <1>1, <1>3, <1>4 DEF DocSound
<1>6. ClipsSound'
  BY DEF IInv, ClipsSound
<1> QED
  BY <1>2, <1>5, <1>6 DEF IInv

(* The mark is set where the cursor is.                                    *)
LEMMA MarkStep ==
  ASSUME IInv, NEW v \in BOOLEAN, MarkHere(v)
  PROVE  IInv' /\ OneStep
<1> DEFINE C == Allowed(encoding)
           e == Set(Doc, MARK, Point(cur.line, cur.pos))
<1>1. Doc \in Docs(C) /\ Doc.pts = pts /\ Doc.lines = lines /\ Doc.undo = NoUndo
  BY DEF IInv, DocSound, Doc
<1>2. cur = Point(cur.line, cur.pos) /\ cur.line \in 1 .. Len(Doc.lines) /\ cur.pos \in Int /\ cur.pos >= 0
  BY <1>1 DEF IInv, DocSound, InPlace, Point
<1>3. MARK \in {MARK, START, END}
  OBVIOUS
<1>4. e \in Docs(C) /\ e.lines = Doc.lines
  <2> HIDE DEF C
  <2> QED
    BY ONLY <1>1, <1>2, <1>3, SetDoc
<1>5. e.pts = Updated(pts, MARK, cur)
  <2>1. e = [Doc EXCEPT !.pts = Updated(Doc.pts, MARK, cur)]
    BY <1>2 DEF Set
  <2> HIDE DEF e
  <2>2. e = [lines |-> Doc.lines, pts |-> Updated(Doc.pts, MARK, cur), undo |-> Doc.undo]
    BY <1>1, <2>1, DocChanged
  <2> QED
    BY <1>1, <2>2
<1> HIDE DEF e
<1>6. pts' = e.pts /\ vertical' \in BOOLEAN /\ UNCHANGED <<lines, undo, cur, encoding, free_form, clips, edits>>
  BY <1>5 DEF MarkHere
<1> QED
  BY <1>1, <1>4, <1>6, PointsStep

(* The mark is taken away.                                                 *)
LEMMA UnmarkStep ==
  ASSUME IInv, Unmark
  PROVE  IInv' /\ OneStep
<1> DEFINE e == Unmarked(Doc)
<1>1. Doc \in Docs(Allowed(encoding)) /\ Doc.lines = lines
  BY DEF IInv, DocSound, Doc
<1>2. e \in Docs(Allowed(encoding)) /\ e.lines = lines
  BY <1>1, UnmarkedDoc
<1>3. pts' = e.pts /\ vertical' \in BOOLEAN /\ UNCHANGED <<lines, undo, cur, encoding, free_form, clips, edits>>
  BY DEF Unmark, IInv
<1> HIDE DEF e
<1> QED
  BY <1>2, <1>3, PointsStep

(* The cursor goes to the mark.                                            *)
LEMMA GotoMarkStep ==
  ASSUME IInv, GotoMark
  PROVE  IInv' /\ OneStep
<1>1. UNCHANGED <<docVars, vertical, encoding, free_form, clips, edits>> /\ Marking
      /\ cur' = Goto(lines, Mark.line, Mark.pos)
  BY DEF GotoMark
<1>2. Doc \in Docs(Allowed(encoding)) /\ InPlace(lines, cur)
  BY DEF IInv, DocSound
<1>3. lines \in LinesOf(Allowed(encoding))
  BY <1>2, StateIs
<1>4. Mark.line \in Nat /\ Mark.line \in 1 .. Len(lines) /\ Mark.pos \in Nat
  BY <1>1, <1>2, MarkIs DEF OnText
<1>5. InPlace(lines, Goto(lines, Mark.line, Mark.pos))
  BY <1>3, <1>4, GotoIs
<1>6. InPlace(lines, cur)'
  BY <1>1, <1>5 DEF InPlace, docVars
<1>7. DocSound'
  BY <1>1, <1>6 DEF IInv, DocSound, Doc, docVars
<1>8. ClipsSound'
  BY <1>1 DEF IInv, ClipsSound
<1>9. OneStep
  BY <1>1 DEF OneStep, IInv, DocSound, docVars
<1> QED
  BY <1>1, <1>7, <1>8, <1>9 DEF IInv

(* The commands that change a clip count.                                  *)
LEMMA EditCounts ==
  ASSUME edits \in 0 .. MaxEdits, Edit
  PROVE  edits' \in 0 .. MaxEdits
BY BlockBounds DEF Edit

(* Copy.                                                                   *)
LEMMA CopyStep ==
  ASSUME IInv, NEW n \in Clips, Copy(n)
  PROVE  IInv' /\ OneStep
<1> DEFINE C == Allowed(encoding)
<1>1. Marking /\ Edit /\ clips' = BlockClip(n, Block) /\ Become(Unmarked(Doc))
      /\ UNCHANGED <<cur, vertical, encoding, free_form>>
  BY DEF Copy
<1>2. DocSound /\ ClipsSound /\ Doc \in Docs(C) /\ InPlace(lines, cur)
  BY DEF IInv, DocSound
<1> HIDE DEF C
<1>3. Counts(lines, 0, Doc) /\ Doc.lines = lines
  BY <1>2, StateIs DEF Ready
<1>4. Doc' \in Docs(C) /\ lines' = lines /\ OneStep
  BY <1>1, <1>2, <1>3, BecomesUnmarked
<1>5. InPlace(lines, cur)'
  BY <1>1, <1>2, <1>4 DEF InPlace
<1>6. undo'.level = 0
  BY <1>4 DEF OneStep
<1>7. DocSound'
  BY <1>1, <1>2, <1>4, <1>5, <1>6 DEF DocSound, C
<1>8. ClipsSound'
  BY <1>1, <1>2, BlockClipped
<1>9. edits' \in 0 .. MaxEdits
  BY <1>1, EditCounts DEF IInv
<1> QED
  BY <1>1, <1>4, <1>7, <1>8, <1>9 DEF IInv

(* Cut.                                                                    *)
LEMMA CutStep ==
  ASSUME IInv, NEW n \in Clips, Cut(n)
  PROVE  IInv' /\ OneStep
<1>1. Marking /\ Edit /\ clips' = BlockClip(n, Block) /\ BlockErased(Erased(Doc))
      /\ UNCHANGED <<vertical, encoding, free_form>>
  BY DEF Cut
<1>2. DocSound /\ ClipsSound
  BY DEF IInv
<1>3. DocSound' /\ OneStep
  BY <1>1, <1>2, BlockTaken
<1>4. ClipsSound'
  BY <1>1, <1>2, BlockClipped
<1>5. edits' \in 0 .. MaxEdits
  BY <1>1, EditCounts DEF IInv
<1> QED
  BY <1>1, <1>3, <1>4, <1>5 DEF IInv

(* Erase.                                                                  *)
LEMMA EraseStep ==
  ASSUME IInv, Erase
  PROVE  IInv' /\ OneStep
<1>1. Marking /\ Edit /\ BlockErased(Erased(Doc)) /\ UNCHANGED <<vertical, encoding, free_form, clips>>
  BY DEF Erase
<1>2. DocSound /\ ClipsSound
  BY DEF IInv
<1>3. DocSound' /\ OneStep
  BY <1>1, <1>2, BlockTaken
<1>4. ClipsSound'
  BY <1>1, <1>2 DEF ClipsSound
<1>5. edits' \in 0 .. MaxEdits
  BY <1>1, EditCounts DEF IInv
<1> QED
  BY <1>1, <1>3, <1>4, <1>5 DEF IInv

(* Paste and PasteVert.                                                    *)
LEMMA PasteStep ==
  ASSUME IInv, NEW n \in Clips, NEW v \in BOOLEAN, Paste(n, v)
  PROVE  IInv' /\ OneStep
<1> DEFINE c == clips[n]
           C == Allowed(Takes(c))
           e == Pasted(Doc, cur, c.cs, v)
<1>1. n \in DOMAIN clips /\ Compatible(c) /\ Edit /\ Become(e) /\ encoding' = Takes(c)
      /\ UNCHANGED <<cur, vertical, free_form, clips>>
  BY DEF Paste, BecomeFitting
<1>2. encoding \in Encodings /\ Doc \in Docs(Allowed(encoding)) /\ InPlace(lines, cur) /\ ClipsSound
  BY DEF IInv, DocSound
<1>3. c \in SoundClips
  BY <1>1 DEF IInv, ClipsSound
<1> HIDE DEF c
<1>4. Takes(c) \in Encodings /\ Allowed(encoding) \subseteq C /\ c.cs \in Seq(C \cup {NL})
  BY <1>1, <1>2, <1>3, TakesIs
<1>5. NL \notin C /\ Space \in C
  BY <1>4, AllowedIs
<1> HIDE DEF C
<1>6. Doc \in Docs(C)
  BY <1>2, <1>4, DocsWider
<1>7. Ready(lines, 0, Doc) /\ Doc.lines = lines
  BY <1>6, StateIs
<1>8. e \in Docs(C) /\ Counts(lines, 0, e) /\ InPlace(e.lines, cur)
  <2> DEFINE s == c.cs
  <2>1. s \in Seq(C \cup {NL}) /\ e = Pasted(Doc, cur, s, v)
    BY <1>4
  <2>2. InPlace(Doc.lines, cur) /\ 0 \in Nat
    BY <1>2, <1>7
  <2> HIDE DEF s, e
  <2> QED
    BY <1>5, <1>6, <1>7, <2>1, <2>2, PastedDoc
<1> HIDE DEF e
<1>9. Doc' \in Docs(C) /\ lines' = e.lines /\ OneStep
  BY <1>1, <1>8, Becomes
<1>10. InPlace(lines, cur)'
  BY <1>1, <1>8, <1>9 DEF InPlace
<1>11. undo'.level = 0
  BY <1>9 DEF OneStep
<1>12. DocSound'
  BY <1>1, <1>4, <1>9, <1>10, <1>11 DEF DocSound, C
<1>13. ClipsSound'
  BY <1>1, <1>2 DEF ClipsSound
<1>14. edits' \in 0 .. MaxEdits
  BY <1>1, EditCounts DEF IInv
<1> QED
  BY <1>1, <1>9, <1>12, <1>13, <1>14 DEF IInv

(* What a file or a filter writes makes a sound clip.                      *)
LEMMA StreamClip ==
  ASSUME NEW s \in Streams
  PROVE  Clip(s, "ASCII") \in SoundClips
<1>1. s \in Seq(Char \cup {NL})
  BY StreamAssumption
<1> QED
  BY <1>1, ClipIs

(* OpenClip.                                                               *)
LEMMA OpenClipStep ==
  ASSUME IInv, NEW n \in Clips, NEW s \in Streams, OpenClip(n, s)
  PROVE  IInv' /\ OneStep
<1> DEFINE c == Clip(s, "ASCII")
<1>1. Edit /\ clips' = Updated(clips, n, c) /\ UNCHANGED <<docVars, cur, vertical, encoding, free_form>>
  BY DEF OpenClip
<1>2. c \in SoundClips
  BY StreamClip
<1> HIDE DEF c
<1>3. ClipsSound'
  BY <1>1, <1>2, ClipBecomes DEF IInv
<1>4. InPlace(lines, cur)'
  BY <1>1 DEF IInv, DocSound, InPlace, docVars
<1>5. DocSound'
  BY <1>1, <1>4 DEF IInv, DocSound, Doc, docVars
<1>6. OneStep
  BY <1>1 DEF OneStep, IInv, DocSound, docVars
<1>7. edits' \in 0 .. MaxEdits
  BY <1>1, EditCounts DEF IInv
<1> QED
  BY <1>1, <1>3, <1>5, <1>6, <1>7 DEF IInv

(* A filter that has written c, when the block has been taken out.         *)
LEMMA ThroughEnds ==
  ASSUME DocSound, ClipsSound, NEW r, LeftWith(Allowed(encoding), 1, r), NEW c \in SoundClips,
         ThroughDone(r, c), UNCHANGED free_form
  PROVE  DocSound' /\ ClipsSound' /\ OneStep
<1> DEFINE C == Allowed(encoding')
           e == IF Compatible(c) THEN Pasted(r.doc, r.cur, c.cs, vertical') ELSE r.doc
           f == end_undo_chain(e)
           k == [c EXCEPT !.cs = <<>>]
<1>1. Become(Unmarked(f)) /\ cur' = r.cur /\ clips' = Updated(clips, THROUGH, k)
      /\ encoding' = IF Compatible(c) THEN Takes(c) ELSE encoding
  BY DEF ThroughDone, BecomeFitting
<1>2. encoding \in Encodings
  BY DEF DocSound
<1>3. encoding' \in Encodings /\ Allowed(encoding) \subseteq C /\ (Compatible(c) => c.cs \in Seq(C \cup {NL}))
  <2>1. CASE Compatible(c)
    <3>1. encoding' = Takes(c)
      BY <1>1, <2>1
    <3> QED
      BY <1>2, <2>1, <3>1, TakesIs
  <2>2. CASE ~Compatible(c)
    BY <1>1, <1>2, <2>2
  <2> QED
    BY <2>1, <2>2
<1>4. NL \notin C /\ Space \in C
  <2> DEFINE enc == encoding'
  <2>1. enc \in Encodings
    BY <1>3
  <2> HIDE DEF enc
  <2>2. NL \notin Allowed(enc) /\ Space \in Allowed(enc)
    BY <2>1, AllowedIs
  <2> QED
    BY <2>2 DEF enc
<1> HIDE DEF C
<1>5. r.doc \in Docs(Allowed(encoding)) /\ Counts(lines, 1, r.doc) /\ InPlace(r.doc.lines, r.cur)
  BY DEF LeftWith
<1>6. r.doc \in Docs(C)
  BY <1>3, <1>5, DocsWider
<1>7. Ready(lines, 1, r.doc) /\ 1 \in Nat
  BY <1>5, <1>6, CountsOn
<1>8. e \in Docs(C) /\ Counts(lines, 1, e) /\ InPlace(e.lines, r.cur)
  <2>1. CASE Compatible(c)
    <3> DEFINE s == c.cs
               d == r.doc
               at == r.cur
               v == vertical'
    <3>1. e = Pasted(d, at, s, v) /\ s \in Seq(C \cup {NL})
      BY <1>3, <2>1
    <3>2. d \in Docs(C) /\ Ready(lines, 1, d) /\ InPlace(d.lines, at)
      BY <1>5, <1>6, <1>7
    <3> HIDE DEF s, d, at, v, e
    <3> QED
      BY ONLY <1>4, <1>7, <3>1, <3>2, PastedDoc DEF at
  <2>2. CASE ~Compatible(c)
    BY <1>5, <1>6, <2>2
  <2> QED
    BY <2>1, <2>2
<1> HIDE DEF e
<1>9. f \in Docs(C) /\ f.lines = e.lines
  BY <1>8, EndDoc
<1>10. Counts(lines, 0, f)
  <2>1. 0 \in Nat /\ 0 + 1 = 1
    OBVIOUS
  <2> DEFINE n == 0
  <2>2. n \in Nat /\ Counts(lines, n + 1, e)
    BY <1>8, <2>1
  <2> HIDE DEF n
  <2>3. Counts(lines, n, end_undo_chain(e))
    BY <1>8, <2>2, CountsOn
  <2> QED
    BY <2>3 DEF n
<1> HIDE DEF f
<1>11. Doc' \in Docs(C) /\ lines' = f.lines /\ OneStep
  BY <1>1, <1>9, <1>10, BecomesUnmarked
<1>12. InPlace(lines, cur)'
  BY <1>1, <1>8, <1>9, <1>11 DEF InPlace
<1>13. undo'.level = 0
  BY <1>11 DEF OneStep
<1>14. DocSound'
  BY <1>3, <1>11, <1>12, <1>13 DEF DocSound, C
<1>15. k \in SoundClips /\ THROUGH \in Clips \cup {THROUGH}
  BY SoundClipIs
<1> HIDE DEF k
<1>16. ClipsSound'
  BY <1>1, <1>15, ClipBecomes
<1> QED
  BY <1>11, <1>14, <1>16

(* Through, with a filter that ends well.                                  *)
LEMMA ThroughStep ==
  ASSUME IInv, NEW s \in Streams, Through(s)
  PROVE  IInv' /\ OneStep
<1> DEFINE C == Allowed(encoding)
           c == Clip(s, "ASCII")
           d == start_undo_chain(Doc)
           r == IF Marking THEN Erased(d) ELSE [doc |-> d, cur |-> cur]
<1>1. Edit /\ vertical' = (vertical /\ Marking) /\ ThroughDone(r, c) /\ UNCHANGED free_form
  BY DEF Through
<1>2. DocSound /\ ClipsSound /\ Doc \in Docs(C) /\ InPlace(lines, cur)
  BY DEF IInv, DocSound
<1>3. c \in SoundClips
  BY StreamClip
<1> HIDE DEF C, c
<1>4. Doc.lines = lines /\ Doc.pts = pts /\ Ready(lines, 0, Doc)
  BY <1>2, StateIs
<1>5. d \in Docs(C) /\ d.lines = lines /\ d.pts = pts
  BY <1>2, <1>4, StartDoc
<1>6. Ready(lines, 1, d)
  <2> DEFINE n == 0
  <2>1. n \in Nat /\ Ready(lines, n, Doc) /\ n + 1 = 1
    BY <1>4
  <2> HIDE DEF n
  <2>2. Ready(lines, n + 1, d)
    BY <1>2, <2>1, CountsOn
  <2> QED
    BY <2>1, <2>2
<1> HIDE DEF d
<1>7. LeftWith(C, 1, r)
  <2>1. CASE Marking
    <3>1. MARK \in DOMAIN d.pts /\ 1 \in Nat /\ r = Erased(d)
      BY <1>5, <2>1 DEF Marking
    <3> HIDE DEF r
    <3> QED
      BY <1>2, <1>5, <1>6, <2>1, <3>1, ErasedDoc DEF C
  <2>2. CASE ~Marking
    <3>1. r.doc = d /\ r.cur = cur
      BY <2>2
    <3> HIDE DEF r
    <3> QED
      BY <1>2, <1>5, <1>6, <3>1 DEF LeftWith, Ready
  <2> QED
    BY <2>1, <2>2
<1> HIDE DEF r
<1>8. DocSound' /\ ClipsSound' /\ OneStep
  BY <1>1, <1>2, <1>3, <1>7, ThroughEnds DEF C
<1>9. edits' \in 0 .. MaxEdits
  BY <1>1, EditCounts DEF IInv
<1>10. vertical' \in BOOLEAN /\ free_form' \in BOOLEAN
  BY <1>1 DEF IInv
<1> QED
  BY <1>8, <1>9, <1>10 DEF IInv

(* Through, when the filter fails: no more than its clip changes.          *)
LEMMA ThroughFailsStep ==
  ASSUME IInv, ThroughFails
  PROVE  IInv' /\ OneStep
<1>1. Edit /\ vertical' = (vertical /\ Marking) /\ UNCHANGED <<docVars, cur, encoding, free_form>>
      /\ clips' = IF Marking THEN BlockClip(THROUGH, Block) ELSE [clips EXCEPT ![THROUGH].cs = <<>>]
  BY DEF ThroughFails
<1>2. DocSound /\ ClipsSound /\ THROUGH \in Clips \cup {THROUGH}
  BY DEF IInv
<1>3. ClipsSound'
  <2>1. CASE Marking
    <3>1. clips' = BlockClip(THROUGH, Block)
      BY <1>1, <2>1
    <3> QED
      BY <1>2, <2>1, <3>1, BlockClipped
  <2>2. CASE ~Marking
    <3> DEFINE k == [clips[THROUGH] EXCEPT !.cs = <<>>]
    <3>1. clips \in [DOMAIN clips -> SoundClips] /\ THROUGH \in DOMAIN clips
      BY <1>2 DEF ClipsSound
    <3>2. k \in SoundClips
      BY <3>1, SoundClipIs
    <3>3. clips' = [clips EXCEPT ![THROUGH] = k]
      BY <1>1, <2>2
    <3> HIDE DEF k
    <3>4. clips' \in [DOMAIN clips -> SoundClips] /\ DOMAIN clips' = DOMAIN clips
      BY <3>1, <3>2, <3>3
    <3> QED
      BY <1>2, <3>1, <3>4 DEF ClipsSound
  <2> QED
    BY <2>1, <2>2
<1>4. InPlace(lines, cur)'
  BY <1>1 DEF IInv, DocSound, InPlace, docVars
<1>5. DocSound'
  BY <1>1, <1>4 DEF IInv, DocSound, Doc, docVars
<1>6. OneStep
  BY <1>1 DEF OneStep, IInv, DocSound, docVars
<1>7. edits' \in 0 .. MaxEdits
  BY <1>1, EditCounts DEF IInv
<1> QED
  BY <1>1, <1>3, <1>5, <1>6, <1>7 DEF IInv
-----------------------------------------------------------------------------
(* A new document, and its clip for Through.                               *)
LEMMA InitSound ==
  ASSUME Init
  PROVE  IInv
<1>1. PICK t \in Files : lines = Split(t) /\ encoding = Detect(t)
  BY DEF Init
<1>2. t \in Seq(Char \cup {NL})
  BY StreamAssumption
<1>3. encoding \in Encodings /\ t \in Seq(Allowed(encoding) \cup {NL})
  BY <1>1, <1>2, DetectHolds
<1> DEFINE C == Allowed(encoding)
<1>4. lines \in LinesOf(C)
  <2> HIDE DEF C
  <2>1. t \in Seq(C \cup {NL})
    BY <1>3 DEF C
  <2> QED
    BY <1>1, <2>1, SplitType
<1> HIDE DEF C
<1>5. pts = <<>> /\ undo = NoUndo /\ cur = Point(1, 0) /\ vertical = FALSE /\ free_form \in BOOLEAN
      /\ clips = [n \in {THROUGH} |-> [cs |-> <<>>, encoding |-> "ASCII"]] /\ edits = 0
  BY DEF Init
<1>6. pts \in Points /\ OnLines(pts, Len(lines))
  <2>1. DOMAIN pts = {}
    BY <1>5
  <2>2. pts \in [DOMAIN pts -> [line : Nat, pos : Int]]
    BY <1>5, <2>1
  <2> QED
    BY <2>1, <2>2, PointsAre DEF OnLines
<1>7. NoUndo \in Undos /\ NoUndo.level = 0
  BY DEF NoUndo, Undos
<1>8. Doc \in Docs(C)
  BY <1>4, <1>6, <1>7, DocMade DEF Doc
<1>9. InPlace(lines, cur)
  <2>1. Len(lines) \in Nat \ {0} /\ Len(lines[1]) \in Nat
    BY <1>4, LinesAre
  <2>2. cur \in [line : Nat, pos : Nat] /\ cur.line = 1 /\ cur.pos = 0
    BY <1>5 DEF Point
  <2> QED
    BY <2>1, <2>2 DEF InPlace
<1>10. ClipsSound
  <2>1. [cs |-> <<>>, encoding |-> "ASCII"] \in SoundClips
    <3>1. <<>> \in Seq(Char \cup {NL}) /\ <<>> \in Seq(Allowed("ASCII") \cup {NL})
      OBVIOUS
    <3> QED
      BY <3>1 DEF SoundClips, Encodings
  <2> QED
    BY <1>5, <2>1 DEF ClipsSound
<1>11. DocSound
  BY <1>3, <1>5, <1>7, <1>8, <1>9 DEF DocSound, C
<1>12. edits \in 0 .. MaxEdits
  BY <1>5, BlockBounds
<1>13. vertical \in BOOLEAN /\ free_form \in BOOLEAN
  BY <1>5
<1> QED
  BY <1>10, <1>11, <1>12, <1>13 DEF IInv

(* Each step keeps the invariant, and is one step to undo.                 *)
LEMMA NextSound ==
  ASSUME IInv, [Next]_vars
  PROVE  IInv' /\ OneStep
<1>1. CASE UNCHANGED vars
  <2>1. UNCHANGED <<lines, pts, undo, cur, vertical, encoding, free_form, clips, edits>>
    BY <1>1 DEF vars, docVars
  <2>2. InPlace(lines, cur)'
    BY <2>1 DEF IInv, DocSound, InPlace
  <2>3. DocSound'
    BY <2>1, <2>2 DEF IInv, DocSound, Doc
  <2>4. ClipsSound'
    BY <2>1 DEF IInv, ClipsSound
  <2> QED
    BY <2>1, <2>3, <2>4 DEF IInv, DocSound, OneStep
<1>2. CASE Next
  BY <1>2, MoveStep, MarkStep, UnmarkStep, GotoMarkStep, CopyStep, CutStep, EraseStep, PasteStep,
     OpenClipStep, ThroughStep, ThroughFailsStep DEF Next
<1> QED
  BY <1>1, <1>2

(* Characters that an encoding allows are held by it.                      *)
LEMMA AllowedHolds ==
  ASSUME NEW enc \in Encodings, NEW S, S \subseteq Allowed(enc)
  PROVE  Holds(enc, S)
BY DEF Holds, Allowed

(* What the inductive invariant says of the encodings.                     *)
LEMMA IInvSound ==
  ASSUME IInv
  PROVE  EncodingSound
<1> DEFINE C == Allowed(encoding)
<1>1. encoding \in Encodings /\ Doc \in Docs(C) /\ InPlace(lines, cur) /\ ClipsSound
  BY DEF IInv, DocSound
<1>2. C \subseteq Char
  BY <1>1, AllowedIs
<1> HIDE DEF C
<1>3. lines \in LinesOf(C) /\ pts \in Points /\ OnLines(pts, Len(lines))
  BY <1>1, StateIs
<1>4. DOMAIN lines = 1 .. Len(lines) /\ lines # <<>> /\ \A l \in 1 .. Len(lines) : lines[l] \in Seq(C)
  BY <1>3, LinesAre DEF LinesOf
<1>5. lines \in Seq(Seq(Char))
  <2>1. Seq(C) \subseteq Seq(Char)
    BY <1>2
  <2> QED
    BY <1>3, <2>1 DEF LinesOf
<1>6. DOMAIN pts \subseteq {MARK, START, END}
  BY <1>3, PointsAre
<1>7. ASSUME NEW x \in DOMAIN pts PROVE pts[x].line \in DOMAIN lines /\ pts[x].pos \in Int
  BY <1>3, <1>4, <1>7, PointIs DEF OnLines
<1>8. Marking => Mark.pos >= 0
  BY <1>3 DEF OnLines, Marking, Mark
<1>9. cur.line \in DOMAIN lines /\ cur.pos \in Nat /\ (free_form \/ cur.pos <= Len(lines[cur.line]))
  BY <1>1, <1>4 DEF InPlace
<1>10. TypeOK
  BY <1>1, <1>4, <1>5, <1>6, <1>7, <1>8, <1>9 DEF TypeOK, IInv, ClipsSound, Encodings
<1>11. Holds(encoding, Chars(lines))
  <2>1. Chars(lines) \subseteq C
    <3>1. \A l \in DOMAIN lines : Range(lines[l]) \subseteq C
      BY <1>4 DEF Range
    <3> QED
      BY <3>1 DEF Chars
  <2> QED
    BY <1>1, <2>1, AllowedHolds DEF C
<1>12. ASSUME NEW n \in DOMAIN clips PROVE Holds(clips[n].encoding, Range(clips[n].cs) \ {NL})
  <2> DEFINE c == clips[n]
  <2>1. c \in SoundClips
    BY <1>1 DEF ClipsSound
  <2> HIDE DEF c
  <2>2. c.encoding \in Encodings /\ c.cs \in Seq(Allowed(c.encoding) \cup {NL})
    BY <2>1, SoundClipIs
  <2>3. Range(c.cs) \ {NL} \subseteq Allowed(c.encoding)
    BY <2>2 DEF Range
  <2>4. Holds(c.encoding, Range(c.cs) \ {NL})
    BY <2>2, <2>3, AllowedHolds
  <2> QED
    BY <2>4 DEF c
<1> QED
  BY <1>10, <1>11, <1>12 DEF EncodingSound

(* Whatever is loaded, cut, pasted and filtered, no text and no clip holds *)
(* a character that its encoding does not, and the cursor, the mark and    *)
(* the bookmarks are in the document.                                      *)
THEOREM EncodingIsSound == Spec => []EncodingSound
<1>1. Init => IInv
  BY InitSound
<1>2. IInv /\ [Next]_vars => IInv'
  BY NextSound
<1>3. IInv => EncodingSound
  BY IInvSound
<1> QED
  BY <1>1, <1>2, <1>3, PTL DEF Spec

(* Each command on the block or on a clip, however many insertions and     *)
(* deletions it is made of, leaves no open chain and one step to undo.     *)
THEOREM OneStepToUndo == Spec => OneUndoStep
<1>1. Init => IInv
  BY InitSound
<1>2. IInv /\ [Next]_vars => IInv'
  BY NextSound
<1>3. IInv /\ [Next]_vars => [undo'.level = 0 /\ (lines' # lines => undo'.groups = 1)]_vars
  BY NextSound DEF OneStep
<1> QED
  BY <1>1, <1>2, <1>3, PTL DEF Spec, OneUndoStep
=============================================================================
