------------------------- MODULE FlatDocumentProofs -------------------------
(***************************************************************************)
(* TextLines implements FlatDocument: whatever the lines and their memory  *)
(* go through, insert_stream() and delete_stream() (buffer.c) do to the    *)
(* document what they promise, and the marks stay at their bytes.          *)
(*                                                                         *)
(* The proof is in three parts: what a change of one line, a break and a   *)
(* join are in the flattened text; that the pools keep the bytes of the    *)
(* lines that an action does not touch; and the actions.                   *)
(***************************************************************************)
EXTENDS TextLinesProofs, FlatTextProofs

(* The texts of the lines of a document.                                   *)
AreTexts(ts) == ts \in Seq(Seq(Byte)) /\ ts # <<>>

(* The line k of such a document.                                          *)
LEMMA TextIs ==
  ASSUME NEW ts, AreTexts(ts)
  PROVE  /\ Len(ts) \in Nat \ {0} /\ DOMAIN ts = 1 .. Len(ts)
         /\ \A k \in 1 .. Len(ts) : ts[k] \in Seq(Byte) /\ Len(ts[k]) \in Nat
BY DEF AreTexts

(* The places before a line are finitely many.                             *)
LEMMA PlacesFinite ==
  ASSUME NEW ts, AreTexts(ts), NEW l \in 1 .. Len(ts) + 1
  PROVE  IsFiniteSet(Places(ts, l)) /\ Start(ts, l) \in Nat
<1> DEFINE K == 1 .. l - 1
           f == [k \in K |-> {k} \X (0 .. Len(ts[k]))]
           T == {{k} \X (0 .. Len(ts[k])) : k \in K}
<1>0. Len(ts) \in Nat \ {0} /\ l \in Nat /\ \A k \in K : k \in 1 .. Len(ts) /\ Len(ts[k]) \in Nat
  BY TextIs
<1>1. IsFiniteSet(K)
  BY <1>0, FS_Interval
<1>2. \A k \in K : IsFiniteSet({k} \X (0 .. Len(ts[k])))
  <2> TAKE k \in K
  <2> DEFINE n == Len(ts[k])
             D == 0 .. n
  <2>1. n \in Nat
    BY <1>0
  <2> HIDE DEF n
  <2>2. IsFiniteSet(D)
    BY <2>1, FS_Interval
  <2>3. IsFiniteSet({k})
    BY FS_Singleton
  <2> HIDE DEF D
  <2>4. IsFiniteSet({k} \X D)
    BY <2>2, <2>3, FS_Product
  <2> QED
    BY <2>4 DEF D, n
<1> HIDE DEF K
<1>3. f \in [K -> T] /\ \A t \in T : \E k \in K : f[k] = t
  OBVIOUS
<1>4. f \in Surjection(K, T)
  BY <1>3 DEF Surjection
<1>5. IsFiniteSet(T)
  <2> HIDE DEF T, f
  <2> QED
    BY ONLY <1>1, <1>4, FS_Surjection
<1>6. \A t \in T : IsFiniteSet(t)
  BY <1>2
<1>7. Places(ts, l) = UNION T
  BY DEF Places, K
<1> HIDE DEF T
<1>8. IsFiniteSet(UNION T)
  BY <1>5, <1>6, FS_UNION
<1> QED
  BY <1>7, <1>8, FS_CardinalityType DEF Start

(* The first line is at the beginning.                                     *)
LEMMA StartFirst ==
  ASSUME NEW ts
  PROVE  Start(ts, 1) = 0
<1>1. Places(ts, 1) = {}
  BY DEF Places
<1> QED
  BY <1>1, FS_EmptySet DEF Start

(* The next line is after the line and its end.                            *)
LEMMA StartNext ==
  ASSUME NEW ts, AreTexts(ts), NEW l \in 1 .. Len(ts)
  PROVE  /\ Start(ts, l + 1) = Start(ts, l) + Len(ts[l]) + 1
         /\ Start(ts, l) \in Nat /\ Start(ts, l + 1) \in Nat
<1> DEFINE n == Len(ts[l])
           D == 0 .. n
           P == Places(ts, l)
           Q == Bytes_(l, D)
<1>0. Len(ts) \in Nat \ {0} /\ n \in Nat /\ l \in Nat
  BY TextIs
<1>1. l \in 1 .. Len(ts) + 1 /\ l + 1 \in 1 .. Len(ts) + 1
  BY <1>0
<1>2. IsFiniteSet(P) /\ Start(ts, l) \in Nat /\ Start(ts, l + 1) \in Nat
  BY <1>1, PlacesFinite
<1>3. IsFiniteSet(D) /\ Cardinality(D) = n + 1
  <2> HIDE DEF n
  <2>1. n \in Int /\ 0 \in Int /\ n >= 0 /\ n - 0 + 1 = n + 1 /\ n \in Nat
    BY <1>0
  <2>2. Cardinality(0 .. n) = (IF 0 > n THEN 0 ELSE n - 0 + 1) /\ IsFiniteSet(0 .. n)
    BY ONLY <2>1, FS_Interval
  <2> QED
    BY <2>1, <2>2
<1>4. IsFiniteSet(Q) /\ Cardinality(Q) = n + 1
  <2> HIDE DEF D, n
  <2> QED
    BY <1>3, BytesCount
<1>5. {l} \X D = Q
  BY DEF Bytes_
<1>6. P \cap Q = {}
  <2>1. \A a \in P : a[1] \in 1 .. l - 1
    BY DEF Places
  <2>2. \A a \in Q : a[1] = l
    BY DEF Bytes_
  <2> QED
    BY <1>0, <2>1, <2>2
<1>7. 1 .. (l + 1) - 1 = (1 .. l - 1) \cup {l}
  BY <1>0
<1>8. Places(ts, l + 1) = P \cup Q
  BY <1>5, <1>7 DEF Places
<1> HIDE DEF P, Q, n
<1>9. Cardinality(P \cup Q) = Cardinality(P) + Cardinality(Q)
  BY <1>2, <1>4, <1>6, CountAdded
<1>10. Cardinality(P \cup Q) = Cardinality(P) + n + 1
  <2> DEFINE cp == Cardinality(P)
             cq == Cardinality(Q)
  <2>1. cp \in Nat /\ cq = n + 1 /\ Cardinality(P \cup Q) = cp + cq /\ n \in Nat
    BY <1>0, <1>2, <1>4, <1>9, FS_CardinalityType
  <2> HIDE DEF cp, cq
  <2>2. Cardinality(P \cup Q) = cp + n + 1
    BY <2>1
  <2> QED
    BY <2>2 DEF cp
<1>11. Start(ts, l + 1) = Cardinality(P \cup Q) /\ Start(ts, l) = Cardinality(P)
  BY <1>8 DEF Start, P
<1> QED
  BY <1>2, <1>10, <1>11 DEF n

(* Lines are one after the other.                                          *)
LEMMA StartGrows ==
  ASSUME NEW ts, AreTexts(ts), NEW k \in 1 .. Len(ts) + 1, NEW l \in 1 .. Len(ts) + 1, k <= l
  PROVE  Start(ts, k) <= Start(ts, l) /\ Start(ts, k) \in Nat /\ Start(ts, l) \in Nat
<1>1. Places(ts, k) \subseteq Places(ts, l)
  <2>1. Len(ts) \in Nat \ {0}
    BY TextIs
  <2>2. 1 .. k - 1 \subseteq 1 .. l - 1
    BY <2>1
  <2> QED
    BY <2>2 DEF Places
<1>2. IsFiniteSet(Places(ts, l)) /\ Start(ts, k) \in Nat /\ Start(ts, l) \in Nat
  BY PlacesFinite
<1> QED
  BY <1>1, <1>2, FS_Subset DEF Start

(* The n lines of us from b on are as long as those of ts from a on.       *)
AsLong(ts, a, us, b, n) ==
  /\ AreTexts(ts) /\ AreTexts(us) /\ a \in Nat \ {0} /\ b \in Nat \ {0} /\ n \in Nat
  /\ a + n <= Len(ts) + 1 /\ b + n <= Len(us) + 1
  /\ \A i \in 0 .. n - 1 : Len(us[b + i]) = Len(ts[a + i])

(* Then they are as far from each other.                                   *)
LEMMA StartShifts ==
  ASSUME NEW ts, NEW us, NEW a, NEW b, NEW n, AsLong(ts, a, us, b, n)
  PROVE  \A i \in 0 .. n : Start(us, b + i) = Start(ts, a + i) + Start(us, b) - Start(ts, a)
<1> DEFINE T == {i \in 0 .. n : Start(us, b + i) # Start(ts, a + i) + Start(us, b) - Start(ts, a)}
<1> USE DEF AsLong
<1>0. Len(ts) \in Nat /\ Len(us) \in Nat
  BY TextIs
<1> SUFFICES T = {}
  OBVIOUS
<1> SUFFICES ASSUME T # {} PROVE FALSE
  OBVIOUS
<1>1. PICK i \in T : \A j \in T : i <= j
  <2>1. T \subseteq Nat
    OBVIOUS
  <2> HIDE DEF T
  <2> QED
    BY <2>1, Least
<1>2. i \in 0 .. n /\ Start(us, b + i) # Start(ts, a + i) + Start(us, b) - Start(ts, a)
  BY <1>1
<1>3. Start(ts, a) \in Nat /\ Start(us, b) \in Nat
  BY <1>0, PlacesFinite
<1>4. i # 0
  BY <1>2, <1>3
<1> DEFINE k == i - 1
<1>5. k \in 0 .. n - 1 /\ k \in 0 .. n /\ ~(i <= k) /\ a + k \in 1 .. Len(ts) /\ b + k \in 1 .. Len(us)
      /\ (a + k) + 1 = a + i /\ (b + k) + 1 = b + i
  BY <1>0, <1>2, <1>4
<1>6. Start(us, b + k) = Start(ts, a + k) + Start(us, b) - Start(ts, a)
  BY <1>1, <1>5
<1>7. Start(ts, a + i) = Start(ts, a + k) + Len(ts[a + k]) + 1 /\ Start(ts, a + k) \in Nat
  BY <1>5, StartNext
<1>8. Start(us, b + i) = Start(us, b + k) + Len(us[b + k]) + 1 /\ Start(us, b + k) \in Nat
  BY <1>5, StartNext
<1>9. Len(us[b + k]) = Len(ts[a + k]) /\ Len(ts[a + k]) \in Nat
  BY <1>5, TextIs
<1> DEFINE A == Start(ts, a)
           B == Start(us, b)
           Ak == Start(ts, a + k)
           Bk == Start(us, b + k)
           Ai == Start(ts, a + i)
           Bi == Start(us, b + i)
           x == Len(ts[a + k])
<1>10. /\ A \in Nat /\ B \in Nat /\ Ak \in Nat /\ Bk \in Nat /\ x \in Nat
       /\ Bk = Ak + B - A /\ Ai = Ak + x + 1 /\ Bi = Bk + x + 1 /\ Bi # Ai + B - A
  BY <1>2, <1>3, <1>6, <1>7, <1>8, <1>9
<1> HIDE DEF A, B, Ak, Bk, Ai, Bi, x
<1> QED
  BY ONLY <1>10

(* Every offset is at one line.                                            *)
LEMMA LineOf ==
  ASSUME NEW ts, AreTexts(ts), NEW i \in 1 .. Start(ts, Len(ts) + 1)
  PROVE  \E l \in 1 .. Len(ts) : \E p \in 1 .. Len(ts[l]) + 1 : i = Start(ts, l) + p
<1> DEFINE T == {k \in 1 .. Len(ts) : i <= Start(ts, k + 1)}
<1>0. Len(ts) \in Nat \ {0} /\ Len(ts) \in 1 .. Len(ts)
  BY TextIs
<1>1. T # {} /\ T \subseteq Nat
  BY <1>0
<1>2. PICK l \in T : \A k \in T : l <= k
  <2> HIDE DEF T
  <2> QED
    BY <1>1, Least
<1>3. l \in 1 .. Len(ts) /\ i <= Start(ts, l + 1)
  BY <1>2
<1>4. Start(ts, l + 1) = Start(ts, l) + Len(ts[l]) + 1 /\ Start(ts, l) \in Nat /\ Len(ts[l]) \in Nat
  BY <1>3, StartNext, TextIs
<1>5. i > Start(ts, l)
  <2>1. CASE l = 1
    BY <2>1, StartFirst
  <2>2. CASE l # 1
    <3>1. l - 1 \in 1 .. Len(ts) /\ ~(l <= l - 1) /\ (l - 1) + 1 = l
      BY <1>0, <1>3, <2>2
    <3>2. ~(i <= Start(ts, (l - 1) + 1))
      BY <1>2, <3>1
    <3> QED
      BY <1>4, <3>1, <3>2
  <2> QED
    BY <2>1, <2>2
<1> DEFINE p == i - Start(ts, l)
<1>6. p \in 1 .. Len(ts[l]) + 1 /\ i = Start(ts, l) + p
  BY <1>3, <1>4, <1>5
<1> QED
  BY <1>3, <1>6

(* The byte at a place.                                                    *)
LEMMA ByteIs ==
  ASSUME NEW ts, AreTexts(ts), NEW l \in 1 .. Len(ts), NEW p \in 1 .. Len(ts[l]) + 1
  PROVE  ByteAt(ts, Start(ts, l) + p) = IF p <= Len(ts[l]) THEN ts[l][p] ELSE NL
<1> DEFINE i == Start(ts, l) + p
           HasIt(k) == Start(ts, k) < i /\ i <= Start(ts, k + 1)
           c == CHOOSE k \in DOMAIN ts : HasIt(k)
<1>0. Len(ts) \in Nat \ {0} /\ DOMAIN ts = 1 .. Len(ts) /\ Len(ts[l]) \in Nat
  BY TextIs
<1>1. Start(ts, l + 1) = Start(ts, l) + Len(ts[l]) + 1 /\ Start(ts, l) \in Nat
  BY StartNext
<1>2. i \in Nat /\ HasIt(l) /\ i - Start(ts, l) = p
  BY <1>0, <1>1
<1>3. \A k \in 1 .. Len(ts) : HasIt(k) => k = l
  <2> SUFFICES ASSUME NEW k \in 1 .. Len(ts), HasIt(k) PROVE k = l
    OBVIOUS
  <2> HIDE DEF i
  <2>1. CASE k < l
    <3>1. k + 1 \in 1 .. Len(ts) + 1 /\ l \in 1 .. Len(ts) + 1 /\ k + 1 <= l
      BY <1>0, <2>1
    <3>2. Start(ts, k + 1) <= Start(ts, l) /\ Start(ts, k + 1) \in Nat
      BY <3>1, StartGrows
    <3> QED
      BY <1>1, <1>2, <3>2
  <2>2. CASE l < k
    <3>1. l + 1 \in 1 .. Len(ts) + 1 /\ k \in 1 .. Len(ts) + 1 /\ l + 1 <= k
      BY <1>0, <2>2
    <3>2. Start(ts, l + 1) <= Start(ts, k) /\ Start(ts, l + 1) \in Nat /\ Start(ts, k) \in Nat
      BY <3>1, StartGrows
    <3> QED
      BY <1>1, <1>2, <3>2
  <2> QED
    BY <1>0, <2>1, <2>2
<1>4. c = l
  BY <1>0, <1>2, <1>3
<1>5. ByteAt(ts, i) = IF i - Start(ts, c) <= Len(ts[c]) THEN ts[c][i - Start(ts, c)] ELSE NL
  BY DEF ByteAt
<1> HIDE DEF c, i
<1>6. ByteAt(ts, i) = IF p <= Len(ts[l]) THEN ts[l][p] ELSE NL
  BY <1>2, <1>4, <1>5
<1> QED
  BY <1>6 DEF i

(* The flattened text: its length and its bytes.                           *)
LEMMA FlattenedIs ==
  ASSUME NEW ts, AreTexts(ts)
  PROVE  /\ Start(ts, Len(ts) + 1) \in Nat \ {0}
         /\ Flattened(ts) \in Seq(Byte \cup {NL})
         /\ Len(Flattened(ts)) = Start(ts, Len(ts) + 1) - 1
         /\ \A i \in 1 .. Start(ts, Len(ts) + 1) - 1 : Flattened(ts)[i] = ByteAt(ts, i)
<1> DEFINE N == Start(ts, Len(ts) + 1)
<1>0. Len(ts) \in 1 .. Len(ts) /\ Len(ts) \in Nat
  BY TextIs
<1>1. N = Start(ts, Len(ts)) + Len(ts[Len(ts)]) + 1 /\ Start(ts, Len(ts)) \in Nat
      /\ Len(ts[Len(ts)]) \in Nat
  BY <1>0, StartNext, TextIs
<1>2. N \in Nat \ {0}
  BY <1>1
<1>3. ASSUME NEW i \in 1 .. N - 1 PROVE ByteAt(ts, i) \in Byte \cup {NL}
  <2>1. i \in 1 .. N
    BY <1>2
  <2>2. PICK l \in 1 .. Len(ts) : \E p \in 1 .. Len(ts[l]) + 1 : i = Start(ts, l) + p
    BY <2>1, LineOf
  <2>3. PICK p \in 1 .. Len(ts[l]) + 1 : i = Start(ts, l) + p
    BY <2>2
  <2>4. ts[l] \in Seq(Byte)
    BY TextIs
  <2> QED
    BY <2>3, <2>4, ByteIs
<1> HIDE DEF N
<1>4. Flattened(ts) = [i \in 1 .. N - 1 |-> ByteAt(ts, i)]
  BY DEF Flattened, N
<1>5. Flattened(ts) \in Seq(Byte \cup {NL}) /\ Len(Flattened(ts)) = N - 1
  BY <1>2, <1>3, <1>4
<1> QED
  BY <1>2, <1>4, <1>5 DEF N
-----------------------------------------------------------------------------
(* Sequence s put at offset o of t: what Insert() of FlatText makes.       *)
Splice(t, o, s) == SubSeq(t, 1, o) \o s \o SubSeq(t, o + 1, Len(t))

(* What is where.                                                          *)
LEMMA SplicedIs ==
  ASSUME NEW S, NEW t \in Seq(S), NEW s \in Seq(S), NEW o \in 0 .. Len(t)
  PROVE  /\ Splice(t, o, s) \in Seq(S) /\ Len(Splice(t, o, s)) = Len(t) + Len(s)
         /\ \A i \in 1 .. Len(t) + Len(s) :
              Splice(t, o, s)[i] = IF i <= o THEN t[i] ELSE IF i <= o + Len(s) THEN s[i - o] ELSE t[i - Len(s)]
<1> DEFINE h == SubSeq(t, 1, o)
           u == SubSeq(t, o + 1, Len(t))
           n == Len(s)
<1>1. Len(t) \in Nat /\ o \in Nat /\ n \in Nat /\ o <= Len(t)
  OBVIOUS
<1>2. h \in Seq(S) /\ Len(h) = o /\ \A j \in 1 .. o : h[j] = t[j]
  BY <1>1, SubSeqProperties
<1>3. u \in Seq(S) /\ Len(u) = Len(t) - o /\ \A j \in 1 .. Len(t) - o : u[j] = t[o + j]
  BY <1>1, SubSeqProperties
<1> HIDE DEF h, u
<1> DEFINE hs == h \o s
<1>4. hs \in Seq(S) /\ Len(hs) = o + n /\ \A j \in 1 .. o + n : hs[j] = IF j <= o THEN h[j] ELSE s[j - o]
  BY <1>1, <1>2, ConcatProperties
<1> HIDE DEF hs
<1> DEFINE all == hs \o u
<1>5. all \in Seq(S) /\ Len(all) = Len(t) + n
  <2>1. all \in Seq(S) /\ Len(all) = Len(hs) + Len(u)
    BY <1>3, <1>4, ConcatProperties
  <2> HIDE DEF n
  <2>2. Len(hs) + Len(u) = Len(t) + n
    BY <1>1, <1>3, <1>4
  <2> QED
    BY <2>1, <2>2
<1>6. \A j \in 1 .. Len(t) + n : all[j] = IF j <= o + n THEN hs[j] ELSE u[j - (o + n)]
  BY <1>1, <1>3, <1>4, ConcatProperties
<1> HIDE DEF all
<1>7. ASSUME NEW i \in 1 .. Len(t) + n
      PROVE  all[i] = IF i <= o THEN t[i] ELSE IF i <= o + n THEN s[i - o] ELSE t[i - n]
  <2> HIDE DEF n
  <2>1. CASE i <= o
    BY <1>1, <1>2, <1>4, <1>6, <2>1
  <2>2. CASE ~(i <= o) /\ i <= o + n
    BY <1>1, <1>4, <1>6, <2>2
  <2>3. CASE ~(i <= o + n)
    <3>1. ~(i <= o) /\ i - (o + n) \in 1 .. Len(t) - o /\ o + (i - (o + n)) = i - n
      BY <1>1, <2>3
    <3> QED
      BY <1>3, <1>6, <2>3, <3>1
  <2>4. i <= o => i <= o + n
    BY <1>1
  <2> QED
    BY <2>1, <2>2, <2>3, <2>4
<1>8. Splice(t, o, s) = all
  BY DEF Splice, all, hs, h, u
<1>9. \A i \in 1 .. Len(t) + n : all[i] = IF i <= o THEN t[i] ELSE IF i <= o + n THEN s[i - o] ELSE t[i - n]
  BY <1>7
<1> QED
  BY <1>5, <1>8, <1>9 DEF n

(* Two sequences with the same elements.                                   *)
LEMMA SameSeq ==
  ASSUME NEW S, NEW t \in Seq(S), NEW u \in Seq(S), Len(t) = Len(u), \A i \in 1 .. Len(t) : t[i] = u[i]
  PROVE  t = u
<1>1. t = [i \in 1 .. Len(t) |-> t[i]] /\ u = [i \in 1 .. Len(t) |-> u[i]]
  OBVIOUS
<1> QED
  BY <1>1

(* In us line l is the one of ts with s put at q.                          *)
PutIn(ts, l, q, s, us) ==
  /\ AreTexts(ts) /\ AreTexts(us) /\ Len(us) = Len(ts) /\ l \in 1 .. Len(ts)
  /\ s \in Seq(Byte) /\ q \in 0 .. Len(ts[l])
  /\ \A k \in 1 .. Len(ts) : k # l => us[k] = ts[k]
  /\ us[l] = Splice(ts[l], q, s)

(* The lines after it begin later.                                         *)
LEMMA PutStarts ==
  ASSUME NEW ts, NEW us, NEW l, NEW q, NEW s, PutIn(ts, l, q, s, us)
  PROVE  /\ \A k \in 1 .. l : Start(us, k) = Start(ts, k)
         /\ \A k \in l + 1 .. Len(ts) + 1 : Start(us, k) = Start(ts, k) + Len(s)
<1>0. /\ AreTexts(ts) /\ AreTexts(us) /\ Len(us) = Len(ts) /\ l \in 1 .. Len(ts)
      /\ s \in Seq(Byte) /\ q \in 0 .. Len(ts[l]) /\ us[l] = Splice(ts[l], q, s)
      /\ \A k \in 1 .. Len(ts) : k # l => us[k] = ts[k]
  BY DEF PutIn
<1>1. Len(ts) \in Nat \ {0} /\ ts[l] \in Seq(Byte) /\ Len(ts[l]) \in Nat /\ Len(s) \in Nat
  BY <1>0, TextIs
<1>2. Len(us[l]) = Len(ts[l]) + Len(s)
  BY <1>0, <1>1, SplicedIs
<1>3. \A i \in 0 .. l - 1 : Start(us, 1 + i) = Start(ts, 1 + i) + Start(us, 1) - Start(ts, 1)
  <2>1. \A i \in 0 .. (l - 1) - 1 : Len(us[1 + i]) = Len(ts[1 + i])
    BY <1>0, <1>1
  <2>2. 1 \in Nat \ {0} /\ l - 1 \in Nat /\ 1 + (l - 1) <= Len(ts) + 1 /\ 1 + (l - 1) <= Len(us) + 1
    BY <1>0, <1>1
  <2>3. AsLong(ts, 1, us, 1, l - 1)
    BY <1>0, <2>1, <2>2 DEF AsLong
  <2> QED
    BY <2>3, StartShifts
<1>4. \A k \in 1 .. l : Start(us, k) = Start(ts, k)
  <2> TAKE k \in 1 .. l
  <2>1. k - 1 \in 0 .. l - 1 /\ 1 + (k - 1) = k
    BY <1>0, <1>1
  <2>2. Start(ts, k) \in Nat
    BY <1>0, <1>1, PlacesFinite
  <2> QED
    BY <1>3, <2>1, <2>2, StartFirst
<1>5. Start(us, l + 1) = Start(ts, l + 1) + Len(s) /\ Start(ts, l + 1) \in Nat
  <2>1. Start(us, l + 1) = Start(us, l) + Len(us[l]) + 1 /\ Start(ts, l + 1) = Start(ts, l) + Len(ts[l]) + 1
        /\ Start(ts, l + 1) \in Nat /\ Start(ts, l) \in Nat
    BY <1>0, StartNext
  <2>2. Start(us, l) = Start(ts, l)
    BY <1>0, <1>1, <1>4
  <2> QED
    BY <1>1, <1>2, <2>1, <2>2
<1>6. \A i \in 0 .. Len(ts) - l : Start(us, (l + 1) + i) = Start(ts, (l + 1) + i) + Start(us, l + 1) - Start(ts, l + 1)
  <2>1. \A i \in 0 .. (Len(ts) - l) - 1 : Len(us[(l + 1) + i]) = Len(ts[(l + 1) + i])
    <3> TAKE i \in 0 .. (Len(ts) - l) - 1
    <3>1. (l + 1) + i \in 1 .. Len(ts) /\ (l + 1) + i # l
      BY <1>0, <1>1
    <3> QED
      BY <1>0, <3>1
  <2>2. l + 1 \in Nat \ {0} /\ Len(ts) - l \in Nat /\ (l + 1) + (Len(ts) - l) <= Len(ts) + 1
        /\ (l + 1) + (Len(ts) - l) <= Len(us) + 1
    BY <1>0, <1>1
  <2>3. AsLong(ts, l + 1, us, l + 1, Len(ts) - l)
    BY <1>0, <2>1, <2>2 DEF AsLong
  <2> QED
    BY <2>3, StartShifts
<1>7. \A k \in l + 1 .. Len(ts) + 1 : Start(us, k) = Start(ts, k) + Len(s)
  <2> TAKE k \in l + 1 .. Len(ts) + 1
  <2>1. k - (l + 1) \in 0 .. Len(ts) - l /\ (l + 1) + (k - (l + 1)) = k /\ k \in 1 .. Len(ts) + 1
    BY <1>0, <1>1
  <2>2. Start(ts, k) \in Nat
    BY <1>0, <2>1, PlacesFinite
  <2>3. Start(us, k) = Start(ts, k) + Start(us, l + 1) - Start(ts, l + 1)
    BY <1>6, <2>1
  <2> QED
    BY <1>1, <1>5, <2>2, <2>3
<1> QED
  BY <1>4, <1>7

(* In the flattened text it is put at the offset of the position.          *)
LEMMA PutFlattened ==
  ASSUME NEW ts, NEW us, NEW l, NEW q, NEW s, PutIn(ts, l, q, s, us)
  PROVE  /\ Start(ts, l) + q \in 0 .. Len(Flattened(ts))
         /\ Flattened(us) = Splice(Flattened(ts), Start(ts, l) + q, s)
<1> DEFINE F == Flattened(ts)
           G == Flattened(us)
           a == Start(ts, l)
           m == Len(ts[l])
           n == Len(s)
           N == Start(ts, Len(ts) + 1)
           o == a + q
           H == Splice(F, o, s)
<1>0. /\ AreTexts(ts) /\ AreTexts(us) /\ Len(us) = Len(ts) /\ l \in 1 .. Len(ts)
      /\ s \in Seq(Byte) /\ q \in 0 .. m /\ us[l] = Splice(ts[l], q, s)
      /\ \A k \in 1 .. Len(ts) : k # l => us[k] = ts[k]
  BY DEF PutIn
<1>1. Len(ts) \in Nat \ {0} /\ ts[l] \in Seq(Byte) /\ m \in Nat /\ n \in Nat
  BY <1>0, TextIs
<1>2. /\ \A k \in 1 .. l : Start(us, k) = Start(ts, k)
      /\ \A k \in l + 1 .. Len(ts) + 1 : Start(us, k) = Start(ts, k) + n
  BY PutStarts
<1>3. /\ Len(us[l]) = m + n
      /\ \A i \in 1 .. m + n :
           us[l][i] = IF i <= q THEN ts[l][i] ELSE IF i <= q + n THEN s[i - q] ELSE ts[l][i - n]
  <2> DEFINE t == ts[l]
  <2>1. t \in Seq(Byte) /\ s \in Seq(Byte) /\ q \in 0 .. Len(t)
    BY <1>0, <1>1
  <2> HIDE DEF t
  <2>2. /\ Len(Splice(t, q, s)) = Len(t) + Len(s)
        /\ \A i \in 1 .. Len(t) + Len(s) :
             Splice(t, q, s)[i] = IF i <= q THEN t[i] ELSE IF i <= q + Len(s) THEN s[i - q] ELSE t[i - Len(s)]
    BY <2>1, SplicedIs
  <2> QED
    BY <1>0, <2>2 DEF t
<1>4. /\ F \in Seq(Byte \cup {NL}) /\ Len(F) = N - 1 /\ N \in Nat \ {0}
      /\ \A i \in 1 .. N - 1 : F[i] = ByteAt(ts, i)
  BY <1>0, FlattenedIs
<1>5. /\ G \in Seq(Byte \cup {NL}) /\ Len(G) = Start(us, Len(ts) + 1) - 1
      /\ \A i \in 1 .. Start(us, Len(ts) + 1) - 1 : G[i] = ByteAt(us, i)
  BY <1>0, FlattenedIs
<1>6. Start(us, Len(ts) + 1) = N + n
  BY <1>0, <1>1, <1>2
<1>7. Start(ts, l + 1) = a + m + 1 /\ a \in Nat /\ Start(ts, l + 1) <= N
  <2>1. l + 1 \in 1 .. Len(ts) + 1 /\ Len(ts) + 1 \in 1 .. Len(ts) + 1 /\ l + 1 <= Len(ts) + 1
    BY <1>0, <1>1
  <2>2. Start(ts, l + 1) <= N
    BY <1>0, <2>1, StartGrows
  <2>3. Start(ts, l + 1) = a + m + 1 /\ a \in Nat
    BY <1>0, StartNext
  <2> QED
    BY <2>2, <2>3
<1>8. s \in Seq(Byte \cup {NL})
  BY <1>0
<1> HIDE DEF F, G, a, m, N
<1>9. q \in Nat /\ q <= m /\ a + m + 1 <= N /\ Len(F) = N - 1 /\ Len(G) = N + n - 1 /\ o \in 0 .. Len(F)
  BY <1>0, <1>1, <1>4, <1>5, <1>6, <1>7
<1>10. /\ H \in Seq(Byte \cup {NL}) /\ Len(H) = N + n - 1
       /\ \A i \in 1 .. N + n - 1 : H[i] = IF i <= o THEN F[i] ELSE IF i <= o + n THEN s[i - o] ELSE F[i - n]
  <2> HIDE DEF o
  <2>1. /\ H \in Seq(Byte \cup {NL}) /\ Len(H) = Len(F) + Len(s)
        /\ \A i \in 1 .. Len(F) + Len(s) :
             H[i] = IF i <= o THEN F[i] ELSE IF i <= o + Len(s) THEN s[i - o] ELSE F[i - Len(s)]
    BY <1>4, <1>8, <1>9, SplicedIs
  <2> HIDE DEF H, n
  <2>2. Len(F) + n = N + n - 1
    BY <1>1, <1>4, <1>9
  <2> QED
    BY <2>1, <2>2 DEF n
<1> HIDE DEF H, n
<1>11. ASSUME NEW i \in 1 .. N + n - 1 PROVE G[i] = H[i]
  <2>1. i \in 1 .. Start(us, Len(us) + 1) /\ G[i] = ByteAt(us, i) /\ i \in Nat
    BY <1>0, <1>1, <1>4, <1>5, <1>6
  <2>2. PICK k \in 1 .. Len(us) : \E p \in 1 .. Len(us[k]) + 1 : i = Start(us, k) + p
    BY <1>0, <2>1, LineOf
  <2>3. PICK p \in 1 .. Len(us[k]) + 1 : i = Start(us, k) + p
    BY <2>2
  <2>4. G[i] = IF p <= Len(us[k]) THEN us[k][p] ELSE NL
    BY <1>0, <2>1, <2>3, ByteIs
  <2> DEFINE b == Start(ts, k)
             c == Len(ts[k])
             d == Len(us[k])
  <2>5. k \in 1 .. Len(ts) /\ k \in Nat /\ l \in Nat /\ b \in Nat /\ c \in Nat /\ d \in Nat
        /\ Start(ts, k + 1) = b + c + 1 /\ p \in Nat \ {0} /\ p <= d + 1
    <3>1. k \in 1 .. Len(ts)
      BY <1>0
    <3>2. b \in Nat /\ c \in Nat /\ d \in Nat /\ Start(ts, k + 1) = b + c + 1
      BY <1>0, <3>1, StartNext, TextIs
    <3> QED
      BY <1>0, <1>1, <3>1, <3>2
  <2> HIDE DEF b, c, d
  <2>6. CASE k < l
    <3>1. us[k] = ts[k] /\ Start(us, k) = b /\ c = d
      BY <1>0, <1>2, <2>5, <2>6 DEF b, c, d
    <3>2. Start(ts, k + 1) <= a
      <4>1. k + 1 \in 1 .. Len(ts) + 1 /\ l \in 1 .. Len(ts) + 1 /\ k + 1 <= l
        BY <1>0, <1>1, <2>5, <2>6
      <4> QED
        BY <1>0, <4>1, StartGrows DEF a
    <3>3. i = b + p
      BY <2>3, <3>1
    <3>4. i <= o /\ i \in 1 .. N - 1
      <4>0. /\ i = b + p /\ b \in Nat /\ p \in Nat \ {0} /\ p <= d + 1 /\ c = d /\ c \in Nat /\ d \in Nat
            /\ b + c + 1 <= a
        BY <2>5, <3>1, <3>2, <3>3
      <4>1. i \in Nat /\ i >= 1 /\ i <= a
        BY ONLY <1>7, <4>0
      <4>2. a \in Nat /\ m \in Nat /\ N \in Nat
        BY <1>1, <1>4, <1>7
      <4> QED
        BY ONLY <1>9, <4>1, <4>2
    <3>5. F[i] = IF p <= Len(ts[k]) THEN ts[k][p] ELSE NL
      BY <1>0, <1>4, <2>3, <2>5, <3>1, <3>3, <3>4, ByteIs DEF b
    <3> QED
      BY <1>10, <2>4, <3>1, <3>4, <3>5
  <2>7. CASE k = l
    <3>1. i = a + p /\ d = m + n /\ b = a /\ c = m
      BY <1>0, <1>1, <1>2, <1>3, <2>3, <2>7 DEF a, b, c, d, m
    <3>2. CASE p <= q
      <4>1. p \in 1 .. m + n /\ p \in 1 .. m + 1 /\ p <= m /\ i <= o /\ i \in 1 .. N - 1 /\ p <= d
        BY ONLY <1>1, <1>4, <1>7, <1>9, <2>5, <3>1, <3>2
      <4>2. G[i] = ts[l][p]
        BY <1>3, <2>4, <2>7, <3>2, <4>1 DEF d
      <4>3. F[i] = ts[l][p]
        BY <1>0, <1>4, <3>1, <4>1, ByteIs DEF a, m
      <4> QED
        BY <1>10, <4>1, <4>2, <4>3
    <3>3. CASE ~(p <= q) /\ p <= q + n
      <4>1. p \in 1 .. m + n /\ ~(i <= o) /\ i <= o + n /\ i - o = p - q /\ p <= d
        BY ONLY <1>1, <1>4, <1>7, <1>9, <2>5, <3>1, <3>3
      <4>2. G[i] = s[p - q]
        BY <1>3, <2>4, <2>7, <3>3, <4>1 DEF d
      <4> QED
        BY <1>10, <4>1, <4>2
    <3>4. CASE ~(p <= q + n)
      <4>1. /\ p - n \in 1 .. m + 1 /\ ~(p <= q) /\ ~(i <= o) /\ ~(i <= o + n)
            /\ i - n = a + (p - n)
        BY ONLY <1>1, <1>4, <1>7, <1>9, <2>5, <3>1, <3>4
      <4>2. i - n \in 1 .. N - 1
        BY ONLY <1>1, <1>4, <1>7, <1>9, <2>5, <3>1, <4>1
      <4>3. F[i - n] = IF p - n <= m THEN ts[l][p - n] ELSE NL
        <5>1. F[i - n] = ByteAt(ts, a + (p - n))
          BY <1>4, <4>1, <4>2
        <5> DEFINE r == p - n
        <5>2. r \in 1 .. m + 1
          BY <4>1
        <5> HIDE DEF r
        <5>3. ByteAt(ts, a + r) = IF r <= m THEN ts[l][r] ELSE NL
          BY <1>0, <5>2, ByteIs DEF a, m
        <5> QED
          BY <5>1, <5>3 DEF r
      <4>4. p <= d <=> p - n <= m
        BY ONLY <1>1, <2>5, <3>1
      <4>5. p <= d => us[l][p] = ts[l][p - n]
        <5>1. p <= d => p \in 1 .. m + n
          BY ONLY <1>1, <2>5, <3>1
        <5> QED
          BY <1>3, <3>4, <4>1, <5>1
      <4>6. G[i] = F[i - n]
        BY <2>4, <2>7, <4>3, <4>4, <4>5 DEF d
      <4> QED
        BY <1>10, <4>1, <4>6
    <3> QED
      BY <3>2, <3>3, <3>4
  <2>8. CASE k > l
    <3>1. us[k] = ts[k] /\ Start(us, k) = b + n /\ c = d
      BY <1>0, <1>1, <1>2, <2>5, <2>8 DEF b, c, d
    <3>2. Start(ts, l + 1) <= b
      <4>1. l + 1 \in 1 .. Len(ts) + 1 /\ k \in 1 .. Len(ts) + 1 /\ l + 1 <= k
        BY <1>0, <1>1, <2>5, <2>8
      <4> QED
        BY <1>0, <4>1, StartGrows DEF b
    <3>3. i = b + n + p
      BY <2>3, <3>1
    <3>4. i - n = b + p /\ ~(i <= o) /\ ~(i <= o + n) /\ i - n \in 1 .. N - 1
      BY ONLY <1>1, <1>4, <1>7, <1>9, <2>5, <3>1, <3>2, <3>3
    <3>5. F[i - n] = IF p <= Len(ts[k]) THEN ts[k][p] ELSE NL
      BY <1>0, <1>4, <2>3, <2>5, <3>1, <3>4, ByteIs DEF b
    <3> QED
      BY <1>10, <2>4, <3>1, <3>4, <3>5
  <2> QED
    BY <2>5, <2>6, <2>7, <2>8
<1>12. G = H
  <2>1. Len(H) = Len(G) /\ \A i \in 1 .. Len(G) : G[i] = H[i]
    BY <1>9, <1>10, <1>11
  <2> QED
    BY <1>5, <1>10, <2>1, SameSeq
<1> QED
  BY <1>9, <1>12 DEF F, G, H, a

(* In us line l of ts is broken after q bytes.                             *)
BreakAt(ts, l, q, us) ==
  /\ AreTexts(ts) /\ AreTexts(us) /\ Len(us) = Len(ts) + 1 /\ l \in 1 .. Len(ts)
  /\ q \in 0 .. Len(ts[l])
  /\ \A k \in 1 .. Len(ts) : k < l => us[k] = ts[k]
  /\ \A k \in 1 .. Len(ts) : k > l => us[k + 1] = ts[k]
  /\ Len(us[l]) = q /\ \A i \in 1 .. q : us[l][i] = ts[l][i]
  /\ Len(us[l + 1]) = Len(ts[l]) - q /\ \A i \in 1 .. Len(ts[l]) - q : us[l + 1][i] = ts[l][q + i]

(* The new line begins after the break, those after it one byte later.     *)
LEMMA BreakStarts ==
  ASSUME NEW ts, NEW us, NEW l, NEW q, BreakAt(ts, l, q, us)
  PROVE  /\ \A k \in 1 .. l : Start(us, k) = Start(ts, k)
         /\ Start(us, l + 1) = Start(ts, l) + q + 1
         /\ \A k \in l + 1 .. Len(ts) + 1 : Start(us, k + 1) = Start(ts, k) + 1
<1>0. /\ AreTexts(ts) /\ AreTexts(us) /\ Len(us) = Len(ts) + 1 /\ l \in 1 .. Len(ts)
      /\ q \in 0 .. Len(ts[l]) /\ Len(us[l]) = q /\ Len(us[l + 1]) = Len(ts[l]) - q
      /\ \A k \in 1 .. Len(ts) : k < l => us[k] = ts[k]
      /\ \A k \in 1 .. Len(ts) : k > l => us[k + 1] = ts[k]
  BY DEF BreakAt
<1>1. Len(ts) \in Nat \ {0} /\ Len(ts[l]) \in Nat /\ l \in Nat /\ q \in Nat
  BY <1>0, TextIs
<1>2. \A i \in 0 .. l - 1 : Start(us, 1 + i) = Start(ts, 1 + i) + Start(us, 1) - Start(ts, 1)
  <2>1. \A i \in 0 .. (l - 1) - 1 : Len(us[1 + i]) = Len(ts[1 + i])
    BY <1>0, <1>1
  <2>2. 1 \in Nat \ {0} /\ l - 1 \in Nat /\ 1 + (l - 1) <= Len(ts) + 1 /\ 1 + (l - 1) <= Len(us) + 1
    BY <1>0, <1>1
  <2>3. AsLong(ts, 1, us, 1, l - 1)
    BY <1>0, <2>1, <2>2 DEF AsLong
  <2> QED
    BY <2>3, StartShifts
<1>3. \A k \in 1 .. l : Start(us, k) = Start(ts, k)
  <2> TAKE k \in 1 .. l
  <2>1. k - 1 \in 0 .. l - 1 /\ 1 + (k - 1) = k /\ k \in 1 .. Len(ts) + 1
    BY <1>0, <1>1
  <2>2. Start(ts, k) \in Nat
    BY <1>0, <2>1, PlacesFinite
  <2> QED
    BY <1>2, <2>1, <2>2, StartFirst
<1> DEFINE a == Start(ts, l)
           m == Len(ts[l])
<1>4. /\ Start(us, l) = a /\ a \in Nat /\ Start(ts, l + 1) = a + m + 1 /\ Start(us, l + 1) = a + q + 1
      /\ Start(us, (l + 1) + 1) = Start(us, l + 1) + Len(us[l + 1]) + 1
  <2>1. l \in 1 .. l /\ l \in 1 .. Len(us) /\ l + 1 \in 1 .. Len(us)
    BY <1>0, <1>1
  <2>2. Start(us, l) = a
    BY <1>3, <2>1
  <2>3. a \in Nat /\ Start(ts, l + 1) = a + m + 1
    BY <1>0, StartNext
  <2>4. Start(us, l + 1) = Start(us, l) + Len(us[l]) + 1
    BY <1>0, <2>1, StartNext
  <2>5. Start(us, (l + 1) + 1) = Start(us, l + 1) + Len(us[l + 1]) + 1
    BY <1>0, <2>1, StartNext
  <2> QED
    BY <1>0, <2>2, <2>3, <2>4, <2>5
<1> HIDE DEF a
<1>5. Start(us, l + 2) = Start(ts, l + 1) + 1 /\ Start(ts, l + 1) \in Nat
  <2>1. Len(us[l + 1]) = m - q /\ (l + 1) + 1 = l + 2
    BY <1>0, <1>1
  <2> HIDE DEF m
  <2> QED
    BY <1>1, <1>4, <2>1 DEF m
<1>6. \A i \in 0 .. Len(ts) - l : Start(us, (l + 2) + i) = Start(ts, (l + 1) + i) + Start(us, l + 2) - Start(ts, l + 1)
  <2>1. \A i \in 0 .. (Len(ts) - l) - 1 : Len(us[(l + 2) + i]) = Len(ts[(l + 1) + i])
    <3> TAKE i \in 0 .. (Len(ts) - l) - 1
    <3>1. (l + 1) + i \in 1 .. Len(ts) /\ (l + 1) + i > l /\ ((l + 1) + i) + 1 = (l + 2) + i
      BY <1>0, <1>1
    <3> QED
      BY <1>0, <3>1
  <2>2. /\ l + 1 \in Nat \ {0} /\ l + 2 \in Nat \ {0} /\ Len(ts) - l \in Nat
        /\ (l + 1) + (Len(ts) - l) <= Len(ts) + 1 /\ (l + 2) + (Len(ts) - l) <= Len(us) + 1
    BY <1>0, <1>1
  <2>3. AsLong(ts, l + 1, us, l + 2, Len(ts) - l)
    BY <1>0, <2>1, <2>2 DEF AsLong
  <2> QED
    BY <2>3, StartShifts
<1>7. \A k \in l + 1 .. Len(ts) + 1 : Start(us, k + 1) = Start(ts, k) + 1
  <2> TAKE k \in l + 1 .. Len(ts) + 1
  <2>1. k - (l + 1) \in 0 .. Len(ts) - l /\ (l + 1) + (k - (l + 1)) = k /\ k \in 1 .. Len(ts) + 1
        /\ (l + 2) + (k - (l + 1)) = k + 1
    BY <1>0, <1>1
  <2>2. Start(ts, k) \in Nat
    BY <1>0, <2>1, PlacesFinite
  <2>3. Start(us, k + 1) = Start(ts, k) + Start(us, l + 2) - Start(ts, l + 1)
    BY <1>6, <2>1
  <2> QED
    BY <1>5, <2>2, <2>3
<1> QED
  BY <1>3, <1>4, <1>7 DEF a

(* In the flattened text a line end is put at the offset of the break.     *)
LEMMA BreakFlattened ==
  ASSUME NEW ts, NEW us, NEW l, NEW q, BreakAt(ts, l, q, us)
  PROVE  /\ Start(ts, l) + q \in 0 .. Len(Flattened(ts))
         /\ Flattened(us) = Splice(Flattened(ts), Start(ts, l) + q, <<NL>>)
<1> DEFINE F == Flattened(ts)
           G == Flattened(us)
           a == Start(ts, l)
           m == Len(ts[l])
           N == Start(ts, Len(ts) + 1)
           o == a + q
           H == Splice(F, o, <<NL>>)
<1>0. /\ AreTexts(ts) /\ AreTexts(us) /\ Len(us) = Len(ts) + 1 /\ l \in 1 .. Len(ts)
      /\ q \in 0 .. m /\ Len(us[l]) = q /\ Len(us[l + 1]) = m - q
      /\ \A k \in 1 .. Len(ts) : k < l => us[k] = ts[k]
      /\ \A k \in 1 .. Len(ts) : k > l => us[k + 1] = ts[k]
      /\ \A i \in 1 .. q : us[l][i] = ts[l][i]
      /\ \A i \in 1 .. m - q : us[l + 1][i] = ts[l][q + i]
  BY DEF BreakAt
<1>1. Len(ts) \in Nat \ {0} /\ ts[l] \in Seq(Byte) /\ m \in Nat /\ l \in Nat
  BY <1>0, TextIs
<1>2. /\ \A k \in 1 .. l : Start(us, k) = Start(ts, k)
      /\ Start(us, l + 1) = a + q + 1
      /\ \A k \in l + 1 .. Len(ts) + 1 : Start(us, k + 1) = Start(ts, k) + 1
  BY BreakStarts
<1>4. /\ F \in Seq(Byte \cup {NL}) /\ Len(F) = N - 1 /\ N \in Nat \ {0}
      /\ \A i \in 1 .. N - 1 : F[i] = ByteAt(ts, i)
  BY <1>0, FlattenedIs
<1>5. /\ G \in Seq(Byte \cup {NL}) /\ Len(G) = Start(us, Len(us) + 1) - 1
      /\ \A i \in 1 .. Start(us, Len(us) + 1) - 1 : G[i] = ByteAt(us, i)
  BY <1>0, FlattenedIs
<1>6. Start(us, Len(us) + 1) = N + 1
  <2>1. Len(ts) + 1 \in l + 1 .. Len(ts) + 1
    BY <1>0, <1>1
  <2> QED
    BY <1>0, <1>2, <2>1
<1>7. Start(ts, l + 1) = a + m + 1 /\ a \in Nat /\ Start(ts, l + 1) <= N
  <2>1. l + 1 \in 1 .. Len(ts) + 1 /\ Len(ts) + 1 \in 1 .. Len(ts) + 1 /\ l + 1 <= Len(ts) + 1
    BY <1>0, <1>1
  <2>2. Start(ts, l + 1) <= N
    BY <1>0, <2>1, StartGrows
  <2>3. Start(ts, l + 1) = a + m + 1 /\ a \in Nat
    BY <1>0, StartNext
  <2> QED
    BY <2>2, <2>3
<1>8. <<NL>> \in Seq(Byte \cup {NL}) /\ Len(<<NL>>) = 1 /\ <<NL>>[1] = NL
  OBVIOUS
<1> HIDE DEF F, G, a, m, N
<1>9. q \in Nat /\ q <= m /\ a + m + 1 <= N /\ Len(F) = N - 1 /\ Len(G) = N /\ o \in 0 .. Len(F)
  BY <1>0, <1>1, <1>4, <1>5, <1>6, <1>7
<1>10. /\ H \in Seq(Byte \cup {NL}) /\ Len(H) = N
       /\ \A i \in 1 .. N : H[i] = IF i <= o THEN F[i] ELSE IF i <= o + 1 THEN NL ELSE F[i - 1]
  <2>0. a \in Nat /\ q \in Nat /\ o \in Nat
    BY <1>7, <1>9
  <2> HIDE DEF o
  <2> DEFINE e == <<NL>>
  <2>1. e \in Seq(Byte \cup {NL}) /\ Len(e) = 1 /\ e[1] = NL /\ H = Splice(F, o, e)
    BY <1>8
  <2> HIDE DEF e, H
  <2> DEFINE S == Byte \cup {NL}
  <2>5. F \in Seq(S) /\ e \in Seq(S) /\ o \in 0 .. Len(F)
    BY <1>4, <1>9, <2>1
  <2> HIDE DEF S
  <2>6. /\ Splice(F, o, e) \in Seq(S) /\ Len(Splice(F, o, e)) = Len(F) + Len(e)
        /\ \A i \in 1 .. Len(F) + Len(e) :
             Splice(F, o, e)[i] = IF i <= o THEN F[i] ELSE IF i <= o + Len(e) THEN e[i - o] ELSE F[i - Len(e)]
    BY ONLY <2>5, SplicedIs
  <2>2. /\ H \in Seq(Byte \cup {NL}) /\ Len(H) = Len(F) + Len(e)
        /\ \A i \in 1 .. Len(F) + Len(e) :
             H[i] = IF i <= o THEN F[i] ELSE IF i <= o + Len(e) THEN e[i - o] ELSE F[i - Len(e)]
    BY <2>1, <2>6 DEF S
  <2>3. Len(F) + 1 = N
    BY <1>4, <1>9
  <2>4. \A i \in 1 .. N : ~(i <= o) /\ i <= o + 1 => i - o = 1
    BY <1>4, <2>0
  <2> QED
    BY <2>1, <2>2, <2>3, <2>4
<1> HIDE DEF H
<1>11. ASSUME NEW i \in 1 .. N PROVE G[i] = H[i]
  <2>1. i \in 1 .. Start(us, Len(us) + 1) /\ G[i] = ByteAt(us, i) /\ i \in Nat \ {0}
    BY <1>4, <1>5, <1>6
  <2>2. PICK k \in 1 .. Len(us) : \E p \in 1 .. Len(us[k]) + 1 : i = Start(us, k) + p
    <3>1. AreTexts(us)
      BY <1>0
    <3> QED
      BY ONLY <2>1, <3>1, LineOf
  <2>3. PICK p \in 1 .. Len(us[k]) + 1 : i = Start(us, k) + p
    BY <2>2
  <2>4. G[i] = IF p <= Len(us[k]) THEN us[k][p] ELSE NL
    <3>1. AreTexts(us)
      BY <1>0
    <3>2. ByteAt(us, Start(us, k) + p) = IF p <= Len(us[k]) THEN us[k][p] ELSE NL
      BY ONLY <3>1, ByteIs
    <3> QED
      BY <2>1, <2>3, <3>2
  <2> DEFINE d == Len(us[k])
  <2>5. k \in Nat \ {0} /\ d \in Nat /\ p \in Nat \ {0} /\ p <= d + 1 /\ k <= Len(ts) + 1
    <3>1. d \in Nat
      BY <1>0, TextIs
    <3> QED
      BY <1>0, <1>1, <3>1
  <2> HIDE DEF d
  <2>6. CASE k < l
    <3> DEFINE b == Start(ts, k)
               c == Len(ts[k])
    <3>0. k \in 1 .. Len(ts) /\ k \in 1 .. l
      BY <1>0, <1>1, <2>5, <2>6
    <3>1. us[k] = ts[k] /\ Start(us, k) = b /\ c = d
      BY <1>0, <1>2, <2>6, <3>0 DEF d
    <3>2. Start(ts, k + 1) = b + c + 1 /\ b \in Nat
      BY <1>0, <3>0, StartNext
    <3>3. Start(ts, k + 1) <= a
      <4>1. k + 1 \in 1 .. Len(ts) + 1 /\ l \in 1 .. Len(ts) + 1 /\ k + 1 <= l
        BY <1>0, <1>1, <2>5, <2>6
      <4> QED
        BY <1>0, <4>1, StartGrows DEF a
    <3> HIDE DEF b, c
    <3>4. i = b + p /\ b + c + 1 <= a /\ c = d
      BY <2>3, <3>1, <3>2, <3>3
    <3>5. i <= a
      BY ONLY <1>7, <2>5, <3>2, <3>4
    <3>6. i <= o /\ i \in 1 .. N - 1
      BY ONLY <1>1, <1>4, <1>7, <1>9, <2>1, <3>5
    <3>7. F[i] = IF p <= Len(ts[k]) THEN ts[k][p] ELSE NL
      <4>1. AreTexts(ts) /\ p \in 1 .. Len(ts[k]) + 1
        BY <1>0, <2>3, <3>1
      <4>2. ByteAt(ts, Start(ts, k) + p) = IF p <= Len(ts[k]) THEN ts[k][p] ELSE NL
        BY ONLY <3>0, <4>1, ByteIs
      <4>3. F[i] = ByteAt(ts, i)
        BY <1>4, <3>6
      <4> QED
        BY ONLY <3>4, <4>2, <4>3 DEF b
    <3>8. i \in 1 .. N
      OBVIOUS
    <3> QED
      BY <1>10, <2>4, <3>1, <3>6, <3>7
  <2>7. CASE k = l
    <3>1. i = a + p /\ d = q
      <4>1. l \in 1 .. l
        BY <1>0, <1>1
      <4> QED
        BY <1>0, <1>2, <2>3, <2>7, <4>1 DEF a, d
    <3>2. CASE p <= q
      <4>1. p \in 1 .. q /\ p \in 1 .. m + 1 /\ p <= m /\ i <= o /\ i \in 1 .. N - 1 /\ p <= d
        BY ONLY <1>1, <1>4, <1>7, <1>9, <2>5, <3>1, <3>2
      <4>2. G[i] = ts[l][p]
        BY <1>0, <2>4, <2>7, <4>1 DEF d
      <4>3. F[i] = ts[l][p]
        BY <1>0, <1>4, <3>1, <4>1, ByteIs DEF a, m
      <4> QED
        BY <1>10, <4>1, <4>2, <4>3
    <3>3. CASE ~(p <= q)
      <4>1. ~(p <= d) /\ ~(i <= o) /\ i <= o + 1
        BY ONLY <1>1, <1>4, <1>7, <1>9, <2>5, <3>1, <3>3
      <4> QED
        BY <1>10, <2>4, <4>1 DEF d
    <3> QED
      BY <3>2, <3>3
  <2>8. CASE k = l + 1
    <3>1. i = a + q + 1 + p /\ d = m - q
      BY <1>0, <1>2, <2>3, <2>8 DEF d
    <3>2. /\ q + p \in 1 .. m + 1 /\ ~(i <= o) /\ ~(i <= o + 1) /\ i - 1 = a + (q + p)
          /\ i - 1 \in 1 .. N - 1 /\ (p <= d <=> q + p <= m) /\ (p <= d => p \in 1 .. m - q)
      BY ONLY <1>1, <1>4, <1>7, <1>9, <2>1, <2>5, <3>1
    <3>3. F[i - 1] = IF q + p <= m THEN ts[l][q + p] ELSE NL
      <4>1. F[i - 1] = ByteAt(ts, a + (q + p))
        BY <1>4, <3>2
      <4> DEFINE r == q + p
      <4>2. r \in 1 .. m + 1
        BY <3>2
      <4> HIDE DEF r
      <4>3. ByteAt(ts, a + r) = IF r <= m THEN ts[l][r] ELSE NL
        BY <1>0, <4>2, ByteIs DEF a, m
      <4> QED
        BY <4>1, <4>3 DEF r
    <3>4. p <= d => us[k][p] = ts[l][q + p]
      BY <1>0, <2>8, <3>2
    <3>5. G[i] = F[i - 1]
      BY <2>4, <3>2, <3>3, <3>4 DEF d
    <3> QED
      BY <1>10, <3>2, <3>5
  <2>9. CASE k > l + 1
    <3> DEFINE j == k - 1
               b == Start(ts, j)
               c == Len(ts[j])
    <3>0. j \in 1 .. Len(ts) /\ j > l /\ j \in l + 1 .. Len(ts) + 1 /\ j + 1 = k
      BY <1>0, <1>1, <2>5, <2>9
    <3> HIDE DEF j
    <3>1. us[k] = ts[j] /\ Start(us, k) = b + 1 /\ c = d
      BY <1>0, <1>2, <3>0 DEF d
    <3>2. Start(ts, j + 1) = b + c + 1 /\ b \in Nat
      BY <1>0, <3>0, StartNext
    <3>3. Start(ts, l + 1) <= b /\ Start(ts, j + 1) <= N
      <4>1. /\ l + 1 \in 1 .. Len(ts) + 1 /\ j \in 1 .. Len(ts) + 1 /\ l + 1 <= j
            /\ j + 1 \in 1 .. Len(ts) + 1 /\ Len(ts) + 1 \in 1 .. Len(ts) + 1 /\ j + 1 <= Len(ts) + 1
        BY <1>0, <1>1, <3>0
      <4> QED
        BY <1>0, <4>1, StartGrows DEF N
    <3> HIDE DEF b, c
    <3>4. i = b + 1 + p
      BY <2>3, <3>1
    <3>5. i - 1 = b + p /\ ~(i <= o) /\ ~(i <= o + 1) /\ i - 1 \in 1 .. N - 1
      <4>1. b \in Nat /\ p <= c + 1 /\ c \in Nat /\ a + m + 1 <= b /\ b + c + 1 <= N /\ p \in Nat \ {0}
        BY ONLY <1>7, <2>5, <3>1, <3>2, <3>3
      <4>2. i - 1 = b + p /\ a \in Nat /\ m \in Nat /\ q <= m /\ q \in Nat /\ N \in Nat /\ b + p <= N
        BY ONLY <1>1, <1>4, <1>7, <1>9, <3>4, <4>1
      <4>3. o + 1 < i
        BY ONLY <3>4, <4>1, <4>2
      <4>4. i - 1 \in 1 .. N - 1
        BY ONLY <2>1, <3>4, <4>1, <4>2
      <4> QED
        BY ONLY <2>1, <4>2, <4>3, <4>4
    <3>6. p \in 1 .. Len(ts[j]) + 1
      BY <2>3, <3>1
    <3>7. F[i - 1] = IF p <= Len(ts[j]) THEN ts[j][p] ELSE NL
      <4>1. AreTexts(ts)
        BY <1>0
      <4>2. ByteAt(ts, Start(ts, j) + p) = IF p <= Len(ts[j]) THEN ts[j][p] ELSE NL
        BY ONLY <3>0, <3>6, <4>1, ByteIs
      <4>3. F[i - 1] = ByteAt(ts, i - 1)
        BY <1>4, <3>5
      <4> QED
        BY ONLY <3>5, <4>2, <4>3 DEF b
    <3> QED
      BY <1>10, <2>4, <3>1, <3>5, <3>7
  <2> QED
    BY <1>1, <2>5, <2>6, <2>7, <2>8, <2>9
<1>12. G = H
  <2>1. Len(H) = Len(G) /\ \A i \in 1 .. Len(G) : G[i] = H[i]
    BY <1>9, <1>10, <1>11
  <2> QED
    BY <1>5, <1>10, <2>1, SameSeq
<1> QED
  BY <1>9, <1>12 DEF F, G, H, a
-----------------------------------------------------------------------------
(* The texts of the lines s whose bytes are in m; of those that run.       *)
TextsOf(s, m) == [k \in DOMAIN s |-> Read(m, s[k].line, s[k].line_len)]

(* What is read of a line.                                                 *)
LEMMA LineRead ==
  ASSUME NEW m, ArePools(m), NEW ld, IsOwner(ld), Owns(ld) \subseteq Used(m)
  PROVE  /\ Read(m, ld.line, ld.line_len) \in Seq(Byte) /\ ld.line_len \in Nat
         /\ Len(Read(m, ld.line, ld.line_len)) = ld.line_len
         /\ \A i \in 1 .. ld.line_len : /\ Read(m, ld.line, ld.line_len)[i] = Cell(m, At(ld.line, i))
                                        /\ At(ld.line, i) \in Owns(ld)
<1> DEFINE p == ld.line
           n == ld.line_len
           t == Read(m, p, n)
<1>1. n \in Nat /\ (n # 0 => p[2] \in Nat)
  BY DEF IsOwner
<1>2. t = [i \in 1 .. n |-> m.pool[p[1]].pool[p[2] + i - 1]]
  BY DEF Read
<1>3. t \in Seq(Byte) /\ Len(t) = n
  <2>1. CASE n = 0
    <3>1. t = <<>>
      BY <1>2, <2>1
    <3> HIDE DEF t, n
    <3> QED
      BY <2>1, <3>1
  <2>2. CASE n # 0
    BY <1>1, <2>2, ReadIs DEF Owns
  <2> QED
    BY <2>1, <2>2
<1>4. ASSUME NEW i \in 1 .. n PROVE t[i] = Cell(m, At(p, i)) /\ At(p, i) \in Owns(ld)
  <2>1. n # 0 /\ p[2] \in Nat /\ i \in Nat \ {0} /\ i <= n
    BY <1>1
  <2>2. At(p, i) \in Owns(ld)
    BY <1>1, <2>1, AtSpan DEF Owns
  <2>3. t[i] = m.pool[p[1]].pool[p[2] + i - 1]
    BY <1>2
  <2> QED
    BY <2>2, <2>3 DEF Cell, At
<1> QED
  BY <1>1, <1>3, <1>4

(* A line whose bytes are left alone.                                      *)
LEMMA ReadSame ==
  ASSUME NEW m, ArePools(m), NEW ld, IsOwner(ld), Owns(ld) \subseteq Used(m),
         NEW r, NEW A, Keeps(m, r, A), Owns(ld) \subseteq A
  PROVE  Read(r, ld.line, ld.line_len) = Read(m, ld.line, ld.line_len)
<1> DEFINE p == ld.line
           n == ld.line_len
<1>1. Read(r, p, n) = [i \in 1 .. n |-> r.pool[p[1]].pool[p[2] + i - 1]]
  BY DEF Read
<1>2. Read(m, p, n) = [i \in 1 .. n |-> m.pool[p[1]].pool[p[2] + i - 1]]
  BY DEF Read
<1>3. ASSUME NEW i \in 1 .. n
      PROVE  r.pool[p[1]].pool[p[2] + i - 1] = m.pool[p[1]].pool[p[2] + i - 1]
  <2>1. At(p, i) \in A
    BY LineRead
  <2>2. Cell(r, At(p, i)) = Cell(m, At(p, i))
    BY <2>1 DEF Keeps
  <2> QED
    BY <2>2 DEF Cell, At
<1> QED
  BY <1>1, <1>2, <1>3

(* The texts of lines that own the memory.                                 *)
LEMMA TextsAre ==
  ASSUME NEW s, NEW m, AreLines(s), OwnedBy(s, m)
  PROVE  /\ AreTexts(TextsOf(s, m)) /\ Len(TextsOf(s, m)) = Len(s) /\ Len(s) \in Nat \ {0}
         /\ DOMAIN s = 1 .. Len(s) /\ DOMAIN TextsOf(s, m) = 1 .. Len(s)
         /\ \A k \in 1 .. Len(s) : /\ TextsOf(s, m)[k] = Read(m, s[k].line, s[k].line_len)
                                   /\ TextsOf(s, m)[k] \in Seq(Byte)
                                   /\ Len(TextsOf(s, m)[k]) = s[k].line_len /\ s[k].line_len \in Nat
<1> DEFINE N == Len(s)
           ts == TextsOf(s, m)
<1>1. N \in Nat \ {0} /\ DOMAIN s = 1 .. N
  BY DEF AreLines
<1>2. ts = [k \in 1 .. N |-> Read(m, s[k].line, s[k].line_len)]
  BY <1>1 DEF TextsOf
<1>3. ASSUME NEW k \in 1 .. N
      PROVE  /\ Read(m, s[k].line, s[k].line_len) \in Seq(Byte) /\ s[k].line_len \in Nat
             /\ Len(Read(m, s[k].line, s[k].line_len)) = s[k].line_len
  <2>1. ArePools(m) /\ IsOwner(s[k]) /\ Owns(s[k]) \subseteq Used(m)
    BY DEF OwnedBy
  <2> QED
    BY <2>1, LineRead
<1> HIDE DEF ts, N
<1>4. ts \in Seq(Seq(Byte)) /\ Len(ts) = N /\ ts # <<>> /\ DOMAIN ts = 1 .. N
  BY <1>1, <1>2, <1>3
<1> QED
  BY <1>1, <1>2, <1>3, <1>4 DEF AreTexts, ts, N

(* A line that is none of those that an action moves.                      *)
LEMMA OtherRead ==
  ASSUME NEW s, NEW m, OwnedBy(s, m), NEW k \in 1 .. Len(s), NEW V, NEW W, NEW r, Moves(m, r, V, W),
         Owns(s[k]) \cap V = {}
  PROVE  Read(r, s[k].line, s[k].line_len) = Read(m, s[k].line, s[k].line_len)
<1>1. ArePools(m) /\ IsOwner(s[k]) /\ Owns(s[k]) \subseteq Used(m) /\ Owns(s[k]) \subseteq Used(m) \ V
  BY DEF OwnedBy
<1>2. Keeps(m, r, Used(m) \ V)
  BY DEF Moves
<1> QED
  BY <1>1, <1>2, ReadSame

(* A piece has been put in line i.                                         *)
LEMMA PiecePut ==
  ASSUME NEW s, NEW m, AreLines(s), OwnedBy(s, m), NEW t, NEW r, AreLines(t), OwnedBy(t, r),
         NEW i \in 1 .. Len(s), Len(t) = Len(s), \A j \in 1 .. Len(s) : j # i => t[j] = s[j],
         Moves(m, r, Owns(s[i]), Owns(t[i])),
         NEW q \in 0 .. s[i].line_len, NEW u \in Seq(Byte), t[i].line_len = s[i].line_len + Len(u),
         Holds(r, t[i].line, Splice(Read(m, s[i].line, s[i].line_len), q, u))
  PROVE  PutIn(TextsOf(s, m), i, q, u, TextsOf(t, r))
<1> DEFINE ts == TextsOf(s, m)
           us == TextsOf(t, r)
           x  == Read(m, s[i].line, s[i].line_len)
           y  == Read(r, t[i].line, t[i].line_len)
           z  == Splice(x, q, u)
<1>1. /\ AreTexts(ts) /\ Len(ts) = Len(s) /\ Len(s) \in Nat \ {0}
      /\ \A k \in 1 .. Len(s) : ts[k] = Read(m, s[k].line, s[k].line_len)
      /\ ts[i] = x /\ x \in Seq(Byte) /\ Len(x) = s[i].line_len /\ s[i].line_len \in Nat
  BY TextsAre
<1>2. /\ AreTexts(us) /\ Len(us) = Len(s)
      /\ \A k \in 1 .. Len(s) : us[k] = Read(r, t[k].line, t[k].line_len)
      /\ us[i] = y /\ y \in Seq(Byte) /\ Len(y) = t[i].line_len
  BY TextsAre
<1>3. ASSUME NEW k \in 1 .. Len(s), k # i PROVE us[k] = ts[k]
  <2>1. Owns(s[k]) \cap Owns(s[i]) = {}
    BY <1>3 DEF OwnedBy
  <2>2. Read(r, s[k].line, s[k].line_len) = Read(m, s[k].line, s[k].line_len)
    BY <2>1, OtherRead
  <2> QED
    BY <1>1, <1>2, <1>3, <2>2
<1>4. z \in Seq(Byte) /\ Len(z) = t[i].line_len
  <2> HIDE DEF x
  <2>1. q \in 0 .. Len(x)
    BY <1>1
  <2>2. z \in Seq(Byte) /\ Len(z) = Len(x) + Len(u)
    BY <1>1, <2>1, SplicedIs
  <2> QED
    BY <1>1, <2>2
<1>5. ArePools(r) /\ IsOwner(t[i]) /\ Owns(t[i]) \subseteq Used(r)
  BY DEF OwnedBy
<1>6. \A j \in 1 .. t[i].line_len : y[j] = Cell(r, At(t[i].line, j))
  BY <1>5, LineRead
<1>7. \A j \in 1 .. Len(z) : Cell(r, At(t[i].line, j)) = z[j]
  BY DEF Holds
<1> HIDE DEF ts, us, x, y, z
<1>8. \A j \in 1 .. Len(y) : y[j] = z[j]
  BY <1>2, <1>4, <1>6, <1>7
<1>9. y = z
  BY ONLY <1>2, <1>4, <1>8, SameSeq
<1>10. q \in 0 .. Len(ts[i]) /\ us[i] = Splice(ts[i], q, u)
  BY <1>1, <1>2, <1>9 DEF z
<1> QED
  BY <1>1, <1>2, <1>3, <1>10 DEF PutIn, ts, us

(* n bytes of line i have been deleted.                                    *)
LEMMA PieceTaken ==
  ASSUME NEW s, NEW m, AreLines(s), OwnedBy(s, m), NEW t, NEW r, AreLines(t), OwnedBy(t, r),
         NEW i \in 1 .. Len(s), Len(t) = Len(s), \A j \in 1 .. Len(s) : j # i => t[j] = s[j],
         Moves(m, r, Owns(s[i]), Owns(t[i])),
         NEW q \in Nat, NEW n \in Nat, q + n <= s[i].line_len, t[i].line_len = s[i].line_len - n,
         NEW x, x = Read(m, s[i].line, s[i].line_len),
         Without(r, t[i], x, q, n)
  PROVE  /\ PutIn(TextsOf(t, r), i, q, SubSeq(x, q + 1, q + n), TextsOf(s, m))
         /\ Len(SubSeq(x, q + 1, q + n)) = n
<1> DEFINE ts == TextsOf(s, m)
           us == TextsOf(t, r)
           y  == Read(r, t[i].line, t[i].line_len)
           u  == SubSeq(x, q + 1, q + n)
           L  == s[i].line_len
           z  == Splice(y, q, u)
<1>1. /\ AreTexts(ts) /\ Len(ts) = Len(s) /\ Len(s) \in Nat \ {0}
      /\ \A k \in 1 .. Len(s) : ts[k] = Read(m, s[k].line, s[k].line_len)
      /\ ts[i] = x /\ x \in Seq(Byte) /\ Len(x) = L /\ L \in Nat
  BY TextsAre
<1>2. /\ AreTexts(us) /\ Len(us) = Len(s)
      /\ \A k \in 1 .. Len(s) : us[k] = Read(r, t[k].line, t[k].line_len)
      /\ us[i] = y /\ y \in Seq(Byte) /\ Len(y) = L - n
  BY TextsAre
<1>3. ASSUME NEW k \in 1 .. Len(s), k # i PROVE us[k] = ts[k]
  <2>1. Owns(s[k]) \cap Owns(s[i]) = {}
    BY <1>3 DEF OwnedBy
  <2>2. Read(r, s[k].line, s[k].line_len) = Read(m, s[k].line, s[k].line_len)
    BY <2>1, OtherRead
  <2> QED
    BY <1>1, <1>2, <1>3, <2>2
<1>5. ArePools(r) /\ IsOwner(t[i]) /\ Owns(t[i]) \subseteq Used(r)
  BY DEF OwnedBy
<1>6. \A j \in 1 .. t[i].line_len : y[j] = Cell(r, At(t[i].line, j))
  BY <1>5, LineRead
<1> HIDE DEF ts, us, y
<1>7. \A j \in 1 .. L - n : y[j] = x[IF j <= q THEN j ELSE j + n]
  <2>1. \A j \in 1 .. L - n : Cell(r, At(t[i].line, j)) = x[IF j <= q THEN j ELSE j + n]
    BY <1>1 DEF Without
  <2> QED
    BY <1>6, <2>1
<1> HIDE DEF L
<1>a. q + n <= L
  BY DEF L
<1>8. u \in Seq(Byte) /\ Len(u) = n /\ \A j \in 1 .. n : u[j] = x[q + j]
  <2>4. \A j \in q + 1 .. q + n : x[j] \in Byte
    <3>1. \A j \in q + 1 .. q + n : j \in 1 .. Len(x)
      BY <1>1, <1>a
    <3>2. x \in Seq(Byte)
      BY <1>1
    <3>3. \A j \in 1 .. Len(x) : x[j] \in Byte
      BY ONLY <3>2
    <3> QED
      BY ONLY <3>1, <3>3
  <2>5. q + 1 \in Int /\ q + n \in Int
    OBVIOUS
  <2>6. /\ u \in Seq(Byte) /\ Len(u) = IF q + 1 <= q + n THEN (q + n) - (q + 1) + 1 ELSE 0
        /\ \A j \in 1 .. (q + n) - (q + 1) + 1 : u[j] = x[(q + 1) + j - 1]
    BY ONLY <2>4, <2>5, SubSeqProperties DEF u
  <2> HIDE DEF u
  <2>7. /\ (q + n) - (q + 1) + 1 = n
        /\ (IF q + 1 <= q + n THEN (q + n) - (q + 1) + 1 ELSE 0) = n
    BY ONLY q \in Nat, n \in Nat
  <2>2. Len(u) = n /\ u \in Seq(Byte) /\ \A j \in 1 .. n : u[j] = x[(q + 1) + j - 1]
    BY ONLY <2>6, <2>7
  <2>3. \A j \in 1 .. n : (q + 1) + j - 1 = q + j
    OBVIOUS
  <2> QED
    BY <2>2, <2>3
<1> HIDE DEF u
<1>b. q \in 0 .. Len(y)
  BY ONLY <1>1, <1>2, <1>a, q \in Nat, n \in Nat
<1>9. /\ z \in Seq(Byte) /\ Len(z) = (L - n) + n
      /\ \A j \in 1 .. (L - n) + n : z[j] = IF j <= q THEN y[j] ELSE IF j <= q + n THEN u[j - q] ELSE y[j - n]
  <2>0. y \in Seq(Byte) /\ u \in Seq(Byte) /\ q \in 0 .. Len(y)
    BY <1>2, <1>8, <1>b
  <2>1. /\ z \in Seq(Byte) /\ Len(z) = Len(y) + Len(u)
        /\ \A j \in 1 .. Len(y) + Len(u) :
             z[j] = IF j <= q THEN y[j] ELSE IF j <= q + Len(u) THEN u[j - q] ELSE y[j - Len(u)]
    BY ONLY <2>0, SplicedIs DEF z
  <2>2. Len(y) = L - n /\ Len(u) = n
    BY <1>2, <1>8
  <2> HIDE DEF z
  <2> QED
    BY ONLY <2>1, <2>2
<1> HIDE DEF z
<1>10. (L - n) + n = L
  BY <1>1
<1>11. ASSUME NEW j \in 1 .. Len(x) PROVE x[j] = z[j]
  <2>1. j \in 1 .. L /\ z[j] = IF j <= q THEN y[j] ELSE IF j <= q + n THEN u[j - q] ELSE y[j - n]
    BY <1>1, <1>9, <1>10
  <2>2. CASE j <= q
    <3>1. j \in 1 .. L - n
      BY ONLY <1>1, <1>a, <2>1, <2>2, q \in Nat, n \in Nat
    <3> QED
      BY <1>7, <2>1, <2>2, <3>1
  <2>3. CASE ~(j <= q) /\ j <= q + n
    <3>1. j - q \in 1 .. n /\ q + (j - q) = j
      BY ONLY <1>1, <1>a, <2>1, <2>3, q \in Nat, n \in Nat
    <3>2. u[j - q] = x[q + (j - q)]
      BY <1>8, <3>1
    <3> QED
      BY <2>1, <2>3, <3>1, <3>2
  <2>4. CASE ~(j <= q) /\ ~(j <= q + n)
    <3>1. j - n \in 1 .. L - n /\ (j - n) + n = j /\ ~(j - n <= q)
      BY ONLY <1>1, <1>a, <2>1, <2>4, q \in Nat, n \in Nat
    <3>2. y[j - n] = x[IF j - n <= q THEN j - n ELSE (j - n) + n]
      BY <1>7, <3>1
    <3> QED
      BY <2>1, <2>4, <3>1, <3>2
  <2> QED
    BY <2>2, <2>3, <2>4
<1>12. x = z
  <2>1. Len(x) = Len(z)
    BY <1>1, <1>9, <1>10
  <2> QED
    BY ONLY <1>1, <1>9, <1>11, <2>1, SameSeq
<1>13. q \in 0 .. Len(us[i]) /\ ts[i] = Splice(us[i], q, u)
  BY <1>1, <1>2, <1>b, <1>12 DEF z
<1> QED
  BY <1>1, <1>2, <1>3, <1>8, <1>13 DEF PutIn, ts, us, u

(* Line i has been broken after q bytes.                                   *)
LEMMA LineCut ==
  ASSUME NEW s, NEW m, AreLines(s), OwnedBy(s, m), NEW t, AreLines(t), OwnedBy(t, m),
         NEW i \in 1 .. Len(s), Len(t) = Len(s) + 1,
         \A j \in 1 .. Len(s) + 1 : j < i => t[j] = s[j],
         \A j \in 1 .. Len(s) + 1 : j > i + 1 => t[j] = s[j - 1],
         NEW q \in 0 .. s[i].line_len, t[i].line_len = q, q > 0 => t[i].line = s[i].line,
         t[i + 1].line_len = s[i].line_len - q,
         q < s[i].line_len => t[i + 1].line = Plus(s[i].line, q)
  PROVE  BreakAt(TextsOf(s, m), i, q, TextsOf(t, m))
<1> DEFINE ts == TextsOf(s, m)
           us == TextsOf(t, m)
           p  == s[i].line
           L  == s[i].line_len
           N  == Len(s)
<1>1. /\ AreTexts(ts) /\ Len(ts) = N /\ N \in Nat \ {0}
      /\ \A k \in 1 .. N : ts[k] = Read(m, s[k].line, s[k].line_len)
      /\ Len(ts[i]) = L /\ L \in Nat
  <2> HIDE DEF ts
  <2>1. /\ AreTexts(ts) /\ Len(ts) = N /\ N \in Nat \ {0}
        /\ \A k \in 1 .. N : /\ ts[k] = Read(m, s[k].line, s[k].line_len)
                             /\ Len(ts[k]) = s[k].line_len /\ s[k].line_len \in Nat
    BY ONLY TextsAre, AreLines(s), OwnedBy(s, m) DEF ts
  <2> QED
    BY ONLY <2>1, i \in 1 .. Len(s)
<1>2. /\ AreTexts(us) /\ Len(us) = N + 1
      /\ \A k \in 1 .. N + 1 : us[k] = Read(m, t[k].line, t[k].line_len) /\ Len(us[k]) = t[k].line_len
  <2> HIDE DEF us
  <2>1. /\ AreTexts(us) /\ Len(us) = Len(t)
        /\ \A k \in 1 .. Len(t) : us[k] = Read(m, t[k].line, t[k].line_len) /\ Len(us[k]) = t[k].line_len
    BY ONLY TextsAre, AreLines(t), OwnedBy(t, m) DEF us
  <2> QED
    BY ONLY <2>1, Len(t) = Len(s) + 1
<1>3. ArePools(m) /\ \A k \in 1 .. N : IsOwner(s[k]) /\ Owns(s[k]) \subseteq Used(m)
  BY DEF OwnedBy
<1>4. ArePools(m) /\ \A k \in 1 .. N + 1 : IsOwner(t[k]) /\ Owns(t[k]) \subseteq Used(m)
  BY DEF OwnedBy
<1>5. i \in 1 .. N /\ i \in 1 .. N + 1 /\ i + 1 \in 1 .. N + 1
  BY <1>1
<1>6. \A j \in 1 .. L : ts[i][j] = Cell(m, At(p, j))
  BY <1>1, <1>3, <1>5, LineRead
<1>7. \A j \in 1 .. q : us[i][j] = Cell(m, At(t[i].line, j))
  <2>1. \A j \in 1 .. t[i].line_len : Read(m, t[i].line, t[i].line_len)[j] = Cell(m, At(t[i].line, j))
    BY <1>4, <1>5, LineRead
  <2>2. us[i] = Read(m, t[i].line, t[i].line_len) /\ t[i].line_len = q
    BY <1>2, <1>5
  <2> QED
    BY ONLY <2>1, <2>2
<1>8. \A j \in 1 .. L - q : us[i + 1][j] = Cell(m, At(t[i + 1].line, j))
  BY <1>2, <1>4, <1>5, LineRead
<1> HIDE DEF ts, us, L, N
<1>9. q \in Nat /\ q <= L
  BY <1>1 DEF L
<1>10. \A k \in 1 .. N : k < i => us[k] = ts[k]
  <2>1. SUFFICES ASSUME NEW k \in 1 .. N, k < i PROVE us[k] = ts[k]
    OBVIOUS
  <2>2. k \in 1 .. N + 1
    BY <1>1
  <2>3. t[k] = s[k]
    BY <2>1, <2>2 DEF N
  <2> QED
    BY <1>1, <1>2, <2>2, <2>3
<1>11. \A k \in 1 .. N : k > i => us[k + 1] = ts[k]
  <2>1. SUFFICES ASSUME NEW k \in 1 .. N, k > i PROVE us[k + 1] = ts[k]
    OBVIOUS
  <2>2. k + 1 \in 1 .. N + 1 /\ k + 1 > i + 1 /\ (k + 1) - 1 = k
    BY <1>1, <2>1
  <2>3. t[k + 1] = s[k]
    BY <2>2 DEF N
  <2> QED
    BY <1>1, <1>2, <2>2, <2>3
<1>12. \A j \in 1 .. q : us[i][j] = ts[i][j]
  <2>1. SUFFICES ASSUME NEW j \in 1 .. q PROVE us[i][j] = ts[i][j]
    OBVIOUS
  <2>2. j \in 1 .. L /\ q > 0
    BY <1>1, <1>9
  <2>3. t[i].line = p
    BY <2>2
  <2> QED
    BY <1>6, <1>7, <2>2, <2>3
<1>13. \A j \in 1 .. L - q : us[i + 1][j] = ts[i][q + j]
  <2>1. SUFFICES ASSUME NEW j \in 1 .. L - q PROVE us[i + 1][j] = ts[i][q + j]
    OBVIOUS
  <2>2. q + j \in 1 .. L /\ q < L
    BY <1>1, <1>9
  <2>3. t[i + 1].line = Plus(p, q)
    BY <2>2 DEF L
  <2>4. p[2] \in Nat
    <3>1. L # 0
      BY <1>9, <2>2
    <3> QED
      BY <1>3, <1>5, <3>1 DEF IsOwner, L
  <2>5. At(Plus(p, q), j) = At(p, q + j)
    BY <1>9, <2>2, <2>4 DEF At, Plus
  <2> QED
    BY <1>6, <1>8, <2>2, <2>3, <2>5
<1>14. Len(us[i]) = q /\ Len(us[i + 1]) = L - q
  BY <1>2, <1>5 DEF L
<1>15. q \in 0 .. Len(ts[i])
  BY <1>1, <1>9
<1> QED
  BY <1>1, <1>2, <1>5, <1>10, <1>11, <1>12, <1>13, <1>14, <1>15 DEF BreakAt, ts, us

(* Line i + 1 has been joined to line i.                                   *)
LEMMA LinesTied ==
  ASSUME NEW s, NEW m, AreLines(s), OwnedBy(s, m), NEW t, NEW r, AreLines(t), OwnedBy(t, r),
         NEW i \in 1 .. Len(s), i + 1 \in 1 .. Len(s), Len(t) = Len(s) - 1,
         \A j \in 1 .. Len(s) - 1 : j < i => t[j] = s[j],
         \A j \in 1 .. Len(s) - 1 : j > i => t[j] = s[j + 1],
         Moves(m, r, Owns(s[i]) \cup Owns(s[i + 1]), Owns(t[i])),
         t[i].line_len = s[i].line_len + s[i + 1].line_len,
         Holds(r, t[i].line, Read(m, s[i].line, s[i].line_len) \o Read(m, s[i + 1].line, s[i + 1].line_len))
  PROVE  BreakAt(TextsOf(t, r), i, s[i].line_len, TextsOf(s, m))
<1> DEFINE ts == TextsOf(s, m)
           us == TextsOf(t, r)
           a  == s[i].line_len
           b  == s[i + 1].line_len
           N  == Len(s)
           x  == Read(m, s[i].line, a)
           y  == Read(m, s[i + 1].line, b)
           z  == x \o y
<1>1. /\ AreTexts(ts) /\ Len(ts) = N /\ N \in Nat \ {0}
      /\ \A k \in 1 .. N : ts[k] = Read(m, s[k].line, s[k].line_len)
      /\ ts[i] = x /\ x \in Seq(Byte) /\ Len(x) = a /\ a \in Nat
      /\ ts[i + 1] = y /\ y \in Seq(Byte) /\ Len(y) = b /\ b \in Nat
  BY TextsAre
<1>2. /\ AreTexts(us) /\ Len(us) = N - 1
      /\ \A k \in 1 .. N - 1 : us[k] = Read(r, t[k].line, t[k].line_len) /\ Len(us[k]) = t[k].line_len
  BY TextsAre
<1>3. i \in 1 .. N - 1 /\ i \in 1 .. N /\ N - 1 \in Nat
  BY <1>1
<1>4. ArePools(r) /\ IsOwner(t[i]) /\ Owns(t[i]) \subseteq Used(r)
  BY <1>3 DEF OwnedBy
<1>5. \A j \in 1 .. a + b : us[i][j] = Cell(r, At(t[i].line, j))
  BY <1>2, <1>3, <1>4, LineRead
<1>6. \A j \in 1 .. Len(z) : Cell(r, At(t[i].line, j)) = z[j]
  BY DEF Holds
<1>7. ASSUME NEW k \in 1 .. N, k # i, k # i + 1
      PROVE  Read(r, s[k].line, s[k].line_len) = ts[k]
  <2>1. Owns(s[k]) \cap Owns(s[i]) = {} /\ Owns(s[k]) \cap Owns(s[i + 1]) = {}
    BY <1>7 DEF OwnedBy
  <2>2. Owns(s[k]) \cap (Owns(s[i]) \cup Owns(s[i + 1])) = {}
    BY <2>1
  <2>3. Read(r, s[k].line, s[k].line_len) = Read(m, s[k].line, s[k].line_len)
    BY <2>2, OtherRead
  <2> QED
    BY <1>1, <2>3
<1> HIDE DEF ts, us, N, x, y
<1>8. \A k \in 1 .. N - 1 : k < i => ts[k] = us[k]
  <2>1. SUFFICES ASSUME NEW k \in 1 .. N - 1, k < i PROVE us[k] = ts[k]
    OBVIOUS
  <2>2. k \in 1 .. N /\ k # i /\ k # i + 1
    BY <1>1, <2>1
  <2>3. t[k] = s[k]
    BY <2>1 DEF N
  <2> QED
    BY <1>2, <1>7, <2>2, <2>3
<1>9. \A k \in 1 .. N - 1 : k > i => ts[k + 1] = us[k]
  <2>1. SUFFICES ASSUME NEW k \in 1 .. N - 1, k > i PROVE us[k] = ts[k + 1]
    OBVIOUS
  <2>2. k + 1 \in 1 .. N /\ k + 1 # i /\ k + 1 # i + 1
    BY <1>1, <2>1
  <2>3. t[k] = s[k + 1]
    BY <2>1 DEF N
  <2> QED
    BY <1>2, <1>7, <2>2, <2>3
<1>10. Len(z) = a + b /\ \A j \in 1 .. a + b : z[j] = IF j <= a THEN x[j] ELSE y[j - a]
  <2> HIDE DEF a, b
  <2>1. x \in Seq(Byte) /\ Len(x) = a /\ y \in Seq(Byte) /\ Len(y) = b
    BY <1>1
  <2> QED
    BY ONLY <2>1
<1> HIDE DEF z, a, b
<1>11. \A j \in 1 .. a + b : us[i][j] = IF j <= a THEN x[j] ELSE y[j - a]
  BY <1>5, <1>6, <1>10
<1>12. \A j \in 1 .. a : ts[i][j] = us[i][j]
  <2>1. SUFFICES ASSUME NEW j \in 1 .. a PROVE us[i][j] = ts[i][j]
    OBVIOUS
  <2>2. j \in 1 .. a + b /\ j <= a
    BY <1>1
  <2> QED
    BY <1>1, <1>11, <2>2
<1>13. \A j \in 1 .. b : ts[i + 1][j] = us[i][a + j]
  <2>1. SUFFICES ASSUME NEW j \in 1 .. b PROVE us[i][a + j] = ts[i + 1][j]
    OBVIOUS
  <2>2. a + j \in 1 .. a + b /\ ~(a + j <= a) /\ (a + j) - a = j
    BY <1>1
  <2> QED
    BY <1>1, <1>11, <2>2
<1>14. Len(us[i]) = a + b /\ Len(ts[i]) = a /\ Len(ts[i + 1]) = b
  BY <1>1, <1>2, <1>3 DEF a, b
<1>15. (a + b) - a = b /\ a \in 0 .. a + b /\ Len(ts) = (N - 1) + 1
  BY <1>1
<1>16. BreakAt(us, i, a, ts)
  BY <1>1, <1>2, <1>3, <1>8, <1>9, <1>12, <1>13, <1>14, <1>15 DEF BreakAt
<1> QED
  BY <1>16 DEF ts, us, a

-----------------------------------------------------------------------------
(* The length of the piece that s begins with.                             *)
PieceIn(s) == Min({Len(s)} \cup {i - 1 : i \in {j \in DOMAIN s : s[j] = NL}})

(* After a piece there is a line end or nothing.                           *)
LEMMA PieceEnds ==
  ASSUME NEW s \in Seq(Byte \cup {NL}), NEW n, n = PieceIn(s)
  PROVE  /\ n \in Nat /\ n <= Len(s) /\ (n < Len(s) => s[n + 1] = NL)
         /\ s # <<>> /\ s[1] = NL => n = 0
<1> DEFINE T == {Len(s)} \cup {i - 1 : i \in {j \in DOMAIN s : s[j] = NL}}
<1>1. Len(s) \in Nat /\ DOMAIN s = 1 .. Len(s)
  OBVIOUS
<1>2. T \subseteq Nat /\ Len(s) \in T
  BY <1>1
<1>3. n = Min(T)
  BY DEF PieceIn
<1>4. ASSUME NEW x \in T, x # Len(s) PROVE x + 1 \in DOMAIN s /\ s[x + 1] = NL
  BY <1>1, <1>4
<1>5. s # <<>> /\ s[1] = NL => 0 \in T
  BY <1>1
<1> HIDE DEF T
<1>6. n \in T /\ \A y \in T : n <= y
  BY <1>2, <1>3, MinIs
<1>7. n \in Nat /\ n <= Len(s)
  BY <1>2, <1>6
<1>8. n < Len(s) => s[n + 1] = NL
  <2>1. SUFFICES ASSUME n < Len(s) PROVE s[n + 1] = NL
    OBVIOUS
  <2>2. n # Len(s)
    BY <1>1, <1>7, <2>1
  <2> QED
    BY ONLY <1>4, <1>6, <2>2
<1> QED
  BY <1>5, <1>6, <1>7, <1>8

(* What holds between the turns of the two loops: the other one's variable *)
(* has nothing in it; a piece that has been put in and not passed over is  *)
(* followed by a line end; and no mark is in such a piece or at its end,   *)
(* unless it is where the piece begins.                                    *)
TurnInv ==
  /\ op # "insert" => rest = <<>>
  /\ op # "delete" => left = 0
  /\ len > 0 /\ rest # <<>> => PieceLen = 0
  /\ \A k \in DOMAIN marks : marks[k].line = line /\ marks[k].pos > pos => marks[k].pos > pos + len

(* The first turns.                                                        *)
LEMMA InitTurn == Init => TurnInv
  BY DEF Init, Idle, TurnInv

(* Where nothing has been put in that is not passed over.                  *)
LEMMA NoPiece ==
  ASSUME Inv', len' = 0, op' # "insert" => rest' = <<>>, op' # "delete" => left' = 0
  PROVE  TurnInv'
<1>1. \A k \in DOMAIN marks' : marks'[k].pos \in Nat
  BY DEF Inv, MarksInv, IsMark, Mark
<1>2. pos' \in Nat
  BY DEF Inv, PlaceInv
<1> QED
  BY <1>1, <1>2 DEF TurnInv

(* A piece is put in.                                                      *)
LEMMA PieceTurn == Inv /\ TurnInv /\ InsertPiece /\ Inv' => TurnInv'
<1> SUFFICES ASSUME Inv, TurnInv, InsertPiece, Inv' PROVE TurnInv'
  OBVIOUS
<1> DEFINE n == PieceLen
<1>1. /\ op = "insert" /\ op' = op /\ line' = line /\ pos' = pos /\ left' = left /\ len' = n
      /\ rest' = SubSeq(rest, n + 1, Len(rest)) /\ n > 0
      /\ marks' = [k \in DOMAIN marks |-> AfterPiece(marks[k], n)]
  BY DEF InsertPiece, MoveMarks
<1>2. rest \in Seq(Byte \cup {NL}) /\ rest' \in Seq(Byte \cup {NL}) /\ n = PieceIn(rest)
  BY DEF Inv, OwedInv, PieceLen, PieceIn
<1>3. pos \in Nat /\ \A k \in DOMAIN marks : marks[k].pos \in Nat
  BY DEF Inv, PlaceInv, MarksInv, IsMark, Mark
<1>4. n \in Nat /\ n <= Len(rest) /\ (n < Len(rest) => rest[n + 1] = NL)
  BY <1>2, PieceEnds
<1>5. left' = 0
  BY <1>1 DEF TurnInv
<1> HIDE DEF n
<1>6. rest' # <<>> => rest'[1] = NL
  <2>1. SUFFICES ASSUME rest' # <<>> PROVE rest'[1] = NL
    OBVIOUS
  <2>2. n < Len(rest)
    <3>1. SUFFICES ASSUME ~(n < Len(rest)) PROVE FALSE
      OBVIOUS
    <3>2. Len(rest) < n + 1 /\ n + 1 \in Int /\ Len(rest) \in Int
      BY <1>2, <1>4, <3>1
    <3> QED
      BY <1>1, <2>1, <3>2, SubSeqEmpty
  <2>3. rest' = [j \in 1 .. Len(rest) - n |-> rest[n + j]]
    BY <1>1, <1>2, <1>4
  <2>4. 1 \in 1 .. Len(rest) - n
    BY <1>2, <1>4, <2>2
  <2> QED
    BY <1>4, <2>2, <2>3, <2>4
<1>7. rest' # <<>> => PieceLen' = 0
  <2>1. PieceLen' = PieceIn(rest')
    BY DEF PieceLen, PieceIn
  <2> QED
    BY <1>2, <1>6, <2>1, PieceEnds
<1>8. ASSUME NEW k \in DOMAIN marks', marks'[k].line = line', marks'[k].pos > pos'
      PROVE  marks'[k].pos > pos' + len'
  <2>1. k \in DOMAIN marks /\ marks'[k] = AfterPiece(marks[k], n) /\ marks[k].pos \in Nat
    BY <1>1, <1>3
  <2>2. CASE marks[k].line = line /\ marks[k].pos > pos
    <3>1. marks'[k] = [marks[k] EXCEPT !.pos = @ + n]
      BY <2>1, <2>2 DEF AfterPiece
    <3>2. marks[k] = [line |-> marks[k].line, pos |-> marks[k].pos]
      BY <2>1 DEF Inv, MarksInv, IsMark, Mark
    <3>3. marks'[k].pos = marks[k].pos + n
      BY <3>1, <3>2
    <3> QED
      BY <1>1, <1>3, <1>4, <2>1, <2>2, <3>3
  <2>3. CASE ~(marks[k].line = line /\ marks[k].pos > pos)
    <3>1. marks'[k] = marks[k]
      BY <2>1, <2>3 DEF AfterPiece
    <3> QED
      BY <1>1, <1>8, <2>3, <3>1
  <2> QED
    BY <2>2, <2>3
<1> QED
  BY <1>1, <1>5, <1>7, <1>8 DEF TurnInv

(* No step disturbs it.                                                    *)
LEMMA StepTurn == Inv /\ TurnInv /\ [Next]_vars /\ Inv' => TurnInv'
<1> SUFFICES ASSUME Inv, TurnInv, [Next]_vars, Inv' PROVE TurnInv'
  OBVIOUS
<1>0. op # "insert" => len = 0
  BY DEF Inv, PlaceInv
<1>1. CASE \E l \in DOMAIN lines : \E p \in 0 .. lines[l].line_len :
             \/ \E s \in Streams : InsertStream(l, p, s)
             \/ \E n \in 1 .. MaxDel : DeleteStream(l, p, n)
  BY <1>0, <1>1, NoPiece DEF TurnInv, InsertStream, DeleteStream
<1>2. CASE InsertPiece
  BY <1>2, PieceTurn
<1>3. CASE BreakLine
  BY <1>3, NoPiece DEF TurnInv, BreakLine
<1>4. CASE JoinLines
  BY <1>0, <1>4, NoPiece DEF TurnInv, JoinLines
<1>5. CASE DeleteInLine
  BY <1>0, <1>5, NoPiece DEF TurnInv, DeleteInLine
<1>6. CASE InsertEnd \/ InsertFails \/ DeleteEnd \/ DeleteFails
  BY <1>6, NoPiece DEF InsertEnd, InsertFails, DeleteEnd, DeleteFails, Return
<1>7. CASE \E m \in Marks, l \in DOMAIN lines : \E p \in 0 .. lines[l].line_len + 1 : SetMark(m, l, p)
  BY <1>0, <1>7, NoPiece DEF TurnInv, SetMark, runVars
<1>8. CASE \E m \in Marks : UnsetMark(m)
  BY <1>0, <1>8, NoPiece DEF TurnInv, UnsetMark, runVars
<1>9. CASE UNCHANGED vars
  BY <1>9 DEF TurnInv, PieceLen, vars, textVars, runVars
<1> QED
  BY <1>1, <1>2, <1>3, <1>4, <1>5, <1>6, <1>7, <1>8, <1>9 DEF Next

(* It holds in every state.                                                *)
LEMMA TurnInvariance == Spec => []TurnInv
<1>1. Init => TurnInv
  BY InitTurn
<1>2. Inv /\ TurnInv /\ [Next]_vars /\ Inv' => TurnInv'
  BY StepTurn
<1> QED
  BY <1>1, <1>2, Invariance, PTL DEF Spec

-----------------------------------------------------------------------------
(* Where the position p of line l is in the flattened text, -1 if the line *)
(* has no such position.                                                   *)
Off(ts, l, p) == IF p > Len(ts[l]) THEN -1 ELSE Start(ts, l) + p

(* The positions of a line are after those of the lines before.            *)
LEMMA OffsetsGrow ==
  ASSUME NEW ts, AreTexts(ts), NEW k \in 1 .. Len(ts), NEW l \in 1 .. Len(ts), k < l
  PROVE  /\ Start(ts, k) + Len(ts[k]) < Start(ts, l)
         /\ Start(ts, k) \in Nat /\ Start(ts, l) \in Nat /\ Len(ts[k]) \in Nat /\ Len(ts[l]) \in Nat
<1>1. Len(ts) \in Nat /\ Len(ts[k]) \in Nat /\ Len(ts[l]) \in Nat
  BY TextIs
<1>2. Start(ts, k + 1) = Start(ts, k) + Len(ts[k]) + 1 /\ Start(ts, k) \in Nat
  BY StartNext
<1>3. Start(ts, k + 1) <= Start(ts, l) /\ Start(ts, l) \in Nat
  <2>1. k + 1 \in 1 .. Len(ts) + 1 /\ l \in 1 .. Len(ts) + 1 /\ k + 1 <= l
    BY <1>1
  <2> QED
    BY <2>1, StartGrows
<1> QED
  BY <1>1, <1>2, <1>3

(* A place of the document, and its offset.                                *)
IsPlace(ts, l, p) == AreTexts(ts) /\ l \in 1 .. Len(ts) /\ p \in Nat

(* What is put in a line is before a mark that is after it.                *)
LEMMA MarkPut ==
  ASSUME NEW ts, NEW us, NEW l, NEW q, NEW s, PutIn(ts, l, q, s, us),
         NEW k, NEW p, IsPlace(ts, k, p), p <= Len(ts[k]),
         NEW x, x = IF k = l /\ p > q THEN p + Len(s) ELSE p
  PROVE  Off(us, k, x) = LET o == Start(ts, l) + q
                             z == Off(ts, k, p)
                         IN  IF z > o THEN z + Len(s) ELSE z
<1> DEFINE n == Len(s)
           a == Start(ts, l)
           b == Start(ts, k)
           c == Start(us, k)
           L == Len(ts[l])
           M == Len(us[k])
           K == Len(ts[k])
<1>1. /\ AreTexts(ts) /\ AreTexts(us) /\ l \in 1 .. Len(ts) /\ k \in 1 .. Len(ts) /\ Len(us) = Len(ts)
      /\ s \in Seq(Byte) /\ q \in 0 .. Len(ts[l]) /\ p \in Nat
      /\ (k # l => us[k] = ts[k]) /\ us[l] = Splice(ts[l], q, s)
  BY DEF PutIn, IsPlace
<1>2. Len(ts) \in Nat /\ ts[l] \in Seq(Byte) /\ L \in Nat /\ K \in Nat /\ n \in Nat /\ M \in Nat
  BY <1>1, TextIs
<1>3. M = (IF k = l THEN L + n ELSE K) /\ (k = l => K = L)
  <2>0. ts[l] \in Seq(Byte) /\ s \in Seq(Byte) /\ q \in 0 .. Len(ts[l])
    BY <1>1, <1>2
  <2>1. Len(Splice(ts[l], q, s)) = L + n
    BY ONLY <2>0, SplicedIs DEF L, n
  <2> QED
    BY <1>1, <2>1
<1>4. a \in Nat /\ b \in Nat
  BY <1>1, StartNext
<1>5. c = IF k <= l THEN b ELSE b + n
  BY <1>1, <1>2, PutStarts
<1>6. (k < l => b + K < a) /\ (l < k => a + L < b)
  BY <1>1, OffsetsGrow
<1>7. k = l => a = b
  OBVIOUS
<1>8. /\ Off(us, k, x) = IF x > M THEN -1 ELSE c + x
      /\ Off(ts, k, p) = b + p
  BY <1>1, <1>2 DEF Off
<1> HIDE DEF n, a, b, c, L, M, K
<1>9. k \in Nat /\ l \in Nat /\ q \in Nat /\ q <= L /\ p <= K /\ p \in Nat
  BY <1>1, <1>2 DEF L, K
<1>10. x = IF k = l /\ p > q THEN p + n ELSE p
  BY DEF n
<1>11. ~(x > M)
  BY ONLY <1>2, <1>3, <1>9, <1>10
<1>12. c + x = IF b + p > a + q THEN (b + p) + n ELSE b + p
  <2>1. CASE k = l
    BY ONLY <2>1, <1>2, <1>4, <1>5, <1>7, <1>9, <1>10
  <2>2. CASE k < l
    BY ONLY <2>2, <1>2, <1>4, <1>5, <1>6, <1>9, <1>10
  <2>3. CASE l < k
    BY ONLY <2>3, <1>2, <1>4, <1>5, <1>6, <1>9, <1>10
  <2> QED
    BY <1>9, <2>1, <2>2, <2>3
<1> QED
  BY <1>8, <1>11, <1>12 DEF n, a

(* A mark that is after what is taken from a line follows its byte, one    *)
(* that is in it goes where it was.                                        *)
LEMMA MarkTaken ==
  ASSUME NEW ts, NEW us, NEW l, NEW q, NEW s, PutIn(us, l, q, s, ts),
         NEW k, NEW p, IsPlace(ts, k, p), p <= Len(ts[k]),
         NEW x, x = IF k # l \/ p < q THEN p ELSE IF p < q + Len(s) THEN q ELSE p - Len(s)
  PROVE  Off(us, k, x) = LET o == Start(ts, l) + q
                             z == Off(ts, k, p)
                         IN  IF z <= o THEN z ELSE IF z < o + Len(s) THEN o ELSE z - Len(s)
<1> DEFINE n == Len(s)
           a == Start(ts, l)
           b == Start(ts, k)
           c == Start(us, k)
           L == Len(us[l])
           M == Len(us[k])
           K == Len(ts[k])
<1>1. /\ AreTexts(ts) /\ AreTexts(us) /\ l \in 1 .. Len(us) /\ k \in 1 .. Len(us) /\ Len(us) = Len(ts)
      /\ l \in 1 .. Len(ts) /\ k \in 1 .. Len(ts)
      /\ s \in Seq(Byte) /\ q \in 0 .. Len(us[l]) /\ p \in Nat
      /\ (k # l => us[k] = ts[k]) /\ ts[l] = Splice(us[l], q, s)
  BY DEF PutIn, IsPlace
<1>2. Len(us) \in Nat /\ us[l] \in Seq(Byte) /\ L \in Nat /\ K \in Nat /\ n \in Nat /\ M \in Nat
  BY <1>1, TextIs
<1>3. K = (IF k = l THEN L + n ELSE M) /\ (k = l => M = L) /\ Len(ts[l]) = L + n
  <2>0. us[l] \in Seq(Byte) /\ s \in Seq(Byte) /\ q \in 0 .. Len(us[l])
    BY <1>1, <1>2
  <2>1. Len(Splice(us[l], q, s)) = L + n
    BY ONLY <2>0, SplicedIs DEF L, n
  <2> QED
    BY <1>1, <2>1
<1>4. a \in Nat /\ b \in Nat /\ c \in Nat
  BY <1>1, StartNext
<1>5. b = IF k <= l THEN c ELSE c + n
  BY <1>1, <1>2, PutStarts
<1>6. (k < l => b + K < a) /\ (l < k => a + (L + n) < b)
  BY <1>1, <1>3, OffsetsGrow
<1>7. k = l => a = b
  OBVIOUS
<1>8. /\ Off(us, k, x) = IF x > M THEN -1 ELSE c + x
      /\ Off(ts, k, p) = b + p
  BY <1>1, <1>2 DEF Off
<1> HIDE DEF n, a, b, c, L, M, K
<1>9. k \in Nat /\ l \in Nat /\ q \in Nat /\ q <= L /\ p <= K /\ p \in Nat
  BY <1>1, <1>2 DEF L, K
<1>10. x = IF k # l \/ p < q THEN p ELSE IF p < q + n THEN q ELSE p - n
  BY DEF n
<1>11. ~(x > M)
  BY ONLY <1>2, <1>3, <1>9, <1>10
<1>12. c + x = IF b + p <= a + q THEN b + p ELSE IF b + p < (a + q) + n THEN a + q ELSE (b + p) - n
  <2>1. CASE k = l
    BY ONLY <2>1, <1>2, <1>4, <1>5, <1>7, <1>9, <1>10
  <2>2. CASE k < l
    BY ONLY <2>2, <1>2, <1>4, <1>5, <1>6, <1>9, <1>10
  <2>3. CASE l < k
    BY ONLY <2>3, <1>2, <1>4, <1>5, <1>6, <1>9, <1>10
  <2> QED
    BY <1>9, <2>1, <2>2, <2>3
<1> QED
  BY <1>8, <1>11, <1>12 DEF n, a

(* A mark after a new line end is one further.                             *)
LEMMA MarkBroken ==
  ASSUME NEW ts, NEW us, NEW l, NEW q, BreakAt(ts, l, q, us),
         NEW k, NEW p, IsPlace(ts, k, p), p <= Len(ts[k]),
         NEW j, j = (IF k > l \/ (k = l /\ p > q) THEN k + 1 ELSE k),
         NEW x, x = (IF k = l /\ p > q THEN p - q ELSE p)
  PROVE  Off(us, j, x) = LET o == Start(ts, l) + q
                             z == Off(ts, k, p)
                         IN  IF z > o THEN z + 1 ELSE z
<1> DEFINE a == Start(ts, l)
           b == Start(ts, k)
           c == Start(us, j)
           L == Len(ts[l])
           M == Len(us[j])
           K == Len(ts[k])
<1>1. /\ AreTexts(ts) /\ AreTexts(us) /\ l \in 1 .. Len(ts) /\ k \in 1 .. Len(ts) /\ Len(us) = Len(ts) + 1
      /\ q \in 0 .. Len(ts[l]) /\ p \in Nat
      /\ (k < l => us[k] = ts[k]) /\ (k > l => us[k + 1] = ts[k])
      /\ Len(us[l]) = q /\ Len(us[l + 1]) = Len(ts[l]) - q
  BY DEF BreakAt, IsPlace
<1>2. Len(ts) \in Nat /\ L \in Nat /\ K \in Nat
  BY <1>1, TextIs
<1>9. k \in Nat /\ l \in Nat /\ q \in Nat /\ q <= L /\ p <= K /\ p \in Nat /\ (k = l => K = L)
  BY <1>1, <1>2
<1>3. M = IF k # l THEN K ELSE IF p > q THEN L - q ELSE q
  BY <1>1, <1>9
<1>4. a \in Nat /\ b \in Nat
  BY <1>1, StartNext
<1>5. c = IF k < l \/ (k = l /\ p <= q) THEN b ELSE IF k = l THEN a + q + 1 ELSE b + 1
  <2>1. CASE k < l \/ (k = l /\ p <= q)
    <3>0. ~(k > l) /\ ~(k = l /\ p > q)
      BY ONLY <1>9, <2>1
    <3>1. j = k /\ k \in 1 .. l
      BY <1>1, <1>9, <3>0
    <3> QED
      BY <2>1, <3>1, BreakStarts
  <2>2. CASE k = l /\ p > q
    <3>1. j = l + 1
      BY <1>9, <2>2
    <3> QED
      BY <1>9, <2>2, <3>1, BreakStarts
  <2>3. CASE k > l
    <3>1. j = k + 1 /\ k \in l + 1 .. Len(ts) + 1
      BY <1>1, <1>9, <2>3
    <3> QED
      BY <1>9, <2>3, <3>1, BreakStarts
  <2> QED
    BY <1>9, <2>1, <2>2, <2>3
<1>6. (k < l => b + K < a) /\ (l < k => a + L < b)
  BY <1>1, OffsetsGrow
<1>7. k = l => a = b
  OBVIOUS
<1>8. /\ Off(us, j, x) = IF x > M THEN -1 ELSE c + x
      /\ Off(ts, k, p) = b + p
  BY <1>1, <1>2 DEF Off
<1> HIDE DEF a, b, c, L, M, K
<1>11. ~(x > M)
  BY ONLY <1>2, <1>3, <1>9, x = (IF k = l /\ p > q THEN p - q ELSE p)
<1>12. c + x = IF b + p > a + q THEN (b + p) + 1 ELSE b + p
  <2>1. CASE k = l
    BY ONLY <2>1, <1>2, <1>4, <1>5, <1>7, <1>9, x = (IF k = l /\ p > q THEN p - q ELSE p)
  <2>2. CASE k < l
    BY ONLY <2>2, <1>2, <1>4, <1>5, <1>6, <1>9, x = (IF k = l /\ p > q THEN p - q ELSE p)
  <2>3. CASE l < k
    BY ONLY <2>3, <1>2, <1>4, <1>5, <1>6, <1>9, x = (IF k = l /\ p > q THEN p - q ELSE p)
  <2> QED
    BY <1>9, <2>1, <2>2, <2>3
<1> QED
  BY <1>8, <1>11, <1>12 DEF a

(* A mark after a line end that is deleted is one nearer.                  *)
LEMMA MarkTied ==
  ASSUME NEW ts, NEW us, NEW l, NEW q, BreakAt(us, l, q, ts),
         NEW k, NEW p, IsPlace(ts, k, p), p <= Len(ts[k]),
         NEW j, j = (IF k > l THEN k - 1 ELSE k),
         NEW x, x = (IF k = l + 1 THEN p + q ELSE p)
  PROVE  Off(us, j, x) = LET o == Start(ts, l) + q
                             z == Off(ts, k, p)
                         IN  IF z <= o THEN z ELSE z - 1
<1> DEFINE a == Start(ts, l)
           b == Start(ts, k)
           c == Start(us, j)
           M == Len(us[j])
           K == Len(ts[k])
           L == Len(us[l])
           N == Len(us)
<1>1. /\ AreTexts(ts) /\ AreTexts(us) /\ l \in 1 .. N /\ k \in 1 .. N + 1 /\ Len(ts) = N + 1
      /\ q \in 0 .. L /\ p \in Nat
      /\ \A i \in 1 .. N : i < l => ts[i] = us[i]
      /\ \A i \in 1 .. N : i > l => ts[i + 1] = us[i]
      /\ Len(ts[l]) = q /\ Len(ts[l + 1]) = L - q
  BY DEF BreakAt, IsPlace
<1>2. N \in Nat /\ L \in Nat /\ K \in Nat
  BY <1>1, TextIs
<1>9. k \in Nat /\ l \in Nat /\ q \in Nat /\ q <= L /\ p <= K /\ p \in Nat /\ N \in Nat
  BY <1>1, <1>2
<1>a. l \in 1 .. N + 1 /\ l + 1 \in 1 .. N + 1
  BY <1>1, <1>2
<1>3. /\ k < l => M = K
      /\ k = l => M = L /\ K = q
      /\ k = l + 1 => M = L /\ K = L - q
      /\ k > l + 1 => M = K
  <2>1. CASE k < l
    BY <1>1, <1>9, <2>1
  <2>2. CASE k = l
    BY <1>1, <1>9, <2>2
  <2>3. CASE k = l + 1
    BY <1>1, <1>9, <2>3
  <2>4. CASE k > l + 1
    <3>1. j = k - 1 /\ k - 1 \in 1 .. N /\ k - 1 > l /\ (k - 1) + 1 = k
      BY <1>1, <1>9, <2>4
    <3>2. ts[(k - 1) + 1] = us[k - 1]
      BY <1>1, <3>1
    <3> QED
      BY <1>9, <2>4, <3>1, <3>2
  <2> QED
    BY <1>9, <2>1, <2>2, <2>3, <2>4
<1>4. a \in Nat /\ b \in Nat
  BY <1>1, <1>a, StartNext
<1>5. /\ k <= l => c = b
      /\ k = l + 1 => c = a
      /\ k > l + 1 => c = b - 1
      /\ k = l + 1 => b = a + q + 1
  <2>0. Start(us, l) = a
    BY <1>1, <1>9, BreakStarts
  <2>1. CASE k <= l
    <3>1. j = k /\ k \in 1 .. l
      BY <1>1, <1>9, <2>1
    <3> QED
      BY <1>9, <2>1, <3>1, BreakStarts
  <2>2. CASE k = l + 1
    <3>1. j = l
      BY <1>9, <2>2
    <3>2. Start(ts, l + 1) = Start(us, l) + q + 1
      BY BreakStarts
    <3> QED
      BY <1>9, <2>0, <2>2, <3>1, <3>2
  <2>3. CASE k > l + 1
    <3>1. j = k - 1 /\ k - 1 \in l + 1 .. N + 1 /\ (k - 1) + 1 = k /\ k - 1 \in 1 .. N + 1
      BY <1>1, <1>9, <2>3
    <3>2. Start(ts, (k - 1) + 1) = Start(us, k - 1) + 1
      BY <3>1, BreakStarts
    <3>3. Start(us, k - 1) \in Nat
      BY <1>1, <3>1, PlacesFinite
    <3> QED
      BY <1>9, <2>3, <3>1, <3>2, <3>3
  <2> QED
    BY <1>9, <2>1, <2>2, <2>3
<1>6. (k < l => b + K < a) /\ (l < k => a + q < b)
  BY <1>1, <1>a, OffsetsGrow
<1>7. k = l => a = b
  OBVIOUS
<1>8. /\ Off(us, j, x) = IF x > M THEN -1 ELSE c + x
      /\ Off(ts, k, p) = b + p
  BY <1>1, <1>2 DEF Off
<1> HIDE DEF a, b, c, L, M, K, N
<1>10. x = (IF k = l + 1 THEN p + q ELSE p)
  OBVIOUS
<1>11. ~(x > M)
  BY ONLY <1>2, <1>3, <1>9, <1>10
<1>12. c + x = IF b + p <= a + q THEN b + p ELSE (b + p) - 1
  <2>1. CASE k = l
    BY ONLY <2>1, <1>2, <1>3, <1>4, <1>5, <1>7, <1>9, <1>10
  <2>2. CASE k < l
    BY ONLY <2>2, <1>2, <1>4, <1>5, <1>6, <1>9, <1>10
  <2>3. CASE k = l + 1
    BY ONLY <2>3, <1>2, <1>4, <1>5, <1>6, <1>9, <1>10
  <2>4. CASE l + 1 < k
    BY ONLY <2>4, <1>2, <1>4, <1>5, <1>6, <1>9, <1>10
  <2> QED
    BY <1>9, <2>1, <2>2, <2>3, <2>4
<1> QED
  BY <1>8, <1>11, <1>12 DEF a

-----------------------------------------------------------------------------
(* What the lines, the memory and the marks are in the flattened document. *)
FlatIs ==
  /\ AreTexts(Texts) /\ Texts = TextsOf(lines, mem)
  /\ Len(Texts) = Len(lines) /\ Len(lines) \in Nat \ {0}
  /\ \A k \in 1 .. Len(lines) :
       Texts[k] = Text(lines[k]) /\ Len(Texts[k]) = lines[k].line_len /\ lines[k].line_len \in Nat
  /\ DOMAIN FlatMarks = DOMAIN marks
  /\ \A k \in DOMAIN marks : /\ FlatMarks[k] = Off(Texts, marks[k].line, marks[k].pos)
                             /\ IsPlace(Texts, marks[k].line, marks[k].pos)
  /\ line \in 1 .. Len(lines) /\ pos \in Nat /\ len \in Nat /\ pos + len <= lines[line].line_len
  /\ Start(Texts, line) \in Nat
  /\ Pending = [kind |-> op, off |-> IF op = "none" THEN 0 ELSE Start(Texts, line) + (pos + len),
                bytes |-> rest, left |-> left]

(* It is so in every state.                                                *)
LEMMA FlatNow == Inv /\ MemInv => FlatIs
<1> SUFFICES ASSUME Inv, MemInv PROVE FlatIs
  OBVIOUS
<1>1. AreLines(lines) /\ OwnedBy(lines, mem)
  BY DEF Inv, LinesInv, MemInv
<1>2. Texts = TextsOf(lines, mem)
  BY DEF Texts, TextsOf, Text
<1>3. /\ AreTexts(Texts) /\ Len(Texts) = Len(lines) /\ Len(lines) \in Nat \ {0}
      /\ \A k \in 1 .. Len(lines) : Texts[k] = Read(mem, lines[k].line, lines[k].line_len)
                                    /\ Len(Texts[k]) = lines[k].line_len /\ lines[k].line_len \in Nat
  BY ONLY <1>1, <1>2, TextsAre
<1>4. \A k \in 1 .. Len(lines) : Texts[k] = Text(lines[k])
  BY <1>3 DEF Text
<1>5. line \in 1 .. Len(lines) /\ pos \in Nat /\ len \in Nat /\ pos + len <= lines[line].line_len
  BY DEF Inv, PlaceInv
<1>6. Start(Texts, line) \in Nat
  BY <1>3, <1>5, StartNext
<1>7. ASSUME NEW k \in DOMAIN marks
      PROVE  /\ FlatMarks[k] = Off(Texts, marks[k].line, marks[k].pos)
             /\ IsPlace(Texts, marks[k].line, marks[k].pos)
  <2>1. marks[k].line \in 1 .. Len(lines) /\ marks[k].pos \in Nat
    BY DEF Inv, MarksInv, IsMark, Mark
  <2>2. FlatMarks[k] = IF marks[k].pos > lines[marks[k].line].line_len THEN -1
                       ELSE Start(Texts, marks[k].line) + marks[k].pos
    BY DEF FlatMarks, Offset
  <2> QED
    BY <1>3, <2>1, <2>2 DEF Off, IsPlace
<1>8. DOMAIN FlatMarks = DOMAIN marks
  BY DEF FlatMarks
<1>9. Pending = [kind |-> op, off |-> IF op = "none" THEN 0 ELSE Start(Texts, line) + (pos + len),
                 bytes |-> rest, left |-> left]
  BY DEF Pending, Offset
<1> QED
  BY <1>2, <1>3, <1>4, <1>5, <1>6, <1>7, <1>8, <1>9 DEF FlatIs

(* And in the state after a step.                                          *)
LEMMA FlatAfter == Inv' /\ MemInv' => FlatIs'
  BY FlatNow, PTL

(* What is left to do, after some of it.                                   *)
LEMMA PendingIs ==
  ASSUME NEW k, NEW o, NEW b, NEW l, NEW p, p = [kind |-> k, off |-> o, bytes |-> b, left |-> l],
         NEW x, NEW c, NEW q, q = [p EXCEPT !.off = x, !.bytes = c],
         NEW y, NEW r, r = [p EXCEPT !.left = y]
  PROVE  /\ q = [kind |-> k, off |-> x, bytes |-> c, left |-> l]
         /\ r = [kind |-> k, off |-> o, bytes |-> b, left |-> y]
<1> DEFINE D == {"kind", "off", "bytes", "left"}
<1>1. DOMAIN p = D /\ p.kind = k /\ p.off = o /\ p.bytes = b /\ p.left = l
  OBVIOUS
<1>2. q = [f \in D |-> IF f = "off" THEN x ELSE IF f = "bytes" THEN c ELSE p[f]]
  BY <1>1
<1>3. r = [f \in D |-> IF f = "left" THEN y ELSE p[f]]
  BY <1>1
<1>4. q = [kind |-> k, off |-> x, bytes |-> c, left |-> l]
  BY ONLY <1>1, <1>2
<1>5. r = [kind |-> k, off |-> o, bytes |-> b, left |-> y]
  BY ONLY <1>1, <1>3
<1> QED
  BY <1>4, <1>5

(* A mark that is not past the end of its line.                            *)
LEMMA MarkSeen ==
  ASSUME FlatIs, NEW k \in DOMAIN FlatMarks, FlatMarks[k] # -1
  PROVE  /\ k \in DOMAIN marks /\ FlatMarks[k] = Off(Texts, marks[k].line, marks[k].pos)
         /\ IsPlace(Texts, marks[k].line, marks[k].pos)
         /\ marks[k].pos <= Len(Texts[marks[k].line]) /\ FlatMarks[k] \in Int
<1> DEFINE m == marks[k]
           z == FlatMarks[k]
<1>1. k \in DOMAIN marks /\ z = Off(Texts, m.line, m.pos) /\ IsPlace(Texts, m.line, m.pos)
  BY DEF FlatIs
<1> HIDE DEF m, z
<1>2. m.pos \in Nat /\ Len(Texts[m.line]) \in Nat /\ Start(Texts, m.line) \in Nat
  BY <1>1, TextIs, StartNext DEF IsPlace
<1>3. ~(m.pos > Len(Texts[m.line]))
  BY <1>1 DEF Off, z
<1>4. z = Start(Texts, m.line) + m.pos
  BY <1>1, <1>3 DEF Off
<1> QED
  BY <1>1, <1>2, <1>3, <1>4 DEF m, z

(* What makes a step of insert_stream() the insertion of its next n bytes. *)
LEMMA SomeInserted ==
  ASSUME NEW f, NEW g, f = Flattened(Texts), g = Flattened(Texts'),
         NEW n \in Nat, NEW o \in 0 .. Len(f), Len(f) \in Nat,
         g = Splice(f, o, SubSeq(rest, 1, n)),
         Pending = [kind |-> "insert", off |-> o, bytes |-> rest, left |-> left],
         Pending' = [kind |-> "insert", off |-> o + n, bytes |-> SubSeq(rest, n + 1, Len(rest)), left |-> left],
         DOMAIN FlatMarks' = DOMAIN FlatMarks,
         \A k \in DOMAIN FlatMarks :
           FlatMarks[k] # -1 => FlatMarks'[k] = IF FlatMarks[k] > o THEN FlatMarks[k] + n ELSE FlatMarks[k]
  PROVE  Flat!InsertSome(n)
<1>1. g = Flat!Insert(f, o, SubSeq(rest, 1, n))
  <2>1. ~(o > Len(f))
    OBVIOUS
  <2> QED
    BY <2>1 DEF Flat!Insert, Splice
<1>2. Flat!Follow(LAMBDA z : Flat!AfterInsert(o, n, z))
  BY DEF Flat!Follow, Flat!AfterInsert, Flat!Loose
<1>3. Pending.kind = "insert" /\ Pending.off = o /\ Pending.bytes = rest
  OBVIOUS
<1>4. Pending' = [Pending EXCEPT !.off = @ + n, !.bytes = SubSeq(@, n + 1, Len(@))]
  <2> DEFINE a == o + n
             b == SubSeq(rest, n + 1, Len(rest))
             q == [Pending EXCEPT !.off = a, !.bytes = b]
             r == [Pending EXCEPT !.left = 0]
  <2>1. q = [Pending EXCEPT !.off = a, !.bytes = b] /\ r = [Pending EXCEPT !.left = 0]
    OBVIOUS
  <2>2. Pending = [kind |-> "insert", off |-> o, bytes |-> rest, left |-> left]
    OBVIOUS
  <2> HIDE DEF a, b, q, r
  <2>3. q = [kind |-> "insert", off |-> a, bytes |-> b, left |-> left]
    BY ONLY <2>1, <2>2, PendingIs
  <2> QED
    BY <1>3, <2>3 DEF a, b, q
<1>5. Flattened(Texts)' = Flat!Insert(Flattened(Texts), o, SubSeq(rest, 1, n))
  BY <1>1
<1> QED
  BY ONLY <1>2, <1>3, <1>4, <1>5 DEF Flat!InsertSome

(* What makes a step of delete_stream() the deletion of n bytes.           *)
LEMMA SomeDeleted ==
  ASSUME NEW f, NEW g \in Seq(Byte \cup {NL}), f = Flattened(Texts), g = Flattened(Texts'),
         NEW s \in Seq(Byte \cup {NL}), NEW n \in Nat, Len(s) = n, n <= left, left \in Nat,
         NEW o \in 0 .. Len(g), f = Splice(g, o, s),
         Pending = [kind |-> "delete", off |-> o, bytes |-> rest, left |-> left],
         Pending' = [kind |-> "delete", off |-> o, bytes |-> rest, left |-> left - n],
         DOMAIN FlatMarks' = DOMAIN FlatMarks,
         \A k \in DOMAIN FlatMarks :
           FlatMarks[k] # -1 => FlatMarks'[k] = IF FlatMarks[k] <= o THEN FlatMarks[k]
                                                ELSE IF FlatMarks[k] < o + n THEN o
                                                ELSE FlatMarks[k] - n
  PROVE  Flat!DeleteSome(n)
<1>1. Len(g) \in Nat /\ o \in Nat /\ ~(o > Len(g)) /\ o <= Len(g)
  OBVIOUS
<1>2. Len(f) = Len(g) + n
  BY SplicedIs
<1>3. Delete(f, o, n) = g
  <2>1. f = Insert(g, o, s)
    BY <1>1 DEF Insert, Splice
  <2>2. Delete(Insert(g, o, s), o, Len(s)) = g
    BY <1>1, DeleteUndoesInsert
  <2> QED
    BY <2>1, <2>2
<1>4. Flat!Delete(f, o, n) = g
  BY <1>3 DEF Flat!Delete, Delete
<1>5. Flat!Follow(LAMBDA z : Flat!AfterDelete(o, n, z))
  BY DEF Flat!Follow, Flat!AfterDelete, Flat!Loose
<1>6. Pending.kind = "delete" /\ Pending.off = o /\ Pending.left = left
  OBVIOUS
<1>7. Pending' = [Pending EXCEPT !.left = @ - n]
  <2> DEFINE a == left - n
             q == [Pending EXCEPT !.off = 0, !.bytes = 0]
             r == [Pending EXCEPT !.left = a]
  <2>1. q = [Pending EXCEPT !.off = 0, !.bytes = 0] /\ r = [Pending EXCEPT !.left = a]
    OBVIOUS
  <2>2. Pending = [kind |-> "delete", off |-> o, bytes |-> rest, left |-> left]
    OBVIOUS
  <2> HIDE DEF a, q, r
  <2>3. r = [kind |-> "delete", off |-> o, bytes |-> rest, left |-> a]
    BY ONLY <2>1, <2>2, PendingIs
  <2> QED
    BY <1>6, <2>3 DEF a, r
<1>8. Flattened(Texts)' = Flat!Delete(Flattened(Texts), o, n)
  BY <1>4
<1>9. n <= Pending.left /\ o + n <= Len(Flattened(Texts))
  BY <1>1, <1>2, <1>6
<1> QED
  BY ONLY <1>5, <1>6, <1>7, <1>8, <1>9 DEF Flat!DeleteSome

(* insert_stream() puts a piece in a line.                                 *)
LEMMA PieceIsInserted ==
  Inv /\ MemInv /\ TurnInv /\ InsertPiece /\ Inv' /\ MemInv' => Flat!InsertSome(PieceLen)
<1> SUFFICES ASSUME Inv, MemInv, TurnInv, InsertPiece, Inv', MemInv' PROVE Flat!InsertSome(PieceLen)
  OBVIOUS
<1> DEFINE n == PieceLen
           u == SubSeq(rest, 1, n)
           ts == Texts
           us == Texts'
           o == Start(ts, line) + pos
           x == Text(lines[line])
<1>1. /\ op = "insert" /\ op' = op /\ line' = line /\ pos' = pos /\ left' = left /\ len' = n
      /\ rest' = SubSeq(rest, n + 1, Len(rest)) /\ rest # <<>> /\ n > 0
      /\ marks' = [k \in DOMAIN marks |-> AfterPiece(marks[k], n)]
  BY DEF InsertPiece, MoveMarks
<1>2. FlatIs /\ FlatIs'
  BY FlatNow, FlatAfter
<1>3. rest \in Seq(Byte \cup {NL}) /\ u \in Seq(Byte) /\ Len(u) = n /\ n \in Nat
  BY PieceIs, PieceLenNat DEF Inv, OwedInv
<1>4. len = 0
  BY <1>1, <1>2 DEF TurnInv, FlatIs
<1>5. PutIn(ts, line, pos, u, us)
  <2> DEFINE z == SubSeq(x, 1, pos) \o u \o SubSeq(x, pos + 1, Len(x))
  <2>1. PieceDone
    BY InsertPieceMem
  <2>2. /\ Len(lines') = Len(lines) /\ \A j \in 1 .. Len(lines) : j # line => lines'[j] = lines[j]
        /\ lines'[line].line_len = lines[line].line_len + n
        /\ Moves(mem, mem', Owns(lines[line]), Owns(lines'[line]))
        /\ Holds(mem', lines'[line].line, z)
    BY <2>1 DEF PieceDone
  <2>3. z = Splice(Read(mem, lines[line].line, lines[line].line_len), pos, u)
    BY DEF Splice, Text
  <2>4. AreLines(lines) /\ OwnedBy(lines, mem) /\ AreLines(lines') /\ OwnedBy(lines', mem')
    BY DEF Inv, LinesInv, MemInv
  <2>5. line \in 1 .. Len(lines) /\ pos \in 0 .. lines[line].line_len
    BY <1>2 DEF FlatIs
  <2> HIDE DEF u, n, z
  <2>6. PutIn(TextsOf(lines, mem), line, pos, u, TextsOf(lines', mem'))
    BY <1>3, <2>2, <2>3, <2>4, <2>5, PiecePut
  <2>7. ts = TextsOf(lines, mem) /\ us = TextsOf(lines', mem')
    BY <1>2 DEF FlatIs
  <2> QED
    BY <2>6, <2>7
<1> HIDE DEF ts, us, u
<1>6. o \in 0 .. Len(Flattened(ts)) /\ Flattened(us) = Splice(Flattened(ts), o, u)
  BY <1>5, PutFlattened
<1>7. Len(Flattened(ts)) \in Nat
  BY FlattenedIs, <1>5 DEF PutIn
<1>8. Pending = [kind |-> "insert", off |-> o, bytes |-> rest, left |-> left]
  BY <1>1, <1>2, <1>4 DEF FlatIs, ts
<1>9. Pending' = [kind |-> "insert", off |-> o + n, bytes |-> SubSeq(rest, n + 1, Len(rest)), left |-> left]
  <2>1. Start(us, line) = Start(ts, line)
    <3>1. line \in 1 .. line
      BY <1>2 DEF FlatIs
    <3> QED
      BY <1>5, <3>1, PutStarts
  <2>2. Pending' = [kind |-> op', off |-> IF op' = "none" THEN 0 ELSE Start(us, line') + (pos' + len'),
                    bytes |-> rest', left |-> left']
    BY <1>2 DEF FlatIs, us
  <2>3. Start(ts, line) + (pos + n) = o + n /\ pos \in Nat /\ Start(ts, line) \in Nat
    BY <1>2, <1>3 DEF FlatIs, ts
  <2> HIDE DEF n, o
  <2> QED
    BY <1>1, <2>1, <2>2, <2>3
<1>10. DOMAIN FlatMarks' = DOMAIN FlatMarks
  BY <1>1, <1>2 DEF FlatIs
<1>11. ASSUME NEW k \in DOMAIN FlatMarks, FlatMarks[k] # -1
       PROVE  FlatMarks'[k] = IF FlatMarks[k] > o THEN FlatMarks[k] + n ELSE FlatMarks[k]
  <2> DEFINE m == marks[k]
             e == marks'[k]
  <2>1. /\ k \in DOMAIN marks /\ FlatMarks[k] = Off(ts, m.line, m.pos) /\ IsPlace(ts, m.line, m.pos)
        /\ m.pos <= Len(ts[m.line])
    BY <1>2, <1>11, MarkSeen DEF ts
  <2>2. e = AfterPiece(m, n) /\ m = [line |-> m.line, pos |-> m.pos]
    BY <1>1, <2>1 DEF Inv, MarksInv, IsMark, Mark
  <2>3. FlatMarks'[k] = Off(us, e.line, e.pos)
    BY <1>1, <1>2, <2>1 DEF FlatIs, us
  <2>4. e.line = m.line /\ e.pos = IF m.line = line /\ m.pos > pos THEN m.pos + n ELSE m.pos
    BY <2>2 DEF AfterPiece
  <2> HIDE DEF m, e, n, o
  <2>5. Off(us, m.line, e.pos) = LET b == Start(ts, line) + pos
                                     z == Off(ts, m.line, m.pos)
                                 IN  IF z > b THEN z + Len(u) ELSE z
    BY <1>3, <1>5, <2>1, <2>4, MarkPut
  <2> QED
    BY <1>3, <2>1, <2>3, <2>4, <2>5 DEF o
<1> HIDE DEF n, o
<1>12. Flattened(Texts') = Splice(Flattened(Texts), o, SubSeq(rest, 1, n)) /\ o \in 0 .. Len(Flattened(Texts))
  BY <1>6 DEF ts, us, u
<1>13. Len(Flattened(Texts)) \in Nat
  BY <1>7 DEF ts
<1>14. Flat!InsertSome(n)
  BY ONLY <1>3, <1>8, <1>9, <1>10, <1>11, <1>12, <1>13, SomeInserted
<1> QED
  BY <1>14 DEF n

(* insert_stream() breaks a line.                                          *)
LEMMA EndIsInserted ==
  Inv /\ MemInv /\ TurnInv /\ BreakLine /\ Inv' /\ MemInv' => Flat!InsertSome(1)
<1> SUFFICES ASSUME Inv, MemInv, TurnInv, BreakLine, Inv', MemInv' PROVE Flat!InsertSome(1)
  OBVIOUS
<1> DEFINE ts == Texts
           us == Texts'
           cut == pos + len
           o == Start(ts, line) + cut
<1>1. /\ op = "insert" /\ op' = op /\ line' = line + 1 /\ pos' = 0 /\ left' = left /\ len' = 0
      /\ rest' = Tail(rest) /\ rest # <<>> /\ PieceLen = 0
      /\ marks' = [k \in DOMAIN marks |-> AfterBreak(marks[k], cut)]
  BY DEF BreakLine, MoveMarks
<1>2. FlatIs /\ FlatIs'
  BY FlatNow, FlatAfter
<1>3. SubSeq(rest, 1, 1) = <<NL>> /\ rest' = SubSeq(rest, 1 + 1, Len(rest))
  <2>1. rest \in Seq(Byte \cup {NL}) /\ PieceLen = PieceIn(rest)
    BY DEF Inv, OwedInv, PieceLen, PieceIn
  <2>2. Len(rest) \in Nat \ {0}
    BY <1>1, <2>1
  <2>3. rest[0 + 1] = NL
    BY <1>1, <2>1, <2>2, PieceEnds
  <2>4. SubSeq(rest, 1, 1) = <<NL>>
    <3> DEFINE a == SubSeq(rest, 1, 1)
               b == <<NL>>
    <3>1. a = [j \in 1 .. 1 |-> rest[j]]
      BY <2>1, <2>2
    <3>2. Len(b) = 1 /\ b[1] = NL /\ b \in Seq({NL})
      OBVIOUS
    <3>3. Len(a) = 1 /\ a[1] = NL /\ a \in Seq({NL})
      BY <2>3, <3>1
    <3> HIDE DEF a, b
    <3>4. \A j \in 1 .. 1 : a[j] = b[j]
      BY ONLY <3>2, <3>3
    <3>5. a = b
      BY ONLY <3>2, <3>3, <3>4, SameSeq
    <3> QED
      BY <3>5 DEF a, b
  <2>5. Tail(rest) = SubSeq(rest, 2, Len(rest))
    BY <2>1, <2>2, TailIsSubSeq
  <2> QED
    BY <1>1, <2>4, <2>5
<1>4. cut \in Nat /\ cut <= lines[line].line_len /\ line \in 1 .. Len(lines) /\ pos \in Nat /\ len \in Nat
      /\ Start(ts, line) \in Nat /\ lines[line].line_len \in Nat
  BY <1>2 DEF FlatIs
<1>5. BreakAt(ts, line, cut, us)
  <2>1. BreakDone
    BY BreakLineMem
  <2>2. /\ mem' = mem /\ Len(lines') = Len(lines) + 1
        /\ \A j \in 1 .. Len(lines) + 1 : j < line => lines'[j] = lines[j]
        /\ \A j \in 1 .. Len(lines) + 1 : j > line + 1 => lines'[j] = lines[j - 1]
        /\ lines'[line].line_len = cut
        /\ cut > 0 => lines'[line].line = lines[line].line
        /\ lines'[line + 1].line_len = lines[line].line_len - cut
        /\ cut < lines[line].line_len => lines'[line + 1].line = Plus(lines[line].line, cut)
    BY <2>1 DEF BreakDone
  <2>4. AreLines(lines) /\ OwnedBy(lines, mem) /\ AreLines(lines') /\ OwnedBy(lines', mem)
    BY <2>2 DEF Inv, LinesInv, MemInv
  <2> HIDE DEF cut
  <2>5. cut \in 0 .. lines[line].line_len
    BY <1>4
  <2>6. BreakAt(TextsOf(lines, mem), line, cut, TextsOf(lines', mem))
    BY ONLY <1>4, <2>2, <2>4, <2>5, LineCut
  <2>7. ts = TextsOf(lines, mem) /\ us = TextsOf(lines', mem)
    BY <1>2, <2>2 DEF FlatIs
  <2> QED
    BY <2>6, <2>7
<1> HIDE DEF ts, us
<1>6. o \in 0 .. Len(Flattened(ts)) /\ Flattened(us) = Splice(Flattened(ts), o, <<NL>>)
  BY <1>5, BreakFlattened
<1>7. Len(Flattened(ts)) \in Nat
  BY FlattenedIs, <1>5 DEF BreakAt
<1>8. Pending = [kind |-> "insert", off |-> o, bytes |-> rest, left |-> left]
  BY <1>1, <1>2 DEF FlatIs, ts
<1>9. Pending' = [kind |-> "insert", off |-> o + 1, bytes |-> SubSeq(rest, 1 + 1, Len(rest)), left |-> left]
  <2>1. Start(us, line + 1) = Start(ts, line) + cut + 1
    BY <1>5, BreakStarts
  <2>2. Pending' = [kind |-> op', off |-> IF op' = "none" THEN 0 ELSE Start(us, line') + (pos' + len'),
                    bytes |-> rest', left |-> left']
    BY <1>2 DEF FlatIs, us
  <2>3. Start(us, line + 1) + (0 + 0) = o + 1
    BY <1>4, <2>1
  <2> HIDE DEF o
  <2> QED
    BY <1>1, <1>3, <2>2, <2>3
<1>10. DOMAIN FlatMarks' = DOMAIN FlatMarks
  BY <1>1, <1>2 DEF FlatIs
<1>11. ASSUME NEW k \in DOMAIN FlatMarks, FlatMarks[k] # -1
       PROVE  FlatMarks'[k] = IF FlatMarks[k] > o THEN FlatMarks[k] + 1 ELSE FlatMarks[k]
  <2> DEFINE m == marks[k]
             e == marks'[k]
  <2>1. /\ k \in DOMAIN marks /\ FlatMarks[k] = Off(ts, m.line, m.pos) /\ IsPlace(ts, m.line, m.pos)
        /\ m.pos <= Len(ts[m.line])
    BY <1>2, <1>11, MarkSeen DEF ts
  <2>2. e = AfterBreak(m, cut) /\ m = [line |-> m.line, pos |-> m.pos]
    BY <1>1, <2>1 DEF Inv, MarksInv, IsMark, Mark
  <2>3. FlatMarks'[k] = Off(us, e.line, e.pos)
    BY <1>1, <1>2, <2>1 DEF FlatIs, us
  <2>4. m.line = line /\ m.pos > pos => m.pos > cut
    BY <2>1 DEF TurnInv
  <2>5. m.line \in Nat /\ line \in Nat /\ m.pos \in Nat /\ cut \in Nat /\ (m.pos > cut => m.pos > pos)
    BY <1>4, <2>1 DEF IsPlace
  <2> HIDE DEF m, e, o, cut
  <2>6. /\ e.line = IF m.line > line \/ (m.line = line /\ m.pos > cut) THEN m.line + 1 ELSE m.line
        /\ e.pos = IF m.line = line /\ m.pos > cut THEN m.pos - cut ELSE m.pos
    <3>1. CASE m.line = line /\ m.pos > cut
      BY <2>2, <2>5, <3>1 DEF AfterBreak
    <3>2. CASE m.line > line
      BY <2>2, <2>5, <3>2 DEF AfterBreak
    <3>3. CASE ~(m.line > line) /\ ~(m.line = line /\ m.pos > cut)
      BY <2>2, <2>4, <3>3 DEF AfterBreak
    <3> QED
      BY <3>1, <3>2, <3>3
  <2>7. Off(us, e.line, e.pos) = LET b == Start(ts, line) + cut
                                     z == Off(ts, m.line, m.pos)
                                 IN  IF z > b THEN z + 1 ELSE z
    BY ONLY <1>5, <2>1, <2>6, MarkBroken
  <2> QED
    BY <2>1, <2>3, <2>7 DEF o
<1> HIDE DEF o
<1>12. Flattened(Texts') = Splice(Flattened(Texts), o, SubSeq(rest, 1, 1)) /\ o \in 0 .. Len(Flattened(Texts))
  BY <1>3, <1>6 DEF ts, us
<1>13. Len(Flattened(Texts)) \in Nat /\ 1 \in Nat
  BY <1>7 DEF ts
<1> QED
  BY ONLY <1>8, <1>9, <1>10, <1>11, <1>12, <1>13, SomeInserted

(* delete_stream() joins the next line.                                    *)
LEMMA EndIsDeleted ==
  Inv /\ MemInv /\ TurnInv /\ JoinLines /\ Inv' /\ MemInv' => Flat!DeleteSome(1)
<1> SUFFICES ASSUME Inv, MemInv, TurnInv, JoinLines, Inv', MemInv' PROVE Flat!DeleteSome(1)
  OBVIOUS
<1> DEFINE ts == Texts
           us == Texts'
           q == lines[line].line_len
           o == Start(ts, line) + q
<1>1. /\ op = "delete" /\ op' = op /\ line' = line /\ pos' = pos /\ left' = left - 1 /\ len' = len
      /\ rest' = rest /\ left > 0 /\ pos = q
      /\ marks' = [k \in DOMAIN marks |-> AfterJoin(marks[k], q)]
  BY DEF JoinLines, MoveMarks, AtEnd
<1>2. FlatIs /\ FlatIs'
  BY FlatNow, FlatAfter
<1>3. left \in Nat /\ len = 0
  BY <1>1 DEF Inv, OwedInv, PlaceInv
<1>4. q \in Nat /\ line \in 1 .. Len(lines) /\ Start(ts, line) \in Nat
  BY <1>2 DEF FlatIs
<1>5. BreakAt(us, line, q, ts)
  <2> DEFINE z == Read(mem, lines[line].line, lines[line].line_len)
                    \o Read(mem, lines[line + 1].line, lines[line + 1].line_len)
  <2>1. JoinDone
    BY JoinLinesMem
  <2>2. /\ line + 1 \in 1 .. Len(lines) /\ Len(lines') = Len(lines) - 1
        /\ \A k \in 1 .. Len(lines) - 1 : k < line => lines'[k] = lines[k]
        /\ \A k \in 1 .. Len(lines) - 1 : k > line => lines'[k] = lines[k + 1]
        /\ lines'[line].line_len = lines[line].line_len + lines[line + 1].line_len
        /\ Moves(mem, mem', Owns(lines[line]) \cup Owns(lines[line + 1]), Owns(lines'[line]))
        /\ Holds(mem', lines'[line].line, z)
    BY <2>1 DEF JoinDone, Text
  <2>3. AreLines(lines) /\ OwnedBy(lines, mem) /\ AreLines(lines') /\ OwnedBy(lines', mem')
    BY DEF Inv, LinesInv, MemInv
  <2>4. BreakAt(TextsOf(lines', mem'), line, lines[line].line_len, TextsOf(lines, mem))
    BY ONLY <1>4, <2>2, <2>3, LinesTied
  <2>5. ts = TextsOf(lines, mem) /\ us = TextsOf(lines', mem')
    BY <1>2 DEF FlatIs
  <2> QED
    BY <2>4, <2>5
<1> HIDE DEF ts, us, q
<1>6. Start(us, line) = Start(ts, line)
  <2>1. line \in 1 .. line
    BY <1>4
  <2> QED
    BY <1>5, <2>1, BreakStarts
<1>7. o \in 0 .. Len(Flattened(us)) /\ Flattened(ts) = Splice(Flattened(us), o, <<NL>>)
  BY <1>5, <1>6, BreakFlattened
<1>8. Flattened(us) \in Seq(Byte \cup {NL}) /\ <<NL>> \in Seq(Byte \cup {NL}) /\ Len(<<NL>>) = 1
  BY FlattenedIs, <1>5 DEF BreakAt
<1>9. Pending = [kind |-> "delete", off |-> o, bytes |-> rest, left |-> left]
  BY <1>1, <1>2, <1>3, <1>4 DEF FlatIs, ts
<1>10. Pending' = [kind |-> "delete", off |-> o, bytes |-> rest, left |-> left - 1]
  <2>1. Pending' = [kind |-> op', off |-> IF op' = "none" THEN 0 ELSE Start(us, line') + (pos' + len'),
                    bytes |-> rest', left |-> left']
    BY <1>2 DEF FlatIs, us
  <2>2. Start(us, line) + (q + 0) = o
    BY <1>4, <1>6
  <2> HIDE DEF o
  <2> QED
    BY <1>1, <1>3, <2>1, <2>2
<1>11. DOMAIN FlatMarks' = DOMAIN FlatMarks
  BY <1>1, <1>2 DEF FlatIs
<1>12. ASSUME NEW k \in DOMAIN FlatMarks, FlatMarks[k] # -1
       PROVE  FlatMarks'[k] = IF FlatMarks[k] <= o THEN FlatMarks[k]
                              ELSE IF FlatMarks[k] < o + 1 THEN o
                              ELSE FlatMarks[k] - 1
  <2> DEFINE m == marks[k]
             e == marks'[k]
             y == FlatMarks[k]
  <2>1. /\ k \in DOMAIN marks /\ y = Off(ts, m.line, m.pos) /\ IsPlace(ts, m.line, m.pos)
        /\ m.pos <= Len(ts[m.line]) /\ y \in Int
    BY <1>2, <1>12, MarkSeen DEF ts
  <2>2. e = AfterJoin(m, q) /\ m = [line |-> m.line, pos |-> m.pos]
    BY <1>1, <2>1 DEF Inv, MarksInv, IsMark, Mark
  <2>3. FlatMarks'[k] = Off(us, e.line, e.pos)
    BY <1>1, <1>2, <2>1 DEF FlatIs, us
  <2>4. m.line \in Nat /\ line \in Nat /\ m.pos \in Nat
    BY <1>4, <2>1 DEF IsPlace
  <2>5. o \in Int
    BY <1>4
  <2> HIDE DEF m, e, o, y
  <2>6. /\ e.line = IF m.line > line THEN m.line - 1 ELSE m.line
        /\ e.pos = IF m.line = line + 1 THEN m.pos + q ELSE m.pos
    <3>1. CASE m.line = line + 1
      BY <2>2, <2>4, <3>1 DEF AfterJoin
    <3>2. CASE m.line # line + 1
      BY <2>2, <2>4, <3>2 DEF AfterJoin
    <3> QED
      BY <3>1, <3>2
  <2>7. Off(us, e.line, e.pos) = LET b == Start(ts, line) + q
                                     z == Off(ts, m.line, m.pos)
                                 IN  IF z <= b THEN z ELSE z - 1
    BY ONLY <1>5, <2>1, <2>6, MarkTied
  <2>8. FlatMarks'[k] = IF y <= o THEN y ELSE y - 1
    BY <2>1, <2>3, <2>7 DEF o
  <2>9. ~(y <= o) => ~(y < o + 1)
    BY <2>1, <2>5
  <2> QED
    BY <2>8, <2>9 DEF y
<1> HIDE DEF o
<1>13. /\ Flattened(Texts) = Splice(Flattened(Texts'), o, <<NL>>) /\ o \in 0 .. Len(Flattened(Texts'))
       /\ Flattened(Texts') \in Seq(Byte \cup {NL})
  BY <1>7, <1>8 DEF ts, us
<1>14. 1 \in Nat /\ 1 <= left
  BY <1>1, <1>3
<1> QED
  BY ONLY <1>3, <1>8, <1>9, <1>10, <1>11, <1>12, <1>13, <1>14, SomeDeleted

(* delete_stream() deletes bytes of a line.                                *)
LEMMA BytesAreDeleted ==
  Inv /\ MemInv /\ TurnInv /\ DeleteInLine /\ Inv' /\ MemInv'
    => \E n \in 1 .. left : Flat!DeleteSome(n)
<1> SUFFICES ASSUME Inv, MemInv, TurnInv, DeleteInLine, Inv', MemInv'
             PROVE  \E n \in 1 .. left : Flat!DeleteSome(n)
  OBVIOUS
<1> DEFINE n == Min({left, lines[line].line_len - pos})
           x == Text(lines[line])
           u == SubSeq(x, pos + 1, pos + n)
           ts == Texts
           us == Texts'
           o == Start(ts, line) + pos
<1>1. /\ op = "delete" /\ op' = op /\ line' = line /\ pos' = pos /\ left' = left - n /\ len' = len
      /\ rest' = rest
      /\ marks' = [k \in DOMAIN marks |-> AfterDeletion(marks[k], n)]
  BY DEF DeleteInLine, MoveMarks
<1>2. FlatIs /\ FlatIs'
  BY FlatNow, FlatAfter
<1>3. left \in Nat /\ len = 0
  BY <1>1 DEF Inv, OwedInv, PlaceInv
<1>4. pos \in Nat /\ line \in 1 .. Len(lines) /\ Start(ts, line) \in Nat /\ lines[line].line_len \in Nat
      /\ pos <= lines[line].line_len
  <2>1. pos + len <= lines[line].line_len /\ line \in 1 .. Len(lines) /\ pos \in Nat
        /\ Start(ts, line) \in Nat /\ lines[line].line_len \in Nat
    BY <1>2 DEF FlatIs
  <2> QED
    BY <1>3, <2>1
<1>5. DeletionDone
  BY DeleteInLineMem
<1>6. /\ Len(lines') = Len(lines) /\ \A j \in 1 .. Len(lines) : j # line => lines'[j] = lines[j]
      /\ n \in Nat \ {0} /\ pos + n <= lines[line].line_len /\ lines'[line].line_len = lines[line].line_len - n
      /\ Moves(mem, mem', Owns(lines[line]), Owns(lines'[line]))
      /\ Without(mem', lines'[line], x, pos, n)
  BY <1>5 DEF DeletionDone
<1>7. n <= left
  <2> DEFINE T == {left, lines[line].line_len - pos}
  <2>1. T \subseteq Nat /\ T # {} /\ left \in T
    BY <1>3, <1>4
  <2> HIDE DEF T
  <2>2. Min(T) <= left
    BY <2>1, MinIs
  <2> QED
    BY <2>2 DEF T
<1> HIDE DEF n
<1>8. PutIn(us, line, pos, u, ts) /\ Len(u) = n
  <2>1. AreLines(lines) /\ OwnedBy(lines, mem) /\ AreLines(lines') /\ OwnedBy(lines', mem')
    BY DEF Inv, LinesInv, MemInv
  <2>2. x = Read(mem, lines[line].line, lines[line].line_len)
    BY DEF Text
  <2> HIDE DEF x
  <2>3. n \in Nat
    BY <1>6
  <2>4. PutIn(TextsOf(lines', mem'), line, pos, u, TextsOf(lines, mem)) /\ Len(u) = n
    <3>1. /\ Len(lines') = Len(lines) /\ line \in 1 .. Len(lines)
          /\ pos \in Nat /\ pos + n <= lines[line].line_len
          /\ lines'[line].line_len = lines[line].line_len - n
      BY ONLY <1>4, <1>6
    <3>2. \A j \in 1 .. Len(lines) : j # line => lines'[j] = lines[j]
      BY ONLY <1>6
    <3>3. Moves(mem, mem', Owns(lines[line]), Owns(lines'[line]))
      BY ONLY <1>6
    <3>4. Without(mem', lines'[line], x, pos, n)
      BY ONLY <1>6
    <3> HIDE DEF n
    <3> QED
      BY ONLY SMTT(20), <2>1, <2>2, <2>3, <3>1, <3>2, <3>3, <3>4, PieceTaken DEF u
  <2>5. ts = TextsOf(lines, mem) /\ us = TextsOf(lines', mem')
    BY <1>2 DEF FlatIs
  <2> QED
    BY <2>4, <2>5
<1> HIDE DEF ts, us, u, x
<1>9. Start(us, line) = Start(ts, line)
  <2>1. line \in 1 .. line
    BY <1>4
  <2> QED
    BY <1>8, <2>1, PutStarts
<1>10. o \in 0 .. Len(Flattened(us)) /\ Flattened(ts) = Splice(Flattened(us), o, u)
  BY <1>8, <1>9, PutFlattened
<1>11. Flattened(us) \in Seq(Byte \cup {NL}) /\ u \in Seq(Byte \cup {NL})
  <2>1. AreTexts(us) /\ u \in Seq(Byte)
    BY <1>8 DEF PutIn
  <2> QED
    BY <2>1, FlattenedIs
<1>12. Pending = [kind |-> "delete", off |-> o, bytes |-> rest, left |-> left]
  BY <1>1, <1>2, <1>3, <1>4 DEF FlatIs, ts
<1>13. Pending' = [kind |-> "delete", off |-> o, bytes |-> rest, left |-> left - n]
  <2>1. Pending' = [kind |-> op', off |-> IF op' = "none" THEN 0 ELSE Start(us, line') + (pos' + len'),
                    bytes |-> rest', left |-> left']
    BY <1>2 DEF FlatIs, us
  <2>2. Start(us, line) + (pos + 0) = o
    BY <1>4, <1>9
  <2> HIDE DEF o
  <2> QED
    BY <1>1, <1>3, <2>1, <2>2
<1>14. DOMAIN FlatMarks' = DOMAIN FlatMarks
  BY <1>1, <1>2 DEF FlatIs
<1>15. ASSUME NEW k \in DOMAIN FlatMarks, FlatMarks[k] # -1
       PROVE  FlatMarks'[k] = IF FlatMarks[k] <= o THEN FlatMarks[k]
                              ELSE IF FlatMarks[k] < o + n THEN o
                              ELSE FlatMarks[k] - n
  <2> DEFINE m == marks[k]
             e == marks'[k]
  <2>1. /\ k \in DOMAIN marks /\ FlatMarks[k] = Off(ts, m.line, m.pos) /\ IsPlace(ts, m.line, m.pos)
        /\ m.pos <= Len(ts[m.line])
    BY <1>2, <1>15, MarkSeen DEF ts
  <2>2. e = AfterDeletion(m, n) /\ m = [line |-> m.line, pos |-> m.pos]
    BY <1>1, <2>1 DEF Inv, MarksInv, IsMark, Mark
  <2>3. FlatMarks'[k] = Off(us, e.line, e.pos)
    BY <1>1, <1>2, <2>1 DEF FlatIs, us
  <2> HIDE DEF m, e, o
  <2>4. /\ e.line = m.line
        /\ e.pos = IF m.line # line \/ m.pos < pos THEN m.pos ELSE IF m.pos < pos + n THEN pos ELSE m.pos - n
    BY <2>2 DEF AfterDeletion
  <2>5. e.pos = IF m.line # line \/ m.pos < pos THEN m.pos
                ELSE IF m.pos < pos + Len(u) THEN pos ELSE m.pos - Len(u)
    BY <1>8, <2>4
  <2>6. Off(us, m.line, e.pos) = LET b == Start(ts, line) + pos
                                     z == Off(ts, m.line, m.pos)
                                 IN  IF z <= b THEN z ELSE IF z < b + Len(u) THEN b ELSE z - Len(u)
    BY ONLY <1>8, <2>1, <2>5, MarkTaken
  <2> QED
    BY <1>8, <2>1, <2>3, <2>4, <2>6 DEF o
<1> HIDE DEF o
<1>16. Flattened(Texts) = Splice(Flattened(Texts'), o, u) /\ o \in 0 .. Len(Flattened(Texts'))
       /\ Flattened(Texts') \in Seq(Byte \cup {NL})
  BY <1>10, <1>11 DEF ts, us
<1>17. n \in Nat
  BY <1>6
<1>18. Flat!DeleteSome(n)
  BY ONLY <1>3, <1>7, <1>8, <1>11, <1>12, <1>13, <1>14, <1>15, <1>16, <1>17, SomeDeleted
<1> QED
  BY <1>3, <1>6, <1>7, <1>18

(* Where a position is in the flattened text.                              *)
LEMMA OffIn ==
  ASSUME FlatIs, NEW l \in 1 .. Len(lines), NEW p \in 0 .. lines[l].line_len
  PROVE  /\ Start(Texts, l) + p \in 0 .. Len(Flattened(Texts))
         /\ Len(Flattened(Texts)) \in Nat
         /\ l < Len(lines) \/ p < lines[l].line_len => Start(Texts, l) + p < Len(Flattened(Texts))
         /\ l = Len(lines) /\ p = lines[l].line_len => Start(Texts, l) + p = Len(Flattened(Texts))
<1> DEFINE ts == Texts
           N == Len(lines)
           n == lines[l].line_len
           a == Start(ts, l)
           b == Start(ts, l + 1)
           c == Start(ts, N + 1)
           z == Len(Flattened(ts))
<1>1. AreTexts(ts) /\ Len(ts) = N /\ N \in Nat \ {0} /\ Len(ts[l]) = n /\ n \in Nat
  BY DEF FlatIs
<1>2. a \in Nat /\ b = a + n + 1 /\ b \in Nat
  BY <1>1, StartNext
<1>3. z = c - 1 /\ c \in Nat \ {0}
  BY <1>1, FlattenedIs
<1>4. b <= c /\ (l < N => b < c) /\ (l = N => b = c)
  <2>1. l + 1 \in 1 .. N + 1 /\ N + 1 \in 1 .. N + 1 /\ l + 1 <= N + 1
    BY <1>1
  <2>2. b <= c
    BY <1>1, <2>1, StartGrows
  <2>3. CASE l < N
    <3>1. l + 1 \in 1 .. N
      BY <1>1, <2>3
    <3>2. Start(ts, (l + 1) + 1) = b + Len(ts[l + 1]) + 1 /\ Start(ts, (l + 1) + 1) \in Nat
      BY <1>1, <3>1, StartNext
    <3>3. Len(ts[l + 1]) \in Nat
      BY <1>1, <3>1, TextIs
    <3>4. Start(ts, (l + 1) + 1) <= c
      <4>1. (l + 1) + 1 \in 1 .. N + 1 /\ (l + 1) + 1 <= N + 1
        BY <1>1, <3>1
      <4> QED
        BY <1>1, <2>1, <4>1, StartGrows
    <3>5. b < c
      BY ONLY <1>2, <1>3, <3>2, <3>3, <3>4
    <3> QED
      BY <2>2, <2>3, <3>5
  <2>4. CASE ~(l < N)
    <3>1. l = N
      BY <1>1, <2>4
    <3> QED
      BY <2>2, <2>4, <3>1
  <2> QED
    BY <2>3, <2>4
<1> HIDE DEF ts, N, n, a, b, c, z
<1>5. p \in Nat /\ p <= n
  BY <1>1 DEF n
<1>6. a + p \in 0 .. z /\ z \in Nat
  BY ONLY <1>1, <1>2, <1>3, <1>4, <1>5
<1>7. l < N \/ p < n => a + p < z
  BY ONLY <1>1, <1>2, <1>3, <1>4, <1>5
<1>8. l = N /\ p = n => a + p = z
  BY ONLY <1>1, <1>2, <1>3, <1>4, <1>5
<1> QED
  BY <1>6, <1>7, <1>8 DEF ts, N, n, a, z

(* Where the text does not change.                                         *)
LEMMA TextStays ==
  ASSUME lines' = lines, mem' = mem
  PROVE  /\ Texts' = Texts /\ Flattened(Texts)' = Flattened(Texts)
         /\ marks' = marks => FlatMarks' = FlatMarks
<1>1. Texts' = Texts
  BY DEF Texts, Text
<1>2. \A l, p : Offset(l, p)' = Offset(l, p)
  BY <1>1 DEF Offset
<1>3. marks' = marks => FlatMarks' = FlatMarks
  BY <1>1 DEF FlatMarks, Offset
<1> QED
  BY <1>1, <1>3

(* Nothing is left to do when neither function runs.                       *)
LEMMA NothingLeft == FlatIs /\ TurnInv /\ op = "none" => Pending = Flat!Idle
  BY DEF FlatIs, TurnInv, Flat!Idle

(* And so it is after they have returned.                                  *)
LEMMA NothingLeftAfter == FlatIs' /\ TurnInv' /\ op' = "none" => Pending' = Flat!Idle
  BY DEF FlatIs, TurnInv, Flat!Idle

(* insert_stream() or delete_stream() is called.                           *)
LEMMA CallIsAsked ==
  ASSUME Inv, MemInv, TurnInv, Inv', MemInv', NEW l \in DOMAIN lines, NEW p \in 0 .. lines[l].line_len,
         \/ \E s \in Streams : InsertStream(l, p, s)
         \/ \E n \in 1 .. MaxDel : DeleteStream(l, p, n)
  PROVE  Flat!Ask
<1> DEFINE o == Start(Texts, l) + p
<1>1. /\ op = "none" /\ lines' = lines /\ mem' = mem /\ marks' = marks /\ line' = l /\ pos' = p /\ len' = len
      /\ \/ op' = "insert" /\ rest' \in Streams
         \/ /\ op' = "delete" /\ left' \in 1 .. MaxDel
            /\ p = lines[l].line_len => l < Len(lines)
  BY DEF InsertStream, DeleteStream, textVars
<1>2. FlatIs /\ FlatIs'
  BY FlatNow, FlatAfter
<1>3. /\ Texts' = Texts /\ Flattened(Texts)' = Flattened(Texts) /\ FlatMarks' = FlatMarks
  BY <1>1, TextStays
<1>4. Pending = Flat!Idle
  BY <1>1, <1>2, NothingLeft
<1>5. l \in 1 .. Len(lines) /\ lines[l].line_len \in Nat /\ p \in Nat /\ Start(Texts, l) \in Nat
  <2>1. l \in 1 .. Len(lines)
    BY DEF Inv, LinesInv, AreLines
  <2>2. AreTexts(Texts) /\ Len(Texts) = Len(lines) /\ lines[l].line_len \in Nat
    BY <1>2, <2>1 DEF FlatIs
  <2>3. Start(Texts, l) \in Nat
    BY <2>1, <2>2, StartNext
  <2> QED
    BY <2>1, <2>2, <2>3
<1>6. Pending' = [kind |-> op', off |-> o, bytes |-> rest', left |-> left']
  <2>1. Pending' = [kind |-> op', off |-> IF op' = "none" THEN 0 ELSE Start(Texts', line') + (pos' + len'),
                    bytes |-> rest', left |-> left']
    BY <1>2 DEF FlatIs
  <2>2. len = 0
    BY <1>1 DEF Inv, PlaceInv
  <2>3. Start(Texts', line') + (pos' + len') = o
    BY <1>1, <1>3, <1>5, <2>2
  <2> QED
    BY <1>1, <2>1, <2>3
<1>7. /\ o \in 0 .. Len(Flattened(Texts))
      /\ l < Len(lines) \/ p < lines[l].line_len => o < Len(Flattened(Texts))
  BY <1>2, <1>5, OffIn
<1>8. op' = "delete" => o < Len(Flattened(Texts)) /\ left' > 0
  <2>1. op' = "delete" => (l < Len(lines) \/ p < lines[l].line_len) /\ left' \in 1 .. MaxDel
    BY <1>1, <1>5
  <2> QED
    BY <1>7, <2>1, LineBounds
<1>9. op' = "insert" => rest' # <<>>
  BY <1>1, StreamsAssumption
<1> HIDE DEF o
<1>10. Pending'.kind = op' /\ Pending'.off = o /\ Pending'.bytes = rest' /\ Pending'.left = left'
  BY <1>6
<1> QED
  BY <1>1, <1>3, <1>4, <1>7, <1>8, <1>9, <1>10 DEF Flat!Ask

(* A mark after a line end that was not deleted: it is before its byte,    *)
(* not before the line end, or past the end of its line.                   *)
LEMMA MarkLost ==
  ASSUME NEW ts, AreTexts(ts), NEW l \in 1 .. Len(ts), l + 1 \in 1 .. Len(ts),
         NEW k, NEW p, IsPlace(ts, k, p), p <= Len(ts[k]),
         NEW j, j = (IF k > l THEN k - 1 ELSE k),
         NEW x, x = (IF k = l + 1 THEN p + Len(ts[l]) ELSE p)
  PROVE  LET o == Start(ts, l) + Len(ts[l])
             z == Off(ts, k, p)
         IN  IF z <= o THEN Off(ts, j, x) = z ELSE Off(ts, j, x) \in {-1} \cup o .. z - 1
<1> DEFINE o == Start(ts, l) + Len(ts[l])
           z == Off(ts, k, p)
<1>1. /\ Len(ts) \in Nat /\ k \in 1 .. Len(ts) /\ p \in Nat /\ l \in Nat /\ k \in Nat
      /\ Len(ts[l]) \in Nat /\ Len(ts[k]) \in Nat /\ Start(ts, l) \in Nat /\ Start(ts, k) \in Nat
  BY TextIs, StartNext DEF IsPlace
<1>2. z = Start(ts, k) + p
  BY <1>1 DEF Off
<1>3. CASE k <= l
  <2>1. j = k /\ x = p
    BY <1>1, <1>3
  <2>2. k < l => Start(ts, k) + Len(ts[k]) < Start(ts, l) /\ Len(ts[k]) \in Nat
    BY <1>1, OffsetsGrow
  <2>3. z <= o
    BY <1>1, <1>2, <1>3, <2>2
  <2> QED
    BY <2>1, <2>3
<1>4. CASE k = l + 1
  <2>1. j = l /\ x = p + Len(ts[l])
    BY <1>1, <1>4
  <2>2. Start(ts, k) = Start(ts, l) + Len(ts[l]) + 1
    BY <1>4, StartNext
  <2>3. Off(ts, j, x) = IF p > 0 THEN -1 ELSE Start(ts, l) + Len(ts[l])
    BY <1>1, <2>1 DEF Off
  <2> QED
    BY <1>1, <1>2, <2>2, <2>3
<1>5. CASE k > l + 1
  <2>1. j = k - 1 /\ x = p /\ k - 1 \in 1 .. Len(ts) /\ l < k - 1 /\ k - 1 < k
    BY <1>1, <1>5
  <2>2. Start(ts, l) + Len(ts[l]) < Start(ts, k - 1)
    BY <2>1, OffsetsGrow
  <2>3. /\ Start(ts, k - 1) + Len(ts[k - 1]) < Start(ts, k)
        /\ Start(ts, k - 1) \in Nat /\ Len(ts[k - 1]) \in Nat
    BY <1>1, <2>1, OffsetsGrow
  <2>4. Off(ts, j, x) = IF p > Len(ts[k - 1]) THEN -1 ELSE Start(ts, k - 1) + p
    BY <2>1 DEF Off
  <2> DEFINE b == Start(ts, k - 1)
             c == Off(ts, j, x)
             a == Start(ts, k)
             n == Len(ts[k - 1])
  <2>5. o \in Nat
    BY <1>1
  <2>6. /\ c = -1 \/ c = b + p
        /\ o < b /\ b + n < a /\ n \in Nat
        /\ z = a + p /\ b \in Nat /\ a \in Nat /\ p \in Nat
    BY <1>1, <1>2, <2>2, <2>3, <2>4
  <2> HIDE DEF a, b, c, n, o, z
  <2>7. ~(z <= o) /\ c \in {-1} \cup o .. z - 1
    BY ONLY <2>5, <2>6
  <2> QED
    BY <2>7 DEF c, o, z
<1> QED
  BY <1>1, <1>3, <1>4, <1>5

(* delete_stream() returns without the memory to join two lines: the text  *)
(* is as it was, but the marks after the line end have been moved.         *)
LEMMA MarksAreLost ==
  ASSUME Inv, MemInv, Inv', MemInv', DeleteFails
  PROVE  Flat!MarksGivenUp
<1> DEFINE q == lines[line].line_len
           o == Start(Texts, line) + q
<1>1. /\ op = "delete" /\ pos = q /\ line # Len(lines) /\ lines' = lines /\ mem' = mem
      /\ marks' = [k \in DOMAIN marks |-> AfterJoin(marks[k], q)]
  BY DEF DeleteFails, MoveMarks, AtEnd, AtEndOfText, textVars
<1>2. FlatIs /\ FlatIs'
  BY FlatNow, FlatAfter
<1>3. Texts' = Texts
  BY <1>1, TextStays
<1>4. /\ AreTexts(Texts) /\ Len(Texts) = Len(lines) /\ line \in 1 .. Len(Texts)
      /\ line + 1 \in 1 .. Len(Texts) /\ Len(Texts[line]) = q /\ q \in Nat
      /\ Start(Texts, line) \in Nat
  <2>1. /\ AreTexts(Texts) /\ Len(Texts) = Len(lines) /\ Len(lines) \in Nat
        /\ line \in 1 .. Len(lines)
        /\ \A k \in 1 .. Len(lines) : Len(Texts[k]) = lines[k].line_len /\ lines[k].line_len \in Nat
        /\ Start(Texts, line) \in Nat
    BY <1>2 DEF FlatIs
  <2> QED
    BY <1>1, <2>1
<1>5. Pending.kind = "delete" /\ Pending.off = o
  <2>1. len = 0
    BY <1>1 DEF Inv, PlaceInv
  <2> QED
    BY <1>1, <1>2, <1>4, <2>1 DEF FlatIs
<1>6. DOMAIN FlatMarks' = DOMAIN FlatMarks
  BY <1>1, <1>2 DEF FlatIs
<1>7. ASSUME NEW k \in DOMAIN FlatMarks, FlatMarks[k] # -1
      PROVE  FlatMarks'[k] \in IF FlatMarks[k] <= o THEN {FlatMarks[k]}
                               ELSE {-1} \cup o .. FlatMarks[k] - 1
  <2> DEFINE m == marks[k]
             e == marks'[k]
             y == FlatMarks[k]
  <2>1. /\ k \in DOMAIN marks /\ y = Off(Texts, m.line, m.pos) /\ IsPlace(Texts, m.line, m.pos)
        /\ m.pos <= Len(Texts[m.line])
    BY <1>2, <1>7, MarkSeen
  <2>2. e = AfterJoin(m, q) /\ m = [line |-> m.line, pos |-> m.pos]
    BY <1>1, <2>1 DEF Inv, MarksInv, IsMark, Mark
  <2>3. FlatMarks'[k] = Off(Texts, e.line, e.pos)
    BY <1>1, <1>2, <1>3, <2>1 DEF FlatIs
  <2>4. m.line \in Nat /\ line \in Nat /\ m.pos \in Nat
    BY <1>4, <2>1 DEF IsPlace
  <2> HIDE DEF m, e, y, q
  <2>5. /\ e.line = IF m.line > line THEN m.line - 1 ELSE m.line
        /\ e.pos = IF m.line = line + 1 THEN m.pos + Len(Texts[line]) ELSE m.pos
    <3>1. CASE m.line = line + 1
      BY <1>4, <2>2, <2>4, <3>1 DEF AfterJoin
    <3>2. CASE m.line # line + 1
      BY <2>2, <2>4, <3>2 DEF AfterJoin
    <3> QED
      BY <3>1, <3>2
  <2>6. LET b == Start(Texts, line) + Len(Texts[line])
            z == Off(Texts, m.line, m.pos)
        IN  IF z <= b THEN Off(Texts, e.line, e.pos) = z
            ELSE Off(Texts, e.line, e.pos) \in {-1} \cup b .. z - 1
    BY ONLY <1>4, <2>1, <2>5, MarkLost
  <2>7. IF y <= o THEN FlatMarks'[k] = y ELSE FlatMarks'[k] \in {-1} \cup o .. y - 1
    BY <1>4, <2>1, <2>3, <2>6
  <2> QED
    BY <2>7 DEF y
<1> HIDE DEF o
<1> QED
  BY <1>5, <1>6, <1>7 DEF Flat!MarksGivenUp, Flat!Lost, Flat!Loose

(* A function returns.                                                     *)
LEMMA ReturnIsEnd ==
  ASSUME Inv, MemInv, TurnInv, Inv', MemInv', TurnInv',
         InsertEnd \/ InsertFails \/ DeleteEnd \/ DeleteFails
  PROVE  Flat!Finish \/ Flat!GiveUp
<1>1. /\ op' = "none" /\ lines' = lines /\ mem' = mem
      /\ op # "none"
  BY DEF InsertEnd, InsertFails, DeleteEnd, DeleteFails, Return, textVars
<1>2. FlatIs /\ FlatIs'
  BY FlatNow, FlatAfter
<1>3. /\ Flattened(Texts)' = Flattened(Texts)
      /\ InsertEnd \/ InsertFails \/ DeleteEnd => FlatMarks' = FlatMarks
  BY <1>1, TextStays DEF InsertEnd, InsertFails, DeleteEnd
<1>4. Pending' = Flat!Idle
  BY <1>1, <1>2, NothingLeftAfter
<1>5. /\ Pending.kind = op /\ Pending.bytes = rest /\ Pending.left = left
      /\ Pending.off = Start(Texts, line) + (pos + len)
  BY <1>1, <1>2 DEF FlatIs
<1>6. CASE InsertEnd
  <2>1. op = "insert" /\ rest = <<>>
    BY <1>6 DEF InsertEnd
  <2> QED
    BY <1>3, <1>4, <1>5, <1>6, <2>1 DEF Flat!Finish
<1>7. CASE DeleteEnd
  <2>1. op = "delete" /\ (left = 0 \/ (pos = lines[line].line_len /\ line = Len(lines)))
    BY <1>7 DEF DeleteEnd, AtEndOfText, AtEnd
  <2>2. len = 0
    BY <2>1 DEF Inv, PlaceInv
  <2>3. pos = lines[line].line_len /\ line = Len(lines) => Pending.off = Len(Flattened(Texts))
    <3>1. SUFFICES ASSUME pos = lines[line].line_len, line = Len(lines)
                   PROVE  Pending.off = Len(Flattened(Texts))
      OBVIOUS
    <3>2. line \in 1 .. Len(lines) /\ pos \in 0 .. lines[line].line_len /\ Start(Texts, line) \in Nat /\ pos \in Nat
      BY <1>2, <3>1 DEF FlatIs
    <3>3. Start(Texts, line) + pos = Len(Flattened(Texts))
      BY <1>2, <3>1, <3>2, OffIn
    <3> QED
      BY <1>5, <2>2, <3>2, <3>3
  <2> QED
    BY <1>3, <1>4, <1>5, <1>7, <2>1, <2>3 DEF Flat!Finish
<1>8. CASE InsertFails \/ DeleteFails
  <2>1. CanFail
    BY <1>8 DEF InsertFails, DeleteFails
  <2>2. Pending # Flat!Idle
    BY <1>1, <1>5 DEF Flat!Idle
  <2>3. Flat!MarksGivenUp
    <3>1. CASE InsertFails
      BY <1>3, <1>5, <3>1 DEF InsertFails, Flat!MarksGivenUp
    <3>2. CASE DeleteFails
      BY <3>2, MarksAreLost
    <3> QED
      BY <1>8, <3>1, <3>2
  <2> QED
    BY <1>3, <1>4, <2>1, <2>2, <2>3 DEF Flat!GiveUp
<1> QED
  BY <1>6, <1>7, <1>8

(* A mark is set or removed.                                               *)
LEMMA MarkIsSet ==
  ASSUME Inv, MemInv, TurnInv, Inv', MemInv', TurnInv', NEW m \in Marks,
         NEW l \in DOMAIN lines, NEW p \in 0 .. lines[l].line_len + 1, SetMark(m, l, p)
  PROVE  Flat!SetMark
<1>1. /\ op = "none" /\ op' = op /\ lines' = lines /\ mem' = mem
      /\ marks' = [k \in DOMAIN marks \cup {m} |-> IF k = m THEN [line |-> l, pos |-> p] ELSE marks[k]]
  BY DEF SetMark, textVars, runVars
<1>2. FlatIs /\ FlatIs'
  BY FlatNow, FlatAfter
<1>3. Texts' = Texts /\ Flattened(Texts)' = Flattened(Texts)
  BY <1>1, TextStays
<1>4. Pending = Flat!Idle /\ Pending' = Flat!Idle
  BY <1>1, <1>2, NothingLeft, NothingLeftAfter
<1>5. DOMAIN FlatMarks' = DOMAIN FlatMarks \cup {m}
  BY <1>1, <1>2 DEF FlatIs
<1>6. ASSUME NEW k \in DOMAIN FlatMarks \ {m} PROVE FlatMarks'[k] = FlatMarks[k]
  <2>1. k \in DOMAIN marks /\ k \in DOMAIN marks' /\ marks'[k] = marks[k]
    BY <1>1, <1>2 DEF FlatIs
  <2>2. FlatMarks[k] = Off(Texts, marks[k].line, marks[k].pos)
    BY <1>2, <2>1 DEF FlatIs
  <2>3. FlatMarks'[k] = Off(Texts', marks'[k].line, marks'[k].pos)
    BY <1>2, <2>1 DEF FlatIs
  <2> QED
    BY <1>3, <2>1, <2>2, <2>3
<1>7. FlatMarks'[m] \in {-1} \cup 0 .. Len(Flattened(Texts))
  <2>1. m \in DOMAIN marks' /\ marks'[m].line = l /\ marks'[m].pos = p
    BY <1>1
  <2>2. FlatMarks'[m] = Off(Texts', marks'[m].line, marks'[m].pos)
    BY <1>2, <2>1 DEF FlatIs
  <2>3. FlatMarks'[m] = Off(Texts, l, p)
    BY <1>3, <2>1, <2>2
  <2>4. l \in 1 .. Len(lines)
    BY DEF Inv, LinesInv, AreLines
  <2>5. Len(Texts[l]) = lines[l].line_len /\ lines[l].line_len \in Nat
    BY <1>2, <2>4 DEF FlatIs
  <2>6. CASE p > Len(Texts[l])
    BY <2>3, <2>6 DEF Off
  <2>7. CASE ~(p > Len(Texts[l]))
    <3>1. p \in 0 .. lines[l].line_len
      BY <2>5, <2>7
    <3>2. Start(Texts, l) + p \in 0 .. Len(Flattened(Texts))
      BY <1>2, <2>4, <3>1, OffIn
    <3> QED
      BY <2>3, <2>7, <3>2 DEF Off
  <2> QED
    BY <2>6, <2>7
<1> QED
  BY <1>3, <1>4, <1>5, <1>6, <1>7 DEF Flat!SetMark, Flat!Loose

(* A mark is removed.                                                      *)
LEMMA MarkIsUnset ==
  ASSUME Inv, MemInv, TurnInv, Inv', MemInv', TurnInv', NEW m \in Marks, UnsetMark(m)
  PROVE  Flat!UnsetMark
<1>1. /\ op = "none" /\ op' = op /\ lines' = lines /\ mem' = mem /\ m \in DOMAIN marks
      /\ marks' = [k \in DOMAIN marks \ {m} |-> marks[k]]
  BY DEF UnsetMark, textVars, runVars, Restrict
<1>2. FlatIs /\ FlatIs'
  BY FlatNow, FlatAfter
<1>3. Texts' = Texts /\ Flattened(Texts)' = Flattened(Texts)
  BY <1>1, TextStays
<1>4. Pending = Flat!Idle /\ Pending' = Flat!Idle
  BY <1>1, <1>2, NothingLeft, NothingLeftAfter
<1>5. DOMAIN FlatMarks' = DOMAIN FlatMarks \ {m} /\ m \in DOMAIN FlatMarks
  BY <1>1, <1>2 DEF FlatIs
<1>6. ASSUME NEW k \in DOMAIN FlatMarks \ {m} PROVE FlatMarks'[k] = FlatMarks[k]
  <2>1. k \in DOMAIN marks /\ k \in DOMAIN marks' /\ marks'[k] = marks[k]
    BY <1>1, <1>2 DEF FlatIs
  <2>2. FlatMarks[k] = Off(Texts, marks[k].line, marks[k].pos)
    BY <1>2, <2>1 DEF FlatIs
  <2>3. FlatMarks'[k] = Off(Texts', marks'[k].line, marks'[k].pos)
    BY <1>2, <2>1 DEF FlatIs
  <2> QED
    BY <1>3, <2>1, <2>2, <2>3
<1>7. FlatMarks' = [k \in DOMAIN FlatMarks \ {m} |-> FlatMarks[k]]
  <2>1. FlatMarks' = [k \in DOMAIN FlatMarks' |-> FlatMarks'[k]]
    BY DEF FlatMarks
  <2> QED
    BY <1>5, <1>6, <2>1
<1> QED
  BY <1>3, <1>4, <1>5, <1>7 DEF Flat!UnsetMark

(* A file that has been read, or nothing, and no mark.                     *)
LEMMA InitIsFlat == Init /\ Inv /\ MemInv => Flat!Init
<1> SUFFICES ASSUME Init, Inv, MemInv PROVE Flat!Init
  OBVIOUS
<1>1. op = "none" /\ rest = <<>> /\ left = 0 /\ marks = <<>>
  BY DEF Init, Idle
<1>2. FlatIs /\ TurnInv
  BY FlatNow, InitTurn
<1>3. Flattened(Texts) \in Seq(Byte \cup {NL})
  BY <1>2, FlattenedIs DEF FlatIs
<1>4. Pending = Flat!Idle
  BY <1>1, <1>2, NothingLeft
<1>5. FlatMarks = <<>>
  <2>1. DOMAIN marks = {}
    BY <1>1
  <2>2. FlatMarks = [m \in {} |-> FlatMarks[m]]
    BY <2>1 DEF FlatMarks
  <2> QED
    BY <2>2
<1> QED
  BY <1>3, <1>4, <1>5 DEF Flat!Init

(* Every step of the lines is a step of the flat document or none.         *)
LEMMA StepIsFlat ==
  Inv /\ MemInv /\ TurnInv /\ [Next]_vars /\ Inv' /\ MemInv' /\ TurnInv' => [Flat!Next]_(Flat!fvars)
<1> SUFFICES ASSUME Inv, MemInv, TurnInv, [Next]_vars, Inv', MemInv', TurnInv'
             PROVE  Flat!Next \/ UNCHANGED Flat!fvars
  OBVIOUS
<1>0. Pending.bytes = rest /\ Pending.left = left
  BY FlatNow DEF FlatIs
<1>1. CASE \E l \in DOMAIN lines : \E p \in 0 .. lines[l].line_len :
             \/ \E s \in Streams : InsertStream(l, p, s)
             \/ \E n \in 1 .. MaxDel : DeleteStream(l, p, n)
  <2>1. Flat!Ask
    BY <1>1, CallIsAsked
  <2> QED
    BY <2>1 DEF Flat!Next
<1>2. CASE InsertPiece
  <2>1. Flat!InsertSome(PieceLen)
    BY <1>2, PieceIsInserted
  <2>2. PieceLen \in Nat /\ PieceLen <= Len(rest) /\ PieceLen > 0 /\ Len(rest) \in Nat
    BY <1>2, PieceLenNat DEF InsertPiece, Inv, OwedInv
  <2>3. PieceLen \in 1 .. Len(Pending.bytes)
    BY <1>0, <2>2
  <2> QED
    BY <2>1, <2>3 DEF Flat!Next
<1>3. CASE BreakLine
  <2>1. Flat!InsertSome(1)
    BY <1>3, EndIsInserted
  <2>2. rest \in Seq(Byte \cup {NL}) /\ rest # <<>>
    BY <1>3 DEF BreakLine, Inv, OwedInv
  <2>3. 1 \in 1 .. Len(Pending.bytes)
    BY <1>0, <2>2
  <2> QED
    BY <2>1, <2>3 DEF Flat!Next
<1>4. CASE JoinLines
  <2>1. Flat!DeleteSome(1)
    BY <1>4, EndIsDeleted
  <2>2. left \in Nat /\ left > 0
    BY <1>4 DEF JoinLines, Inv, OwedInv
  <2>3. 1 \in 1 .. Pending.left
    BY <1>0, <2>2
  <2> QED
    BY <2>1, <2>3 DEF Flat!Next
<1>5. CASE DeleteInLine
  <2>1. \E n \in 1 .. left : Flat!DeleteSome(n)
    BY <1>5, BytesAreDeleted
  <2> QED
    BY <1>0, <2>1 DEF Flat!Next
<1>6. CASE InsertEnd \/ InsertFails \/ DeleteEnd \/ DeleteFails
  <2>1. Flat!Finish \/ Flat!GiveUp
    BY <1>6, ReturnIsEnd
  <2> QED
    BY <2>1 DEF Flat!Next
<1>7. CASE \E m \in Marks, l \in DOMAIN lines : \E p \in 0 .. lines[l].line_len + 1 : SetMark(m, l, p)
  <2>1. Flat!SetMark
    BY <1>7, MarkIsSet
  <2> QED
    BY <2>1 DEF Flat!Next
<1>8. CASE \E m \in Marks : UnsetMark(m)
  <2>1. Flat!UnsetMark
    BY <1>8, MarkIsUnset
  <2> QED
    BY <2>1 DEF Flat!Next
<1>9. CASE UNCHANGED vars
  <2>1. /\ lines' = lines /\ mem' = mem /\ marks' = marks /\ op' = op /\ line' = line /\ pos' = pos
        /\ len' = len /\ rest' = rest /\ left' = left
    BY <1>9 DEF vars, textVars, runVars
  <2>2. Texts' = Texts /\ Flattened(Texts)' = Flattened(Texts) /\ FlatMarks' = FlatMarks
    BY <2>1, TextStays
  <2>3. Pending' = Pending
    BY <2>1, <2>2 DEF Pending, Offset
  <2> QED
    BY <2>2, <2>3 DEF Flat!fvars
<1> QED
  BY <1>1, <1>2, <1>3, <1>4, <1>5, <1>6, <1>7, <1>8, <1>9 DEF Next

(* Whatever insert_stream() and delete_stream() do with lines, with their  *)
(* memory and with their descriptors, and wherever memory runs out, the    *)
(* document is the sequence of bytes that is asked for: an insertion puts  *)
(* its bytes at its offset, a deletion takes away those after its own, and *)
(* nothing else changes.  The mark and the bookmarks stay at their bytes,  *)
(* but for those after a line end that a deletion had no memory to take    *)
(* away: they are before their bytes then, or past the end of a line.      *)
THEOREM DocumentImplemented == Spec => IsFlatDocument
<1>1. Init /\ Inv /\ MemInv => Flat!Init
  BY InitIsFlat
<1>2. Inv /\ MemInv /\ TurnInv /\ [Next]_vars /\ Inv' /\ MemInv' /\ TurnInv' => [Flat!Next]_(Flat!fvars)
  BY StepIsFlat
<1> QED
  BY <1>1, <1>2, Invariance, MemInvariance, TurnInvariance, PTL DEF Spec, IsFlatDocument, Flat!Spec
=============================================================================
