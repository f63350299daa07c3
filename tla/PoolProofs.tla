----------------------------- MODULE PoolProofs -----------------------------
(***************************************************************************)
(* Proofs about Pools: what alloc_chars(), alloc_chars_around(),           *)
(* free_chars(), alloc_line_desc() and free_line_desc() do to the bytes    *)
(* and descriptors that are in use, for pools of any sizes.                *)
(***************************************************************************)
EXTENDS Pools, FlatTextProofs

(* InsertAt() of a sequence: what is where.                                *)
LEMMA Inserted ==
  ASSUME NEW S, NEW s \in Seq(S), NEW i \in 1 .. Len(s) + 1, NEW e \in S
  PROVE  InsertAt(s, i, e) =
           [j \in 1 .. Len(s) + 1 |-> IF j < i THEN s[j] ELSE IF j = i THEN e ELSE s[j - 1]]
<1> DEFINE h == SubSeq(s, 1, i - 1)
           t == SubSeq(s, i, Len(s))
<1>1. Len(s) \in Nat /\ i \in Nat
  OBVIOUS
<1>2. h \in Seq(S) /\ Len(h) = i - 1 /\ \A j \in 1 .. i - 1 : h[j] = s[j]
  BY <1>1, SubSeqProperties
<1>3. t \in Seq(S) /\ Len(t) = Len(s) - i + 1 /\ \A j \in 1 .. Len(s) - i + 1 : t[j] = s[i + j - 1]
  BY <1>1, SubSeqProperties
<1>4. <<e>> \in Seq(S) /\ Len(<<e>>) = 1 /\ <<e>>[1] = e
  OBVIOUS
<1> HIDE DEF h, t
<1> DEFINE he == h \o <<e>>
<1>5. he \in Seq(S) /\ Len(he) = i /\ \A j \in 1 .. i : he[j] = IF j < i THEN s[j] ELSE e
  BY <1>1, <1>2, <1>4, ConcatProperties
<1> HIDE DEF he
<1> DEFINE all == he \o t
<1>6. all \in Seq(S) /\ Len(all) = Len(s) + 1
  BY <1>1, <1>3, <1>5, ConcatProperties
<1>7. \A j \in 1 .. Len(s) + 1 : all[j] = IF j <= i THEN he[j] ELSE t[j - i]
  BY <1>1, <1>3, <1>5, ConcatProperties
<1> HIDE DEF all
<1>8. \A j \in 1 .. Len(s) + 1 : all[j] = IF j < i THEN s[j] ELSE IF j = i THEN e ELSE s[j - 1]
  BY <1>1, <1>3, <1>5, <1>7
<1>9. all = [j \in 1 .. Len(s) + 1 |-> all[j]]
  BY <1>6
<1>10. InsertAt(s, i, e) = all
  BY DEF InsertAt, all, he, h, t
<1> QED
  BY <1>8, <1>9, <1>10

(* RemoveAt() of a sequence.                                               *)
LEMMA Removed ==
  ASSUME NEW S, NEW s \in Seq(S), NEW i \in 1 .. Len(s)
  PROVE  RemoveAt(s, i) = [j \in 1 .. Len(s) - 1 |-> IF j < i THEN s[j] ELSE s[j + 1]]
<1> DEFINE h == SubSeq(s, 1, i - 1)
           t == SubSeq(s, i + 1, Len(s))
<1>1. Len(s) \in Nat /\ i \in Nat
  OBVIOUS
<1>2. h \in Seq(S) /\ Len(h) = i - 1 /\ \A j \in 1 .. i - 1 : h[j] = s[j]
  BY <1>1, SubSeqProperties
<1>3. t \in Seq(S) /\ Len(t) = Len(s) - i /\ \A j \in 1 .. Len(s) - i : t[j] = s[i + j]
  BY <1>1, SubSeqProperties
<1> HIDE DEF h, t
<1> DEFINE all == h \o t
<1>4. all \in Seq(S) /\ Len(all) = Len(s) - 1
  BY <1>1, <1>2, <1>3, ConcatProperties
<1>5. \A j \in 1 .. Len(s) - 1 : all[j] = IF j <= i - 1 THEN h[j] ELSE t[j - (i - 1)]
  BY <1>1, <1>2, <1>3, ConcatProperties
<1> HIDE DEF all
<1>6. \A j \in 1 .. Len(s) - 1 : all[j] = IF j < i THEN s[j] ELSE s[j + 1]
  <2> TAKE j \in 1 .. Len(s) - 1
  <2>1. CASE j < i
    BY <1>1, <1>2, <1>5, <2>1
  <2>2. CASE ~(j < i)
    <3>1. ~(j <= i - 1) /\ j - (i - 1) \in 1 .. Len(s) - i /\ i + (j - (i - 1)) = j + 1
      BY <1>1, <2>2
    <3> QED
      BY <1>3, <1>5, <2>2, <3>1
  <2> QED
    BY <2>1, <2>2
<1>7. all = [j \in 1 .. Len(s) - 1 |-> all[j]]
  BY <1>4
<1>8. RemoveAt(s, i) = all
  BY DEF RemoveAt, all, h, t
<1> QED
  BY <1>6, <1>7, <1>8
-----------------------------------------------------------------------------
(* The bytes of pool id at the offsets in D; the n bytes from address p on. *)
Bytes_(id, D) == {<<id, j>> : j \in D}
Span(p, n) == Bytes_(p[1], p[2] .. p[2] + n - 1)

(* The offsets of a pool that are not free, and the addresses in use.      *)
Cells(cp) == {j \in 0 .. cp.size - 1 : cp.pool[j] # Nul}
Used(m) == UNION {Bytes_(id, Cells(m.pool[id])) : id \in DOMAIN m.pool}

(* A pool, also one whose bounds are ahead of its bytes, between the       *)
(* allocation of bytes and the copy into them.                             *)
IsRaw(cp) ==
  /\ cp = [size |-> cp.size, first_used |-> cp.first_used, last_used |-> cp.last_used, pool |-> cp.pool]
  /\ cp.size \in Nat /\ cp.first_used \in Int /\ cp.last_used \in Int
  /\ cp.pool \in [0 .. cp.size - 1 -> Byte \cup {Nul}]
IsPool(cp) == IsRaw(cp) /\ assert_char_pool(cp)

(* The list holds every pool once.                                         *)
IsList(list, ids) ==
  /\ list \in Seq(ids)
  /\ \A id \in ids : \E j \in 1 .. Len(list) : list[j] = id
  /\ \A i, j \in 1 .. Len(list) : list[i] = list[j] => i = j

AreRaw(m) ==
  /\ m = [pool |-> m.pool, list |-> m.list, free |-> m.free, allocated |-> m.allocated]
  /\ m.pool = [id \in DOMAIN m.pool |-> m.pool[id]]
  /\ \A id \in DOMAIN m.pool : IsRaw(m.pool[id])
ArePools(m) ==
  /\ AreRaw(m)
  /\ DOMAIN m.pool \subseteq PoolIds
  /\ \A id \in DOMAIN m.pool : IsPool(m.pool[id])
  /\ IsList(m.list, DOMAIN m.pool)
  /\ m.free \in Int /\ m.allocated \in Int
  /\ IsFiniteSet(Used(m)) /\ m.allocated - m.free = Cardinality(Used(m))

(* What is in use, one address at a time.                                  *)
LEMMA UsedIs ==
  ASSUME NEW m, NEW id, NEW j
  PROVE  <<id, j>> \in Used(m) <=> id \in DOMAIN m.pool /\ j \in Cells(m.pool[id])
BY DEF Used, Bytes_

(* All that is in use is an address.                                       *)
LEMMA UsedPairs ==
  ASSUME NEW m, NEW a \in Used(m)
  PROVE  /\ a = <<a[1], a[2]>>
         /\ a[1] \in DOMAIN m.pool /\ a[2] \in Cells(m.pool[a[1]])
<1>1. PICK id \in DOMAIN m.pool : a \in Bytes_(id, Cells(m.pool[id]))
  BY DEF Used
<1>2. PICK j \in Cells(m.pool[id]) : a = <<id, j>>
  BY <1>1 DEF Bytes_
<1> QED
  BY <1>1, <1>2

(* As many bytes as offsets.                                               *)
LEMMA BytesCount ==
  ASSUME NEW id, NEW D, IsFiniteSet(D)
  PROVE  IsFiniteSet(Bytes_(id, D)) /\ Cardinality(Bytes_(id, D)) = Cardinality(D)
<1> DEFINE f == [j \in D |-> <<id, j>>]
<1>1. f \in [D -> Bytes_(id, D)]
  BY DEF Bytes_
<1>2. \A i, j \in D : f[i] = f[j] => i = j
  OBVIOUS
<1>3. \A a \in Bytes_(id, D) : \E j \in D : f[j] = a
  BY DEF Bytes_
<1>4. f \in Bijection(D, Bytes_(id, D))
  BY <1>1, <1>2, <1>3 DEF Bijection, Injection, Surjection, IsInjective
<1>5. ExistsBijection(D, Bytes_(id, D))
  BY <1>4 DEF ExistsBijection
<1> QED
  BY <1>5, FS_Bijection

(* Adding and taking away bytes, as numbers.                               *)
LEMMA CountAdded ==
  ASSUME NEW U, IsFiniteSet(U), NEW V, IsFiniteSet(V), U \cap V = {}
  PROVE  /\ IsFiniteSet(U \cup V)
         /\ Cardinality(U \cup V) = Cardinality(U) + Cardinality(V)
         /\ Cardinality(U) \in Nat /\ Cardinality(V) \in Nat
<1>1. Cardinality(U \cap V) = 0
  BY FS_EmptySet
<1>2. Cardinality(U) \in Nat /\ Cardinality(V) \in Nat
  BY FS_CardinalityType
<1>3. IsFiniteSet(U \cup V) /\ Cardinality(U \cup V) = Cardinality(U) + Cardinality(V) - Cardinality(U \cap V)
  BY FS_Union
<1> QED
  BY <1>1, <1>2, <1>3

(* The other way round.                                                    *)
LEMMA CountTaken ==
  ASSUME NEW U, IsFiniteSet(U), NEW V, V \subseteq U
  PROVE  /\ IsFiniteSet(U \ V) /\ IsFiniteSet(V)
         /\ Cardinality(U \ V) = Cardinality(U) - Cardinality(V)
         /\ Cardinality(U) \in Nat /\ Cardinality(V) \in Nat
<1>1. IsFiniteSet(U \ V) /\ IsFiniteSet(V)
  BY FS_Subset
<1>2. (U \ V) \cap V = {} /\ (U \ V) \cup V = U
  OBVIOUS
<1>3. Cardinality((U \ V) \cup V) = Cardinality(U \ V) + Cardinality(V)
  BY <1>1, <1>2, CountAdded
<1>4. Cardinality(U \ V) \in Nat /\ Cardinality(V) \in Nat
  BY <1>1, FS_CardinalityType
<1>5. Cardinality(U) = Cardinality(U \ V) + Cardinality(V)
  BY <1>2, <1>3
<1> QED
  BY <1>1, <1>4, <1>5
-----------------------------------------------------------------------------
(* From m to r the addresses in V are given out; or they are taken back.   *)
(* The byte at an address, and the i-th address from p on; r has the bytes *)
(* of m at the addresses in A; s is at p and what else is in use is as it  *)
(* was.                                                                    *)
At(p, i) == <<p[1], p[2] + i - 1>>
Cell(m, a) == m.pool[a[1]].pool[a[2]]
Keeps(m, r, A) == \A a \in A : Cell(r, a) = Cell(m, a)
Holds(r, p, s) == \A i \in 1 .. Len(s) : Cell(r, At(p, i)) = s[i]
Stored(m, r, p, s) == Keeps(m, r, Used(m) \ Span(p, Len(s))) /\ Holds(r, p, s)

Gives(m, r, V) == ArePools(r) /\ Used(r) = Used(m) \cup V /\ Used(m) \cap V = {}
Takes(m, r, V) == ArePools(r) /\ Used(r) = Used(m) \ V /\ Keeps(m, r, Used(r))

(* r is m but for pool id and the counters.                                *)
OnlyPool(m, id, r) ==
  /\ AreRaw(r) /\ DOMAIN r.pool = DOMAIN m.pool
  /\ \A k \in DOMAIN m.pool : k # id => r.pool[k] = m.pool[k]
  /\ IsPool(r.pool[id])
  /\ IsList(r.list, DOMAIN m.pool)
  /\ r.free \in Int /\ r.allocated = m.allocated

(* More of a pool is in use.                                               *)
LEMMA PoolGrown ==
  ASSUME NEW m, ArePools(m), NEW id \in DOMAIN m.pool, NEW r, OnlyPool(m, id, r),
         NEW D, IsFiniteSet(D), D \cap Cells(m.pool[id]) = {},
         Cells(r.pool[id]) = Cells(m.pool[id]) \cup D,
         r.free = m.free - Cardinality(D)
  PROVE  Gives(m, r, Bytes_(id, D))
<1>1. IsFiniteSet(Bytes_(id, D)) /\ Cardinality(Bytes_(id, D)) = Cardinality(D)
  BY BytesCount
<1>2. Used(m) \cap Bytes_(id, D) = {}
  BY UsedIs DEF Bytes_
<1>3. Used(r) = Used(m) \cup Bytes_(id, D)
  <2>1. ASSUME NEW a \in Used(r) PROVE a \in Used(m) \cup Bytes_(id, D)
    <3>1. a = <<a[1], a[2]>> /\ a[1] \in DOMAIN r.pool /\ a[2] \in Cells(r.pool[a[1]])
      BY UsedPairs
    <3>2. CASE a[1] = id
      BY <3>1, <3>2, UsedIs DEF Bytes_, OnlyPool
    <3>3. CASE a[1] # id
      BY <3>1, <3>3, UsedIs DEF OnlyPool
    <3> QED
      BY <3>2, <3>3
  <2>2. ASSUME NEW a \in Used(m) PROVE a \in Used(r)
    <3>1. a = <<a[1], a[2]>> /\ a[1] \in DOMAIN m.pool /\ a[2] \in Cells(m.pool[a[1]])
      BY UsedPairs
    <3>2. a[2] \in Cells(r.pool[a[1]]) /\ a[1] \in DOMAIN r.pool
      BY <3>1 DEF OnlyPool
    <3> QED
      BY <3>1, <3>2, UsedIs
  <2>3. ASSUME NEW a \in Bytes_(id, D) PROVE a \in Used(r)
    BY UsedIs DEF Bytes_, OnlyPool
  <2> QED
    BY <2>1, <2>2, <2>3
<1>4. IsFiniteSet(Used(m)) /\ Cardinality(Used(m)) = m.allocated - m.free /\ m.allocated \in Int /\ m.free \in Int
  BY DEF ArePools
<1>5. /\ IsFiniteSet(Used(r)) /\ Cardinality(Used(r)) = Cardinality(Used(m)) + Cardinality(D)
      /\ Cardinality(D) \in Nat
  BY ZenonT(60), <1>1, <1>2, <1>3, <1>4, CountAdded
<1>6. r.allocated - r.free = Cardinality(Used(r)) /\ r.allocated \in Int
  BY <1>4, <1>5 DEF OnlyPool
<1> QED
  BY <1>2, <1>3, <1>5, <1>6 DEF ArePools, OnlyPool, Gives

(* Less of a pool is in use.                                               *)
LEMMA PoolShrunk ==
  ASSUME NEW m, ArePools(m), NEW id \in DOMAIN m.pool, NEW r, OnlyPool(m, id, r),
         NEW D, D \subseteq Cells(m.pool[id]),
         Cells(r.pool[id]) = Cells(m.pool[id]) \ D,
         \A j \in Cells(r.pool[id]) : r.pool[id].pool[j] = m.pool[id].pool[j],
         r.free = m.free + Cardinality(D)
  PROVE  Takes(m, r, Bytes_(id, D))
<1>1. Bytes_(id, D) \subseteq Used(m)
  BY UsedIs DEF Bytes_
<1>2. IsFiniteSet(D)
  <2>1. m.pool[id].size \in Nat
    BY DEF ArePools, AreRaw, IsRaw
  <2>2. IsFiniteSet(0 .. m.pool[id].size - 1)
    BY <2>1, FS_Interval
  <2>3. D \subseteq 0 .. m.pool[id].size - 1
    BY DEF Cells
  <2> QED
    BY <2>2, <2>3, FS_Subset
<1>3. IsFiniteSet(Bytes_(id, D)) /\ Cardinality(Bytes_(id, D)) = Cardinality(D)
  BY <1>2, BytesCount
<1>4. Used(r) = Used(m) \ Bytes_(id, D)
  <2>1. ASSUME NEW a \in Used(r) PROVE a \in Used(m) \ Bytes_(id, D)
    <3>1. a = <<a[1], a[2]>> /\ a[1] \in DOMAIN r.pool /\ a[2] \in Cells(r.pool[a[1]])
      BY UsedPairs
    <3>2. CASE a[1] = id
      <4>1. a[2] \in Cells(m.pool[id]) /\ a[2] \notin D
        BY <3>1, <3>2
      <4>2. a \in Used(m)
        BY <3>1, <3>2, <4>1, UsedIs
      <4>3. a \notin Bytes_(id, D)
        BY <3>1, <4>1 DEF Bytes_
      <4> QED
        BY <4>2, <4>3
    <3>3. CASE a[1] # id
      <4>1. a \in Used(m)
        BY <3>1, <3>3, UsedIs DEF OnlyPool
      <4> QED
        BY <3>1, <3>3, <4>1 DEF Bytes_
    <3> QED
      BY <3>2, <3>3
  <2>2. ASSUME NEW a \in Used(m), a \notin Bytes_(id, D) PROVE a \in Used(r)
    <3>1. a = <<a[1], a[2]>> /\ a[1] \in DOMAIN m.pool /\ a[2] \in Cells(m.pool[a[1]])
      BY UsedPairs
    <3>2. a[1] = id => a[2] \notin D
      BY <2>2, <3>1 DEF Bytes_
    <3>3. a[2] \in Cells(r.pool[a[1]]) /\ a[1] \in DOMAIN r.pool
      BY <3>1, <3>2 DEF OnlyPool
    <3> QED
      BY <3>1, <3>3, UsedIs
  <2> QED
    BY <2>1, <2>2
<1>5. IsFiniteSet(Used(m)) /\ Cardinality(Used(m)) = m.allocated - m.free /\ m.allocated \in Int /\ m.free \in Int
  BY DEF ArePools
<1>6. /\ IsFiniteSet(Used(r)) /\ Cardinality(Used(r)) = Cardinality(Used(m)) - Cardinality(D)
      /\ Cardinality(D) \in Nat
  BY <1>1, <1>3, <1>4, <1>5, CountTaken
<1>7. r.allocated - r.free = Cardinality(Used(r)) /\ r.allocated \in Int
  BY <1>5, <1>6 DEF OnlyPool
<1>8. Keeps(m, r, Used(r))
  <2> SUFFICES ASSUME NEW a \in Used(r) PROVE Cell(r, a) = Cell(m, a)
    BY DEF Keeps
  <2>1. a[1] \in DOMAIN m.pool /\ a[2] \in Cells(r.pool[a[1]])
    BY UsedPairs DEF OnlyPool
  <2> QED
    BY <2>1 DEF OnlyPool, Cell
<1>9. ArePools(r)
  BY <1>4, <1>6, <1>7 DEF ArePools, OnlyPool
<1> QED
  BY <1>4, <1>8, <1>9 DEF Takes
-----------------------------------------------------------------------------
(* A copy changes the bytes of one pool.                                   *)
Copied(cp, at, s) ==
  [j \in 0 .. cp.size - 1 |-> IF j \in at .. at + Len(s) - 1 THEN s[j - at + 1] ELSE cp.pool[j]]

Wrote(m, p, s, r) ==
  /\ AreRaw(r) /\ DOMAIN r.pool = DOMAIN m.pool
  /\ r.list = m.list /\ r.free = m.free /\ r.allocated = m.allocated
  /\ \A k \in DOMAIN m.pool : k # p[1] => r.pool[k] = m.pool[k]
  /\ r.pool[p[1]].size = m.pool[p[1]].size
  /\ r.pool[p[1]].first_used = m.pool[p[1]].first_used
  /\ r.pool[p[1]].last_used = m.pool[p[1]].last_used
  /\ r.pool[p[1]].pool = Copied(m.pool[p[1]], p[2], s)

(* What the pools are after a copy.                                        *)
LEMMA WriteIs ==
  ASSUME NEW m, AreRaw(m), NEW p, p[1] \in DOMAIN m.pool, p[2] \in Nat,
         NEW s \in Seq(Byte \cup {Nul}), p[2] + Len(s) <= m.pool[p[1]].size,
         NEW r, r = Write(m, p, s)
  PROVE  Wrote(m, p, s, r)
<1> DEFINE id == p[1]
           cp == m.pool[id]
           new == Copied(cp, p[2], s)
<1>1. m = [pool |-> m.pool, list |-> m.list, free |-> m.free, allocated |-> m.allocated]
  BY DEF AreRaw
<1>2. m.pool = [k \in DOMAIN m.pool |-> m.pool[k]] /\ id \in DOMAIN m.pool
  BY DEF AreRaw
<1>3. /\ cp = [size |-> cp.size, first_used |-> cp.first_used, last_used |-> cp.last_used, pool |-> cp.pool]
      /\ cp.size \in Nat /\ cp.pool \in [0 .. cp.size - 1 -> Byte \cup {Nul}]
      /\ cp.first_used \in Int /\ cp.last_used \in Int
  BY DEF AreRaw, IsRaw
<1>4. DOMAIN cp.pool = 0 .. cp.size - 1
  BY <1>3
<1>5. r = [m EXCEPT !.pool[id].pool = new]
  BY <1>4 DEF Write, Copied
<1>6. new \in [0 .. cp.size - 1 -> Byte \cup {Nul}]
  <2>1. \A j \in 0 .. cp.size - 1 : j \in p[2] .. p[2] + Len(s) - 1 => s[j - p[2] + 1] \in Byte \cup {Nul}
    OBVIOUS
  <2>2. \A j \in 0 .. cp.size - 1 : cp.pool[j] \in Byte \cup {Nul}
    BY <1>3
  <2> QED
    BY <2>1, <2>2 DEF Copied
<1> HIDE DEF new
<1>7. /\ r = [pool |-> r.pool, list |-> r.list, free |-> r.free, allocated |-> r.allocated]
      /\ r.list = m.list /\ r.free = m.free /\ r.allocated = m.allocated
      /\ r.pool = [m.pool EXCEPT ![id].pool = new]
  BY <1>1, <1>5
<1>8. /\ r.pool = [k \in DOMAIN m.pool |-> r.pool[k]]
      /\ \A k \in DOMAIN m.pool : k # id => r.pool[k] = m.pool[k]
      /\ r.pool[id] = [cp EXCEPT !.pool = new]
  BY <1>2, <1>7
<1>9. r.pool[id] = [size |-> cp.size, first_used |-> cp.first_used, last_used |-> cp.last_used, pool |-> new]
  BY <1>3, <1>8
<1> HIDE DEF cp, id
<1>10. /\ r.pool[id].size = cp.size /\ r.pool[id].first_used = cp.first_used
       /\ r.pool[id].last_used = cp.last_used /\ r.pool[id].pool = new
  BY <1>9
<1>11. IsRaw(r.pool[id])
  BY <1>3, <1>6, <1>9, <1>10 DEF IsRaw
<1>12. \A k \in DOMAIN m.pool : IsRaw(r.pool[k])
  BY <1>8, <1>11 DEF AreRaw
<1>13. AreRaw(r) /\ DOMAIN r.pool = DOMAIN m.pool
  BY <1>7, <1>8, <1>12 DEF AreRaw
<1> QED
  BY <1>7, <1>8, <1>10, <1>13 DEF id, cp, new, Wrote

(* The bytes of a line that is in use are not free.                        *)
LEMMA ReadIs ==
  ASSUME NEW m, ArePools(m), NEW p, NEW n \in Nat, p[2] \in Nat, Span(p, n) \subseteq Used(m)
  PROVE  Read(m, p, n) \in Seq(Byte) /\ Len(Read(m, p, n)) = n
<1>1. ASSUME NEW i \in 1 .. n PROVE m.pool[p[1]].pool[p[2] + i - 1] \in Byte
  <2>1. p[2] + i - 1 \in p[2] .. p[2] + n - 1
    OBVIOUS
  <2>2. <<p[1], p[2] + i - 1>> \in Used(m)
    BY <2>1 DEF Span, Bytes_
  <2>3. p[1] \in DOMAIN m.pool /\ p[2] + i - 1 \in Cells(m.pool[p[1]])
    BY <2>2, UsedIs
  <2> QED
    BY <2>3 DEF Cells, ArePools, AreRaw, IsRaw
<1> QED
  BY <1>1 DEF Read

(* What tells that s is at p.                                              *)
LEMMA StoredIs ==
  ASSUME NEW m, NEW r, NEW p, NEW s,
         \A k \in DOMAIN m.pool : k # p[1] => r.pool[k] = m.pool[k],
         p[1] \in DOMAIN m.pool => \A j \in Cells(m.pool[p[1]]) :
           j \notin p[2] .. p[2] + Len(s) - 1 => r.pool[p[1]].pool[j] = m.pool[p[1]].pool[j],
         \A i \in 1 .. Len(s) : r.pool[p[1]].pool[p[2] + i - 1] = s[i]
  PROVE  Stored(m, r, p, s)
<1>1. ASSUME NEW a \in Used(m) \ Span(p, Len(s)) PROVE Cell(r, a) = Cell(m, a)
  <2>1. a = <<a[1], a[2]>> /\ a[1] \in DOMAIN m.pool /\ a[2] \in Cells(m.pool[a[1]])
    BY UsedPairs
  <2>2. CASE a[1] = p[1]
    <3>1. a[2] \notin p[2] .. p[2] + Len(s) - 1
      BY <2>1, <2>2 DEF Span, Bytes_
    <3> QED
      BY <2>1, <2>2, <3>1 DEF Cell
  <2>3. CASE a[1] # p[1]
    BY <2>1, <2>3 DEF Cell
  <2> QED
    BY <2>2, <2>3
<1>2. Holds(r, p, s)
  BY DEF Holds, Cell, At
<1> QED
  BY <1>1, <1>2 DEF Stored, Keeps

(* Bytes in use are written over.                                          *)
LEMMA WrittenOver ==
  ASSUME NEW m, ArePools(m), NEW p, p[2] \in Nat,
         NEW s \in Seq(Byte), Span(p, Len(s)) \subseteq Used(m),
         p[1] \in DOMAIN m.pool, p[2] + Len(s) <= m.pool[p[1]].size,
         NEW r, r = Write(m, p, s)
  PROVE  ArePools(r) /\ Used(r) = Used(m) /\ Stored(m, r, p, s)
<1> DEFINE id == p[1]
           cp == m.pool[id]
<1>1. Len(s) \in Nat
  OBVIOUS
<1>2. \A j \in p[2] .. p[2] + Len(s) - 1 : id \in DOMAIN m.pool /\ j \in Cells(cp)
  BY UsedIs DEF Span, Bytes_
<1>3. id \in DOMAIN m.pool
  OBVIOUS
<1>4. cp.size \in Nat /\ AreRaw(m) /\ IsPool(cp)
  BY <1>3 DEF ArePools, AreRaw, IsRaw
<1>5. p[2] + Len(s) <= cp.size /\ s \in Seq(Byte \cup {Nul})
  OBVIOUS
<1>6. /\ AreRaw(r) /\ DOMAIN r.pool = DOMAIN m.pool
      /\ r.list = m.list /\ r.free = m.free /\ r.allocated = m.allocated
      /\ \A k \in DOMAIN m.pool : k # id => r.pool[k] = m.pool[k]
      /\ r.pool[id].size = cp.size /\ r.pool[id].first_used = cp.first_used
      /\ r.pool[id].last_used = cp.last_used /\ r.pool[id].pool = Copied(cp, p[2], s)
  <2>1. p[1] \in DOMAIN m.pool /\ p[2] + Len(s) <= m.pool[p[1]].size
    BY <1>3, <1>5
  <2>2. Wrote(m, p, s, r)
    BY <1>4, <1>5, <2>1, WriteIs
  <2> QED
    BY <2>2 DEF Wrote
<1>7. \A j \in 0 .. cp.size - 1 : r.pool[id].pool[j] # Nul <=> cp.pool[j] # Nul
  <2> TAKE j \in 0 .. cp.size - 1
  <2>1. CASE j \in p[2] .. p[2] + Len(s) - 1
    <3>1. s[j - p[2] + 1] \in Byte
      BY <1>1, <2>1
    <3>2. cp.pool[j] # Nul
      BY <1>2, <2>1 DEF Cells
    <3>3. r.pool[id].pool[j] = s[j - p[2] + 1]
      BY <1>6, <2>1 DEF Copied
    <3> QED
      BY <3>1, <3>2, <3>3, ByteAssumption
  <2>2. CASE j \notin p[2] .. p[2] + Len(s) - 1
    BY <1>6, <2>2 DEF Copied
  <2> QED
    BY <2>1, <2>2
<1>8. Cells(r.pool[id]) = Cells(cp)
  BY <1>6, <1>7 DEF Cells
<1>9. IsPool(r.pool[id])
  <2>1. IsRaw(r.pool[id])
    BY <1>3, <1>6 DEF AreRaw
  <2>2. assert_char_pool(r.pool[id])
    <3> DEFINE x == cp.first_used
               y == cp.last_used
               rp == r.pool[id]
    <3>1. /\ x \in 0 .. y /\ y < cp.size /\ cp.size \in Nat /\ x \in Int /\ y \in Int
          /\ cp.pool[x] # Nul /\ cp.pool[y] # Nul
          /\ \A j \in 0 .. cp.size - 1 : cp.pool[j] # Nul => j \in x .. y
      BY <1>4 DEF IsPool, IsRaw, assert_char_pool
    <3>2. rp.first_used = x /\ rp.last_used = y /\ rp.size = cp.size
      BY <1>6
    <3>3. \A j \in 0 .. cp.size - 1 : rp.pool[j] # Nul <=> cp.pool[j] # Nul
      BY <1>7
    <3> HIDE DEF x, y, rp, cp
    <3>4. x \in 0 .. cp.size - 1 /\ y \in 0 .. cp.size - 1
      BY ONLY <3>1
    <3>5. rp.pool[x] # Nul /\ rp.pool[y] # Nul
      BY ONLY <3>1, <3>3, <3>4
    <3>6. assert_char_pool(rp)
      BY ONLY <3>1, <3>2, <3>3, <3>5 DEF assert_char_pool
    <3> QED
      BY ONLY <3>6 DEF rp
  <2> QED
    BY <2>1, <2>2 DEF IsPool
<1>10. OnlyPool(m, id, r)
  BY <1>3, <1>6, <1>9 DEF OnlyPool, ArePools
<1>11. m.free \in Int
  BY DEF ArePools
<1>12. IsFiniteSet({}) /\ Cardinality({}) = 0
  BY FS_EmptySet
<1>13. r.free = m.free - Cardinality({}) /\ {} \cap Cells(cp) = {} /\ Cells(r.pool[id]) = Cells(cp) \cup {}
  BY <1>6, <1>8, <1>11, <1>12
<1>14. Gives(m, r, Bytes_(id, {}))
  BY <1>3, <1>10, <1>12, <1>13, PoolGrown
<1>15. \A j \in 0 .. cp.size - 1 :
         r.pool[id].pool[j] = IF j \in p[2] .. p[2] + Len(s) - 1 THEN s[j - p[2] + 1] ELSE cp.pool[j]
  BY <1>6 DEF Copied
<1>16. \A i \in 1 .. Len(s) : r.pool[id].pool[p[2] + i - 1] = s[i]
  <2> TAKE i \in 1 .. Len(s)
  <2> DEFINE j == p[2] + i - 1
  <2>1. j \in p[2] .. p[2] + Len(s) - 1 /\ j \in 0 .. cp.size - 1 /\ j - p[2] + 1 = i
    BY <1>1, <1>4, <1>5
  <2> HIDE DEF j
  <2>2. r.pool[id].pool[j] = s[i]
    BY <1>15, <2>1
  <2> QED
    BY <2>2 DEF j
<1>17. \A j \in Cells(cp) : j \notin p[2] .. p[2] + Len(s) - 1 => r.pool[id].pool[j] = cp.pool[j]
  BY <1>15 DEF Cells
<1>18. Stored(m, r, p, s)
  BY <1>6, <1>16, <1>17, StoredIs
<1> QED
  BY <1>14, <1>18 DEF Bytes_, Gives
-----------------------------------------------------------------------------
(* The list of the pools: a new pool, and one that goes.                   *)
LEMMA ListGrown ==
  ASSUME NEW ids, NEW list, IsList(list, ids), NEW id, id \notin ids
  PROVE  IsList(<<id>> \o list, ids \cup {id})
<1> DEFINE T == ids \cup {id}
           l == <<id>> \o list
<1>1. list \in Seq(T) /\ <<id>> \in Seq(T) /\ Len(<<id>>) = 1 /\ <<id>>[1] = id
  BY DEF IsList
<1>2. Len(list) \in Nat
  BY <1>1
<1>3. l \in Seq(T) /\ Len(l) = Len(list) + 1
  BY <1>1, <1>2, ConcatProperties
<1>4. l[1] = id /\ \A j \in 1 .. Len(list) : l[j + 1] = list[j]
  <2>1. \A j \in 1 .. Len(list) + 1 : l[j] = IF j <= 1 THEN <<id>>[j] ELSE list[j - 1]
    BY <1>1, <1>2, ConcatProperties
  <2>2. \A j \in 1 .. Len(list) : j + 1 \in 1 .. Len(list) + 1 /\ ~(j + 1 <= 1) /\ (j + 1) - 1 = j
    BY <1>2
  <2> QED
    BY <1>1, <1>2, <2>1, <2>2
<1>5. \A j \in 1 .. Len(l) : j # 1 => \E k \in 1 .. Len(list) : j = k + 1 /\ l[j] = list[k]
  <2> TAKE j \in 1 .. Len(l)
  <2>1. j # 1 => j - 1 \in 1 .. Len(list) /\ j = (j - 1) + 1
    BY <1>2, <1>3
  <2> QED
    BY <1>4, <2>1
<1> HIDE DEF l
<1>6. \A k \in T : \E j \in 1 .. Len(l) : l[j] = k
  <2> TAKE k \in T
  <2>1. CASE k = id
    <3>1. 1 \in 1 .. Len(l)
      BY <1>2, <1>3
    <3> QED
      BY <1>4, <2>1, <3>1
  <2>2. CASE k \in ids
    <3>1. PICK j \in 1 .. Len(list) : list[j] = k
      BY <2>2 DEF IsList
    <3>2. j + 1 \in 1 .. Len(l) /\ l[j + 1] = k
      BY <1>2, <1>3, <1>4, <3>1
    <3> QED
      BY <3>2
  <2> QED
    BY <2>1, <2>2
<1>7. \A j \in 1 .. Len(list) : list[j] \in ids
  BY DEF IsList
<1>8. \A i, j \in 1 .. Len(l) : l[i] = l[j] => i = j
  <2> SUFFICES ASSUME NEW i \in 1 .. Len(l), NEW j \in 1 .. Len(l), l[i] = l[j] PROVE i = j
    OBVIOUS
  <2>1. CASE i = 1
    BY <1>4, <1>5, <1>7, <2>1
  <2>2. CASE j = 1
    BY <1>4, <1>5, <1>7, <2>2
  <2>3. CASE i # 1 /\ j # 1
    <3>1. PICK a \in 1 .. Len(list) : i = a + 1 /\ l[i] = list[a]
      BY <1>5, <2>3
    <3>2. PICK b \in 1 .. Len(list) : j = b + 1 /\ l[j] = list[b]
      BY <1>5, <2>3
    <3>3. a = b
      BY <3>1, <3>2 DEF IsList
    <3> QED
      BY <3>1, <3>2, <3>3
  <2> QED
    BY <2>1, <2>2, <2>3
<1> QED
  BY <1>3, <1>6, <1>8 DEF IsList, l

(* The other way round, at any place.                                      *)
LEMMA ListShrunk ==
  ASSUME NEW ids, NEW list, IsList(list, ids), NEW i \in 1 .. Len(list)
  PROVE  IsList(RemoveAt(list, i), ids \ {list[i]})
<1> DEFINE l == RemoveAt(list, i)
           T == ids \ {list[i]}
<1>1. list \in Seq(ids) /\ Len(list) \in Nat
  BY DEF IsList
<1>2. l = [j \in 1 .. Len(list) - 1 |-> IF j < i THEN list[j] ELSE list[j + 1]]
  BY <1>1, Removed
<1> HIDE DEF l
<1>3. \A j \in 1 .. Len(list) - 1 : \E k \in 1 .. Len(list) :
        l[j] = list[k] /\ k # i /\ j = IF k < i THEN k ELSE k - 1
  <2> TAKE j \in 1 .. Len(list) - 1
  <2>1. CASE j < i
    BY <1>1, <1>2, <2>1
  <2>2. CASE ~(j < i)
    <3>1. j + 1 \in 1 .. Len(list) /\ j + 1 # i /\ ~(j + 1 < i) /\ j = (j + 1) - 1
      BY <1>1, <2>2
    <3> QED
      BY <1>2, <2>2, <3>1
  <2> QED
    BY <2>1, <2>2
<1>4. \A k \in 1 .. Len(list) : k # i => \E j \in 1 .. Len(list) - 1 : l[j] = list[k]
  <2> TAKE k \in 1 .. Len(list)
  <2>1. CASE k < i
    BY <1>1, <1>2, <2>1
  <2>2. CASE k > i
    <3>1. k - 1 \in 1 .. Len(list) - 1 /\ ~(k - 1 < i) /\ (k - 1) + 1 = k
      BY <1>1, <2>2
    <3> QED
      BY <1>2, <3>1
  <2> QED
    BY <2>1, <2>2
<1>5. \A a, b \in 1 .. Len(list) : list[a] = list[b] => a = b
  BY DEF IsList
<1>6. \A j \in 1 .. Len(list) - 1 : l[j] \in T
  BY <1>1, <1>3, <1>5
<1>7. Len(list) - 1 \in Nat
  BY <1>1
<1>8. Len(l) = Len(list) - 1 /\ l = [j \in 1 .. Len(list) - 1 |-> l[j]]
  BY <1>2, <1>7
<1>9. l \in Seq(T)
  <2>1. l \in [1 .. Len(list) - 1 -> T]
    BY <1>6, <1>8
  <2> QED
    BY <1>7, <2>1
<1>10. \A k \in T : \E j \in 1 .. Len(l) : l[j] = k
  <2> TAKE k \in T
  <2>1. PICK a \in 1 .. Len(list) : list[a] = k
    BY DEF IsList
  <2> QED
    BY <1>4, <1>8, <2>1
<1>11. \A a, b \in 1 .. Len(l) : l[a] = l[b] => a = b
  <2> SUFFICES ASSUME NEW a \in 1 .. Len(l), NEW b \in 1 .. Len(l), l[a] = l[b] PROVE a = b
    OBVIOUS
  <2>1. PICK c \in 1 .. Len(list) : l[a] = list[c] /\ a = IF c < i THEN c ELSE c - 1
    BY <1>3, <1>8
  <2>2. PICK d \in 1 .. Len(list) : l[b] = list[d] /\ b = IF d < i THEN d ELSE d - 1
    BY <1>3, <1>8
  <2>3. c = d
    BY <1>5, <2>1, <2>2
  <2> QED
    BY <2>1, <2>2, <2>3
<1> QED
  BY <1>9, <1>10, <1>11 DEF IsList, l

(* The pool that gives the bytes goes to the head.                         *)
LEMMA ListMoved ==
  ASSUME NEW ids, NEW list, IsList(list, ids), NEW i \in 1 .. Len(list)
  PROVE  IsList(<<list[i]>> \o RemoveAt(list, i), ids)
<1> DEFINE l == RemoveAt(list, i)
           k == list[i]
<1>1. k \in ids
  BY DEF IsList
<1>2. IsList(l, ids \ {k})
  BY ListShrunk
<1> HIDE DEF l, k
<1>3. IsList(<<k>> \o l, (ids \ {k}) \cup {k})
  BY <1>2, ListGrown
<1>4. (ids \ {k}) \cup {k} = ids
  BY <1>1
<1> QED
  BY <1>3, <1>4 DEF l, k
-----------------------------------------------------------------------------
(* A new pool, when the bytes it was asked for have been copied in it.     *)
LEMMA NewPoolGives ==
  ASSUME NEW m, ArePools(m), NEW n \in Nat \ {0}, PoolIds \ DOMAIN m.pool # {},
         NEW s \in Seq(Byte), Len(s) = n,
         NEW g, g = NewPool(m, n), NEW r, r = Write(g.mem, g.at, s)
  PROVE  /\ Gives(m, r, Span(g.at, n)) /\ g.at[1] \in PoolIds /\ g.at[2] \in Nat
         /\ Stored(m, r, g.at, s)
<1> DEFINE id   == Min(PoolIds \ DOMAIN m.pool)
           size == Max({n, STD_POOL_SIZE})
           cp   == [size |-> size, first_used |-> 0, last_used |-> n - 1,
                    pool |-> [j \in 0 .. size - 1 |-> Nul]]
<1>1. id \in PoolIds /\ id \notin DOMAIN m.pool
  <2>1. PoolIds \ DOMAIN m.pool \subseteq Nat
    BY DEF PoolIds
  <2> QED
    BY <2>1, MinIs
<1>2. size \in Nat /\ size >= n
  <2>1. /\ {n, STD_POOL_SIZE} \subseteq Int /\ {n, STD_POOL_SIZE} # {} /\ n + STD_POOL_SIZE \in Int
        /\ \A y \in {n, STD_POOL_SIZE} : y <= n + STD_POOL_SIZE
    BY PoolAssumption
  <2>2. size \in {n, STD_POOL_SIZE} /\ \A y \in {n, STD_POOL_SIZE} : y <= size
    BY ONLY <2>1, MaxIs
  <2> QED
    BY <2>2, PoolAssumption
<1>3. /\ AreRaw(m) /\ DOMAIN m.pool \subseteq PoolIds /\ IsList(m.list, DOMAIN m.pool)
      /\ m.free \in Int /\ m.allocated \in Int
      /\ IsFiniteSet(Used(m)) /\ m.allocated - m.free = Cardinality(Used(m))
      /\ \A k \in DOMAIN m.pool : IsPool(m.pool[k])
  BY DEF ArePools
<1> DEFINE more == [k \in DOMAIN m.pool \cup {id} |-> IF k = id THEN cp ELSE m.pool[k]]
<1>4. g = [mem |-> [pool |-> more, list |-> <<id>> \o m.list,
                    free |-> m.free + size - n, allocated |-> m.allocated + size],
           at  |-> <<id, 0>>]
  BY DEF NewPool
<1> HIDE DEF id, size, more
<1> DEFINE q == g.mem
<1>25. q = [pool |-> more, list |-> <<id>> \o m.list,
            free |-> m.free + size - n, allocated |-> m.allocated + size]
  BY <1>4
<1>26. g.at = <<id, 0>>
  BY <1>4
<1> HIDE DEF q
<1>5. /\ q = [pool |-> q.pool, list |-> q.list, free |-> q.free, allocated |-> q.allocated]
      /\ q.list = <<id>> \o m.list /\ q.free = m.free + size - n /\ q.allocated = m.allocated + size
      /\ q.pool = more
      /\ g.at = <<id, 0>> /\ g.at[1] = id /\ g.at[2] = 0
  BY <1>25, <1>26
<1> HIDE DEF cp
<1> USE DEF more
<1>6. /\ DOMAIN q.pool = DOMAIN m.pool \cup {id}
      /\ q.pool = [k \in DOMAIN q.pool |-> q.pool[k]]
      /\ q.pool[id] = cp /\ \A k \in DOMAIN m.pool : q.pool[k] = m.pool[k]
  BY <1>1, <1>5
<1>7. /\ cp = [size |-> size, first_used |-> cp.first_used, last_used |-> cp.last_used, pool |-> cp.pool]
      /\ cp.size = size /\ cp.first_used = 0 /\ cp.last_used = n - 1
      /\ cp.pool = [j \in 0 .. size - 1 |-> Nul]
  BY DEF cp
<1> HIDE DEF more
<1>8. IsRaw(cp)
  <2>1. cp.pool \in [0 .. size - 1 -> Byte \cup {Nul}]
    BY <1>7
  <2> QED
    BY <1>2, <1>7, <2>1 DEF IsRaw
<1>9. AreRaw(q)
  <2>1. \A k \in DOMAIN q.pool : IsRaw(q.pool[k])
    BY <1>3, <1>6, <1>8 DEF AreRaw
  <2> QED
    BY <1>5, <1>6, <2>1 DEF AreRaw
<1>10. Wrote(q, g.at, s, r)
  <2>1. g.at[1] \in DOMAIN q.pool /\ g.at[2] \in Nat
    BY <1>5, <1>6
  <2>2. g.at[2] + Len(s) <= q.pool[g.at[1]].size /\ s \in Seq(Byte \cup {Nul})
    BY <1>2, <1>5, <1>6, <1>7
  <2>3. r = Write(q, g.at, s)
    BY DEF q
  <2> QED
    BY <1>9, <2>1, <2>2, <2>3, WriteIs
<1>11. /\ AreRaw(r) /\ DOMAIN r.pool = DOMAIN m.pool \cup {id}
       /\ r.list = <<id>> \o m.list /\ r.free = m.free + size - n /\ r.allocated = m.allocated + size
       /\ \A k \in DOMAIN m.pool : r.pool[k] = m.pool[k]
       /\ r.pool[id].size = size /\ r.pool[id].first_used = 0 /\ r.pool[id].last_used = n - 1
       /\ r.pool[id].pool = Copied(cp, 0, s)
  <2>1. Wrote(q, <<id, 0>>, s, r)
    BY <1>10, <1>26
  <2>2. <<id, 0>>[1] = id /\ <<id, 0>>[2] = 0
    OBVIOUS
  <2>3. /\ AreRaw(r) /\ DOMAIN r.pool = DOMAIN q.pool
        /\ r.list = q.list /\ r.free = q.free /\ r.allocated = q.allocated
        /\ \A k \in DOMAIN q.pool : k # id => r.pool[k] = q.pool[k]
        /\ r.pool[id].size = q.pool[id].size
        /\ r.pool[id].first_used = q.pool[id].first_used
        /\ r.pool[id].last_used = q.pool[id].last_used
        /\ r.pool[id].pool = Copied(q.pool[id], 0, s)
    BY <2>1, <2>2 DEF Wrote
  <2>4. AreRaw(r) /\ DOMAIN r.pool = DOMAIN m.pool \cup {id}
    BY <1>6, <2>3
  <2>5. r.list = <<id>> \o m.list /\ r.free = m.free + size - n /\ r.allocated = m.allocated + size
    BY <1>5, <2>3
  <2>6. \A k \in DOMAIN m.pool : r.pool[k] = m.pool[k]
    BY <1>1, <1>6, <2>3
  <2>7. /\ r.pool[id].size = cp.size /\ r.pool[id].first_used = cp.first_used
        /\ r.pool[id].last_used = cp.last_used
        /\ r.pool[id].pool = Copied(cp, 0, s)
    BY <1>6, <2>3
  <2> QED
    BY <1>7, <2>4, <2>5, <2>6, <2>7
<1>12. \A j \in 0 .. size - 1 : r.pool[id].pool[j] # Nul <=> j < n
  <2> TAKE j \in 0 .. size - 1
  <2>1. CASE j < n
    <3>1. s[j + 1] \in Byte
      BY <2>1
    <3>2. r.pool[id].pool[j] = s[j + 1]
      BY <1>7, <1>11, <2>1 DEF Copied
    <3> QED
      BY <2>1, <3>1, <3>2, ByteAssumption
  <2>2. CASE ~(j < n)
    BY <1>2, <1>7, <1>11, <2>2 DEF Copied
  <2> QED
    BY <2>1, <2>2
<1>13. Cells(r.pool[id]) = 0 .. n - 1
  BY <1>2, <1>11, <1>12 DEF Cells
<1>14. IsPool(r.pool[id])
  <2>1. IsRaw(r.pool[id])
    BY <1>11 DEF AreRaw
  <2>2. assert_char_pool(r.pool[id])
    BY <1>2, <1>11, <1>12 DEF assert_char_pool
  <2> QED
    BY <2>1, <2>2 DEF IsPool
<1> DEFINE V == Bytes_(id, 0 .. n - 1)
<1>15. IsFiniteSet(V) /\ Cardinality(V) = n
  <2>1. IsFiniteSet(0 .. n - 1) /\ Cardinality(0 .. n - 1) = n
    BY FS_Interval
  <2> QED
    BY <2>1, BytesCount
<1>16. Used(m) \cap V = {}
  BY <1>1, UsedIs DEF Bytes_
<1>17. Used(r) = Used(m) \cup V
  <2>1. ASSUME NEW a \in Used(r) PROVE a \in Used(m) \cup V
    <3>1. a = <<a[1], a[2]>> /\ a[1] \in DOMAIN r.pool /\ a[2] \in Cells(r.pool[a[1]])
      BY UsedPairs
    <3>2. CASE a[1] = id
      BY <1>13, <3>1, <3>2 DEF Bytes_
    <3>3. CASE a[1] # id
      BY <1>11, <3>1, <3>3, UsedIs
    <3> QED
      BY <3>2, <3>3
  <2>2. ASSUME NEW a \in Used(m) PROVE a \in Used(r)
    <3>1. a = <<a[1], a[2]>> /\ a[1] \in DOMAIN m.pool /\ a[2] \in Cells(m.pool[a[1]])
      BY UsedPairs
    <3>2. a[2] \in Cells(r.pool[a[1]]) /\ a[1] \in DOMAIN r.pool
      BY <1>11, <3>1
    <3> QED
      BY <3>1, <3>2, UsedIs
  <2>3. ASSUME NEW a \in V PROVE a \in Used(r)
    BY <1>11, <1>13, UsedIs DEF Bytes_
  <2> QED
    BY <2>1, <2>2, <2>3
<1>18. /\ IsFiniteSet(Used(r)) /\ Cardinality(Used(r)) = Cardinality(Used(m)) + n
       /\ Cardinality(Used(m)) \in Nat
  BY <1>3, <1>15, <1>16, <1>17, CountAdded
<1>19. r.free \in Int /\ r.allocated \in Int /\ r.allocated - r.free = Cardinality(Used(r))
  BY <1>2, <1>3, <1>11, <1>18
<1>20. IsList(r.list, DOMAIN r.pool)
  BY <1>1, <1>3, <1>11, ListGrown
<1>21. ArePools(r)
  BY <1>1, <1>3, <1>11, <1>14, <1>18, <1>19, <1>20 DEF ArePools
<1>22. V = Span(g.at, n)
  BY <1>5 DEF Span
<1> HIDE DEF V
<1>23. Gives(m, r, V)
  BY <1>16, <1>17, <1>21 DEF Gives
<1>24. g.at[1] \in PoolIds /\ g.at[2] \in Nat
  BY <1>1, <1>5
<1>27. \A i \in 1 .. Len(s) : r.pool[id].pool[0 + i - 1] = s[i]
  <2> TAKE i \in 1 .. Len(s)
  <2>1. i - 1 \in 0 .. 0 + Len(s) - 1 /\ i - 1 \in 0 .. size - 1 /\ (i - 1) - 0 + 1 = i /\ 0 + i - 1 = i - 1
    BY <1>2
  <2> QED
    BY <1>7, <1>11, <2>1 DEF Copied
<1>28. Stored(m, r, g.at, s)
  <2>1. \A k \in DOMAIN m.pool : k # g.at[1] => r.pool[k] = m.pool[k]
    BY <1>11
  <2>2. g.at[1] \notin DOMAIN m.pool
    BY <1>1, <1>5
  <2>3. \A i \in 1 .. Len(s) : r.pool[g.at[1]].pool[g.at[2] + i - 1] = s[i]
    BY <1>5, <1>27
  <2> QED
    BY <2>1, <2>2, <2>3, StoredIs
<1> QED
  BY <1>22, <1>23, <1>24, <1>28
-----------------------------------------------------------------------------
(* q is m with new bounds for pool id, ahead of a copy of s at offset a.   *)
Claimed(m, q, id, f, l) ==
  /\ q = [pool |-> q.pool, list |-> q.list, free |-> q.free, allocated |-> q.allocated]
  /\ q.pool = [k \in DOMAIN m.pool |-> q.pool[k]]
  /\ \A k \in DOMAIN m.pool : k # id => q.pool[k] = m.pool[k]
  /\ q.pool[id] = [size |-> m.pool[id].size, first_used |-> f, last_used |-> l, pool |-> m.pool[id].pool]
  /\ IsList(q.list, DOMAIN m.pool)
  /\ q.free \in Int /\ q.allocated = m.allocated

(* The bytes that were not in use and are written are given out, when the  *)
(* bounds have been moved as far as the copy goes.                         *)
LEMMA Placed ==
  ASSUME NEW m, ArePools(m), NEW id \in DOMAIN m.pool, NEW a \in Nat,
         NEW s \in Seq(Byte), s # <<>>, a + Len(s) <= m.pool[id].size,
         NEW D, D = (a .. a + Len(s) - 1) \ Cells(m.pool[id]),
         NEW f, f = IF a < m.pool[id].first_used THEN a ELSE m.pool[id].first_used,
         NEW l, l = IF a + Len(s) - 1 > m.pool[id].last_used THEN a + Len(s) - 1 ELSE m.pool[id].last_used,
         NEW q, Claimed(m, q, id, f, l), q.free = m.free - Cardinality(D),
         NEW r, r = Write(q, <<id, a>>, s)
  PROVE  Gives(m, r, Bytes_(id, D)) /\ id \in PoolIds /\ Stored(m, r, <<id, a>>, s)
<1> DEFINE cp == m.pool[id]
<1>1. Len(s) \in Nat \ {0}
  OBVIOUS
<1>2. AreRaw(m) /\ id \in PoolIds /\ IsPool(cp)
  BY DEF ArePools
<1>3. /\ cp = [size |-> cp.size, first_used |-> cp.first_used, last_used |-> cp.last_used, pool |-> cp.pool]
      /\ cp.size \in Nat /\ cp.pool \in [0 .. cp.size - 1 -> Byte \cup {Nul}]
      /\ cp.first_used \in 0 .. cp.last_used /\ cp.last_used < cp.size /\ cp.last_used \in Int
      /\ cp.pool[cp.first_used] # Nul /\ cp.pool[cp.last_used] # Nul
      /\ \A j \in 0 .. cp.size - 1 : cp.pool[j] # Nul => j \in cp.first_used .. cp.last_used
  BY <1>2 DEF IsPool, IsRaw, assert_char_pool
<1> DEFINE c == q.pool[id]
<1>4. /\ c = [size |-> c.size, first_used |-> c.first_used, last_used |-> c.last_used, pool |-> c.pool]
      /\ c.size = cp.size /\ c.first_used = f /\ c.last_used = l /\ c.pool = cp.pool
  <2>1. c = [size |-> cp.size, first_used |-> f, last_used |-> l, pool |-> cp.pool]
    BY DEF Claimed
  <2> HIDE DEF c
  <2> QED
    BY <2>1
<1> HIDE DEF c
<1>5. f \in Int /\ l \in Int
  BY <1>1, <1>3
<1>6. IsRaw(c)
  BY <1>3, <1>4, <1>5 DEF IsRaw
<1>7. AreRaw(q)
  <2>1. \A k \in DOMAIN m.pool : IsRaw(q.pool[k])
    BY <1>2, <1>6 DEF AreRaw, Claimed, c
  <2> QED
    BY <2>1 DEF AreRaw, Claimed
<1>8. Wrote(q, <<id, a>>, s, r)
  <2>1. <<id, a>>[1] \in DOMAIN q.pool /\ <<id, a>>[2] \in Nat
    BY DEF Claimed
  <2>2. <<id, a>>[2] + Len(s) <= q.pool[<<id, a>>[1]].size /\ s \in Seq(Byte \cup {Nul})
    BY <1>4 DEF c
  <2> QED
    BY <1>7, <2>1, <2>2, WriteIs
<1>9. /\ AreRaw(r) /\ DOMAIN r.pool = DOMAIN q.pool
      /\ r.list = q.list /\ r.free = q.free /\ r.allocated = q.allocated
      /\ \A k \in DOMAIN q.pool : k # id => r.pool[k] = q.pool[k]
      /\ r.pool[id].size = c.size /\ r.pool[id].first_used = c.first_used
      /\ r.pool[id].last_used = c.last_used
      /\ r.pool[id].pool = Copied(c, a, s)
  <2>1. <<id, a>>[1] = id /\ <<id, a>>[2] = a
    OBVIOUS
  <2> QED
    BY <1>8, <2>1 DEF Wrote, c
<1>10. DOMAIN q.pool = DOMAIN m.pool
  BY DEF Claimed
<1> DEFINE d == r.pool[id]
           A == a .. a + Len(s) - 1
<1>11. /\ d.size = cp.size /\ d.first_used = f /\ d.last_used = l
       /\ \A j \in 0 .. cp.size - 1 : d.pool[j] = IF j \in A THEN s[j - a + 1] ELSE cp.pool[j]
  <2>1. d.size = c.size /\ d.first_used = c.first_used /\ d.last_used = c.last_used /\ d.pool = Copied(c, a, s)
    BY <1>9
  <2> HIDE DEF cp, d
  <2>2. Copied(c, a, s) = [j \in 0 .. cp.size - 1 |-> IF j \in A THEN s[j - a + 1] ELSE cp.pool[j]]
    BY <1>4 DEF Copied
  <2> QED
    BY <1>4, <2>1, <2>2
<1> HIDE DEF d
<1>12. \A j \in A : j \in 0 .. cp.size - 1 /\ s[j - a + 1] \in Byte /\ s[j - a + 1] # Nul
  <2> TAKE j \in A
  <2>1. j - a + 1 \in 1 .. Len(s) /\ j \in 0 .. cp.size - 1
    BY <1>1, <1>3
  <2> QED
    BY <2>1, ByteAssumption
<1>13. \A j \in 0 .. cp.size - 1 : d.pool[j] # Nul <=> j \in A \/ cp.pool[j] # Nul
  BY <1>11, <1>12
<1>14. Cells(d) = Cells(cp) \cup D
  BY <1>11, <1>12, <1>13 DEF Cells
<1>15. IsPool(d)
  <2>1. IsRaw(d)
    BY <1>9, <1>10 DEF AreRaw, d
  <2>2. f \in 0 .. l /\ l < cp.size
    BY <1>1, <1>3
  <2>3. d.pool[f] # Nul /\ d.pool[l] # Nul
    <3>1. f \in A \/ f = cp.first_used
      BY <1>1, <1>3
    <3>2. l \in A \/ l = cp.last_used
      BY <1>1, <1>3
    <3>3. f \in 0 .. cp.size - 1 /\ l \in 0 .. cp.size - 1
      BY <1>3, <1>5, <2>2
    <3> QED
      BY <1>3, <1>13, <3>1, <3>2, <3>3
  <2>4. ASSUME NEW j \in 0 .. cp.size - 1, d.pool[j] # Nul PROVE j \in f .. l
    <3>1. j \in A \/ j \in cp.first_used .. cp.last_used
      BY <1>3, <1>13, <2>4
    <3>2. a \in Int /\ Len(s) \in Int /\ cp.first_used \in Int /\ cp.last_used \in Int /\ j \in Int
      BY <1>1, <1>3
    <3> QED
      BY <3>1, <3>2
  <2>5. assert_char_pool(d)
    BY <1>11, <2>2, <2>3, <2>4 DEF assert_char_pool
  <2> QED
    BY <2>1, <2>5 DEF IsPool
<1>16. OnlyPool(m, id, r)
  <2>1. \A k \in DOMAIN m.pool : k # id => r.pool[k] = m.pool[k]
    BY <1>9, <1>10 DEF Claimed
  <2>2. IsList(r.list, DOMAIN m.pool) /\ r.free \in Int /\ r.allocated = m.allocated
    BY <1>9 DEF Claimed
  <2> QED
    BY <1>9, <1>10, <1>15, <2>1, <2>2 DEF OnlyPool, d
<1>17. IsFiniteSet(D)
  <2>1. IsFiniteSet(A)
    BY <1>1, FS_Interval
  <2> QED
    BY <2>1, FS_Subset
<1>18. D \cap Cells(cp) = {} /\ Cells(r.pool[id]) = Cells(cp) \cup D /\ r.free = m.free - Cardinality(D)
  BY <1>9, <1>14 DEF d
<1>19. \A i \in 1 .. Len(s) : r.pool[id].pool[a + i - 1] = s[i]
  <2> TAKE i \in 1 .. Len(s)
  <2>1. a + i - 1 \in A /\ a + i - 1 \in 0 .. cp.size - 1 /\ (a + i - 1) - a + 1 = i
    BY <1>1, <1>3
  <2> QED
    BY <1>11, <2>1 DEF d
<1>20. \A j \in Cells(m.pool[id]) : j \notin A => r.pool[id].pool[j] = m.pool[id].pool[j]
  BY <1>11 DEF Cells, d
<1>21. <<id, a>>[1] = id /\ <<id, a>>[2] = a
  OBVIOUS
<1>22. \A k \in DOMAIN m.pool : k # id => r.pool[k] = m.pool[k]
  BY <1>16 DEF OnlyPool
<1>23. Stored(m, r, <<id, a>>, s)
  BY <1>19, <1>20, <1>21, <1>22, StoredIs
<1> QED
  BY <1>2, <1>16, <1>17, <1>18, <1>23, PoolGrown

(* Pools and a pool with some of their fields changed.                     *)
LEMMA PoolsExcept ==
  ASSUME NEW m,
         m = [pool |-> m.pool, list |-> m.list, free |-> m.free, allocated |-> m.allocated],
         NEW x, NEW y, NEW z, NEW q, q = [m EXCEPT !.pool = x, !.list = y, !.free = z]
  PROVE  q = [pool |-> x, list |-> y, free |-> z, allocated |-> m.allocated]
<1> DEFINE D == {"pool", "list", "free", "allocated"}
<1>1. DOMAIN m = D
  <2>1. m = [k \in D |-> m[k]]
    OBVIOUS
  <2> QED
    BY <2>1
<1>2. q = [k \in D |-> IF k = "free" THEN z ELSE IF k = "list" THEN y ELSE IF k = "pool" THEN x ELSE m[k]]
  BY <1>1
<1> QED
  BY <1>2

(* One pool.                                                               *)
LEMMA PoolExcept ==
  ASSUME NEW cp,
         cp = [size |-> cp.size, first_used |-> cp.first_used, last_used |-> cp.last_used, pool |-> cp.pool],
         NEW f, NEW l, NEW d, d = [cp EXCEPT !.first_used = f, !.last_used = l]
  PROVE  d = [size |-> cp.size, first_used |-> f, last_used |-> l, pool |-> cp.pool]
<1> DEFINE D == {"size", "first_used", "last_used", "pool"}
<1>1. DOMAIN cp = D
  <2>1. cp = [k \in D |-> cp[k]]
    OBVIOUS
  <2> QED
    BY <2>1
<1>2. d = [k \in D |-> IF k = "last_used" THEN l ELSE IF k = "first_used" THEN f ELSE cp[k]]
  BY <1>1
<1> QED
  BY <1>2

(* alloc_chars(): once the n bytes that it was asked for are stored where  *)
(* it says, they are in use, none of them was before, and every pool is as *)
(* assert_char_pool() wants it, its place in the list and the counters of  *)
(* the document included.                                                  *)
THEOREM AllocGives ==
  ASSUME NEW m, ArePools(m), NEW n \in Nat \ {0}, PoolIds \ DOMAIN m.pool # {},
         NEW s \in Seq(Byte), Len(s) = n,
         NEW g, g = alloc_chars(m, n), NEW r, r = Write(g.mem, g.at, s)
  PROVE  /\ Gives(m, r, Span(g.at, n)) /\ g.at[1] \in PoolIds /\ g.at[2] \in Nat
         /\ Stored(m, r, g.at, s)
<1>1. CASE ~HasRoom(m, n)
  <2>1. g = NewPool(m, n)
    BY <1>1 DEF alloc_chars
  <2> QED
    BY <2>1, NewPoolGives
<1>2. CASE HasRoom(m, n)
  <2> DEFINE i  == Min({j \in DOMAIN m.list : Fits(m.pool[m.list[j]], n)})
             id == m.list[i]
             cp == m.pool[id]
             f  == IF Before(cp, n) THEN cp.first_used - n ELSE cp.first_used
             l  == IF Before(cp, n) THEN cp.last_used ELSE cp.last_used + n
             a  == IF Before(cp, n) THEN cp.first_used - n ELSE cp.last_used + 1
             list == <<id>> \o RemoveAt(m.list, i)
             new == [cp EXCEPT !.first_used = f, !.last_used = l]
  <2>1. /\ AreRaw(m) /\ IsList(m.list, DOMAIN m.pool) /\ m.free \in Int
        /\ m.list \in Seq(DOMAIN m.pool) /\ DOMAIN m.list = 1 .. Len(m.list)
    BY DEF ArePools, IsList
  <2>2. i \in 1 .. Len(m.list) /\ Fits(m.pool[m.list[i]], n)
    <3> DEFINE T == {j \in DOMAIN m.list : Fits(m.pool[m.list[j]], n)}
    <3>1. PICK k \in DOMAIN m.pool : Fits(m.pool[k], n)
      BY <1>2 DEF HasRoom
    <3>2. PICK j \in 1 .. Len(m.list) : m.list[j] = k
      BY <2>1 DEF IsList
    <3>3. T # {} /\ T \subseteq Nat
      BY <2>1, <3>1, <3>2
    <3>4. Min(T) \in T
      BY <3>3, MinIs
    <3> QED
      BY <2>1, <3>4
  <2>3. g = [mem |-> [m EXCEPT
                      !.pool[id] = IF Before(cp, n) THEN [cp EXCEPT !.first_used = @ - n]
                                                    ELSE [cp EXCEPT !.last_used = @ + n],
                      !.list = <<id>> \o RemoveAt(@, i),
                      !.free = @ - n],
             at |-> <<id, IF Before(cp, n) THEN cp.first_used - n ELSE cp.last_used + 1>>]
    BY <1>2 DEF alloc_chars
  <2> HIDE DEF i
  <2>4. id \in DOMAIN m.pool /\ IsPool(cp)
    BY <2>1, <2>2 DEF ArePools
  <2> HIDE DEF id
  <2>5. /\ cp = [size |-> cp.size, first_used |-> cp.first_used, last_used |-> cp.last_used, pool |-> cp.pool]
        /\ cp.size \in Nat
        /\ cp.first_used \in 0 .. cp.last_used /\ cp.last_used < cp.size /\ cp.last_used \in Int
        /\ \A j \in 0 .. cp.size - 1 : cp.pool[j] # Nul => j \in cp.first_used .. cp.last_used
    BY <2>4 DEF IsPool, IsRaw, assert_char_pool
  <2> HIDE DEF cp
  <2> DEFINE q == [m EXCEPT !.pool[id] = new, !.list = list, !.free = m.free - n]
  <2>6. g.mem = q /\ g.at = <<id, a>>
    <3>1. (IF Before(cp, n) THEN [cp EXCEPT !.first_used = @ - n] ELSE [cp EXCEPT !.last_used = @ + n])
            = new
      <4>1. [cp EXCEPT !.first_used = @ - n] = [cp EXCEPT !.first_used = cp.first_used - n, !.last_used = cp.last_used]
        BY <2>5
      <4>2. [cp EXCEPT !.last_used = @ + n] = [cp EXCEPT !.first_used = cp.first_used, !.last_used = cp.last_used + n]
        BY <2>5
      <4> QED
        BY <4>1, <4>2
    <3> HIDE DEF new
    <3>2. g = [mem |-> [m EXCEPT !.pool[id] = new, !.list = <<id>> \o RemoveAt(@, i), !.free = @ - n],
               at |-> <<id, a>>]
      BY <2>3, <3>1
    <3> QED
      BY <3>2
  <2>7. new = [size |-> cp.size, first_used |-> f, last_used |-> l, pool |-> cp.pool]
    <3> HIDE DEF f, l
    <3>1. new = [cp EXCEPT !.first_used = f, !.last_used = l]
      OBVIOUS
    <3> HIDE DEF new
    <3> QED
      BY <2>5, <3>1, PoolExcept
  <2> HIDE DEF new, list
  <2>8. /\ q = [pool |-> q.pool, list |-> q.list, free |-> q.free, allocated |-> q.allocated]
        /\ q.pool = [m.pool EXCEPT ![id] = new] /\ q.list = list
        /\ q.free = m.free - n /\ q.allocated = m.allocated
    <3>1. m = [pool |-> m.pool, list |-> m.list, free |-> m.free, allocated |-> m.allocated]
      BY <2>1 DEF AreRaw
    <3>2. q = [m EXCEPT !.pool = [m.pool EXCEPT ![id] = new], !.list = list, !.free = m.free - n]
      OBVIOUS
    <3> HIDE DEF q
    <3>3. q = [pool |-> [m.pool EXCEPT ![id] = new], list |-> list, free |-> m.free - n, allocated |-> m.allocated]
      BY <3>1, <3>2, PoolsExcept
    <3> QED
      BY <3>3
  <2> HIDE DEF q
  <2>9. /\ q.pool = [k \in DOMAIN m.pool |-> q.pool[k]]
        /\ q.pool[id] = new /\ \A k \in DOMAIN m.pool : k # id => q.pool[k] = m.pool[k]
    <3>1. m.pool = [k \in DOMAIN m.pool |-> m.pool[k]]
      BY <2>1 DEF AreRaw
    <3> QED
      BY <2>4, <2>8, <3>1
  <2>10. IsList(list, DOMAIN m.pool)
    BY <2>1, <2>2, ListMoved DEF list, id
  <2>11. Claimed(m, q, id, f, l)
    BY <2>1, <2>7, <2>8, <2>9, <2>10 DEF Claimed, cp
  <2>12. a \in Nat /\ s # <<>> /\ a + Len(s) <= cp.size
    BY SMTT(30), <2>2, <2>5 DEF Fits, Before, cp, id
  <2>13. (a .. a + Len(s) - 1) \cap Cells(cp) = {}
    BY <2>5, <2>12 DEF Before, Cells
  <2>14. /\ f = IF a < cp.first_used THEN a ELSE cp.first_used
         /\ l = IF a + Len(s) - 1 > cp.last_used THEN a + Len(s) - 1 ELSE cp.last_used
    <3>1. n = Len(s) /\ n \in Int /\ n > 0 /\ cp.first_used \in Int /\ cp.last_used \in Int
            /\ cp.first_used <= cp.last_used
      BY <2>5
    <3>2. CASE Before(cp, n)
      BY <3>1, <3>2
    <3>3. CASE ~Before(cp, n)
      BY <3>1, <3>3
    <3> QED
      BY <3>2, <3>3
  <2> HIDE DEF f, l, a
  <2> DEFINE D == (a .. a + Len(s) - 1) \ Cells(cp)
  <2>15. D = a .. a + n - 1
    BY <2>13
  <2>16. Cardinality(D) = n
    <3>1. Cardinality(a .. a + n - 1) = n
      <4>1. a \in Int /\ a + n - 1 \in Int /\ a <= a + n - 1 /\ (a + n - 1) - a + 1 = n
        BY <2>12
      <4>2. Cardinality(a .. a + n - 1) = IF a > a + n - 1 THEN 0 ELSE (a + n - 1) - a + 1
        BY <4>1, FS_Interval
      <4> QED
        BY <4>1, <4>2
    <3> QED
      BY <2>15, <3>1
  <2> HIDE DEF D
  <2>17. Gives(m, r, Bytes_(id, D)) /\ id \in PoolIds /\ Stored(m, r, <<id, a>>, s)
    <3>1. D = (a .. a + Len(s) - 1) \ Cells(m.pool[id])
      BY DEF D, cp
    <3>2. q.free = m.free - Cardinality(D)
      BY <2>8, <2>16
    <3>3. r = Write(q, <<id, a>>, s)
      BY <2>6
    <3>4. /\ a + Len(s) <= m.pool[id].size
          /\ f = IF a < m.pool[id].first_used THEN a ELSE m.pool[id].first_used
          /\ l = IF a + Len(s) - 1 > m.pool[id].last_used THEN a + Len(s) - 1 ELSE m.pool[id].last_used
      BY <2>12, <2>14 DEF cp
    <3> QED
      BY <2>4, <2>11, <2>12, <3>1, <3>2, <3>3, <3>4, Placed
  <2>18. Bytes_(id, D) = Span(g.at, n) /\ g.at[1] = id /\ g.at[2] = a
    BY <2>6, <2>15 DEF Span
  <2> QED
    BY <2>6, <2>12, <2>17, <2>18
<1> QED
  BY <1>1, <1>2
-----------------------------------------------------------------------------
(* The free bytes before and after an offset.                              *)
LEMMA FreeBeforeIs ==
  ASSUME NEW cp, NEW j \in Nat, NEW n \in Nat, NEW k, k = FreeBefore(cp, j, n)
  PROVE  k \in 0 .. n /\ k <= j /\ \A i \in j - k .. j - 1 : cp.pool[i] = Nul
<1> DEFINE T == {x \in 0 .. n : x <= j /\ \A i \in j - x .. j - 1 : cp.pool[i] = Nul}
<1>1. 0 \in T
  OBVIOUS
<1>2. T \subseteq Int /\ T # {} /\ n \in Int /\ \A y \in T : y <= n
  BY <1>1
<1>3. k = Max(T)
  BY DEF FreeBefore
<1> HIDE DEF T
<1>4. k \in T
  BY <1>2, <1>3, MaxIs
<1> QED
  BY <1>4 DEF T

(* The other side.                                                         *)
LEMMA FreeAfterIs ==
  ASSUME NEW cp, NEW j \in Nat, cp.size \in Nat, j <= cp.size, NEW n \in Nat, NEW k, k = FreeAfter(cp, j, n)
  PROVE  k \in 0 .. n /\ j + k <= cp.size /\ \A i \in j .. j + k - 1 : cp.pool[i] = Nul
<1> DEFINE T == {x \in 0 .. n : j + x <= cp.size /\ \A i \in j .. j + x - 1 : cp.pool[i] = Nul}
<1>1. 0 \in T
  OBVIOUS
<1>2. T \subseteq Int /\ T # {} /\ n \in Int /\ \A y \in T : y <= n
  BY <1>1
<1>3. k = Max(T)
  BY DEF FreeAfter
<1> HIDE DEF T
<1>4. k \in T
  BY <1>2, <1>3, MaxIs
<1> QED
  BY <1>4 DEF T

(* A line in use and the free bytes around it, b before and a after.       *)
Around(cp, j, len, b, a) ==
  /\ b \in Nat /\ a \in Nat /\ b <= j /\ j + len + a <= cp.size
  /\ \A i \in j - b .. j - 1 : cp.pool[i] = Nul
  /\ \A i \in j + len .. j + len + a - 1 : cp.pool[i] = Nul

(* n bytes are given to a line, b before it and a after.                   *)
Found(m, p, len, n, w, b, a) ==
  /\ b + a = n /\ w.after = a /\ Around(m.pool[p[1]], p[2], len, b, a)
  /\ Claimed(m, w.mem, p[1],
             IF m.pool[p[1]].first_used = p[2] THEN p[2] - b ELSE m.pool[p[1]].first_used,
             IF m.pool[p[1]].last_used = p[2] + len - 1 THEN p[2] + len + a - 1
                                                        ELSE m.pool[p[1]].last_used)
  /\ w.mem.free = m.free - n

(* What alloc_chars_around() finds: n free bytes on the two sides, or it   *)
(* leaves all as it was.                                                   *)
LEMMA AroundIs ==
  ASSUME NEW m, ArePools(m), NEW p, p[1] \in DOMAIN m.pool, p[2] \in Nat,
         NEW len \in Nat, p[2] + len <= m.pool[p[1]].size,
         NEW n \in Nat, NEW flag \in BOOLEAN,
         NEW w, w = alloc_chars_around(m, p, len, n, flag), w.after >= 0
  PROVE  \E b, a \in 0 .. n : Found(m, p, len, n, w, b, a)
<1> DEFINE cp     == m.pool[p[1]]
           end    == p[2] + len
           first  == IF flag THEN FreeBefore(cp, p[2], n) ELSE FreeAfter(cp, end, n)
           second == IF flag THEN FreeAfter(cp, end, n - first) ELSE FreeBefore(cp, p[2], n - first)
           before == IF flag THEN first ELSE second
           after  == IF flag THEN second ELSE first
<1>1. cp.size \in Nat /\ end \in Nat /\ end <= cp.size
  BY DEF ArePools, AreRaw, IsRaw
<1>2. first \in 0 .. n /\ n - first \in Nat
  <2>1. FreeBefore(cp, p[2], n) \in 0 .. n
    BY <1>1, FreeBeforeIs
  <2>2. FreeAfter(cp, end, n) \in 0 .. n
    BY <1>1, FreeAfterIs
  <2>3. first \in 0 .. n
    BY <2>1, <2>2
  <2> HIDE DEF first
  <2> QED
    BY <2>3
<1>3. before + after <= n /\ before \in 0 .. n /\ after \in 0 .. n /\ Around(cp, p[2], len, before, after)
  <2> HIDE DEF cp
  <2>1. CASE flag
    <3>1. first = FreeBefore(cp, p[2], n) /\ second = FreeAfter(cp, end, n - first)
            /\ before = first /\ after = second
      BY <2>1
    <3> HIDE DEF first, second, before, after
    <3>2. first <= p[2] /\ \A i \in p[2] - first .. p[2] - 1 : cp.pool[i] = Nul
      BY <3>1, FreeBeforeIs
    <3>3. /\ second \in 0 .. (n - first) /\ end + second <= cp.size
          /\ \A i \in end .. end + second - 1 : cp.pool[i] = Nul
      BY <1>1, <1>2, <3>1, FreeAfterIs
    <3> QED
      BY <1>2, <3>1, <3>2, <3>3 DEF Around
  <2>2. CASE ~flag
    <3>1. first = FreeAfter(cp, end, n) /\ second = FreeBefore(cp, p[2], n - first)
            /\ before = second /\ after = first
      BY <2>2
    <3> HIDE DEF first, second, before, after
    <3>2. end + first <= cp.size /\ \A i \in end .. end + first - 1 : cp.pool[i] = Nul
      BY <1>1, <3>1, FreeAfterIs
    <3>3. /\ second \in 0 .. (n - first) /\ second <= p[2]
          /\ \A i \in p[2] - second .. p[2] - 1 : cp.pool[i] = Nul
      BY <1>2, <3>1, FreeBeforeIs
    <3> QED
      BY <1>2, <3>1, <3>2, <3>3 DEF Around
  <2> QED
    BY <2>1, <2>2
<1>4. w = IF before + after < n THEN [mem |-> m, after |-> -1]
          ELSE [mem |-> [m EXCEPT
                      !.pool[p[1]] = [cp EXCEPT
                         !.first_used = IF @ = p[2] THEN p[2] - before ELSE @,
                         !.last_used  = IF @ = end - 1 THEN end + after - 1 ELSE @],
                      !.free = @ - n],
            after |-> after]
  BY DEF alloc_chars_around
<1> HIDE DEF first, second, before, after
<1>5. ~(before + after < n)
  <2>1. SUFFICES ASSUME before + after < n PROVE FALSE
    OBVIOUS
  <2>2. w.after = -1
    BY <1>4, <2>1
  <2> QED
    BY <2>2
<1>6. before + after = n /\ before \in 0 .. n /\ after \in 0 .. n
  BY <1>3, <1>5
<1> DEFINE id == p[1]
           f  == IF cp.first_used = p[2] THEN p[2] - before ELSE cp.first_used
           l  == IF cp.last_used = end - 1 THEN end + after - 1 ELSE cp.last_used
           new == [cp EXCEPT !.first_used = f, !.last_used = l]
           pool == [m.pool EXCEPT ![id] = new]
<1>7. w.after = after /\ w.mem = [m EXCEPT !.pool = pool, !.list = m.list, !.free = m.free - n]
  <2> DEFINE upd == [cp EXCEPT
                         !.first_used = IF @ = p[2] THEN p[2] - before ELSE @,
                         !.last_used  = IF @ = end - 1 THEN end + after - 1 ELSE @]
             y == [m EXCEPT !.pool[p[1]] = upd, !.free = @ - n]
  <2>1. w = [mem |-> y, after |-> after]
    BY <1>4, <1>5
  <2>2. upd = new
    <3>1. cp = [size |-> cp.size, first_used |-> cp.first_used, last_used |-> cp.last_used, pool |-> cp.pool]
      BY DEF ArePools, AreRaw, IsRaw
    <3> HIDE DEF cp
    <3> QED
      BY <3>1
  <2> HIDE DEF upd, new
  <2>3. y = [m EXCEPT !.pool = pool, !.list = m.list, !.free = m.free - n]
    <3>1. m = [pool |-> m.pool, list |-> m.list, free |-> m.free, allocated |-> m.allocated]
      BY DEF ArePools, AreRaw
    <3>2. y = [m EXCEPT !.pool = pool, !.free = m.free - n]
      BY <2>2, <3>1
    <3> HIDE DEF y, pool
    <3>3. [m EXCEPT !.pool = pool] = [m EXCEPT !.pool = pool, !.list = m.list]
      BY <3>1
    <3> QED
      BY <3>2, <3>3
  <2> HIDE DEF y
  <2>4. w.mem = y /\ w.after = after
    BY <2>1
  <2> QED
    BY <2>3, <2>4
<1>8. /\ m = [pool |-> m.pool, list |-> m.list, free |-> m.free, allocated |-> m.allocated]
      /\ m.pool = [k \in DOMAIN m.pool |-> m.pool[k]]
      /\ IsList(m.list, DOMAIN m.pool) /\ m.free \in Int
      /\ cp = [size |-> cp.size, first_used |-> cp.first_used, last_used |-> cp.last_used, pool |-> cp.pool]
      /\ id \in DOMAIN m.pool
  BY DEF ArePools, AreRaw, IsRaw
<1> HIDE DEF pool
<1>9. w.mem = [pool |-> pool, list |-> m.list, free |-> m.free - n, allocated |-> m.allocated]
  BY <1>7, <1>8, PoolsExcept
<1> HIDE DEF cp, id
<1>10. new = [size |-> cp.size, first_used |-> f, last_used |-> l, pool |-> cp.pool]
  <2> HIDE DEF f, l
  <2>1. new = [cp EXCEPT !.first_used = f, !.last_used = l]
    OBVIOUS
  <2> HIDE DEF new
  <2> QED
    BY <1>8, <2>1, PoolExcept
<1> HIDE DEF new
<1>11. /\ pool = [k \in DOMAIN m.pool |-> pool[k]]
       /\ \A k \in DOMAIN m.pool : k # id => pool[k] = m.pool[k]
       /\ pool[id] = new
  BY <1>8 DEF pool
<1> HIDE DEF f, l, new
<1>12. Claimed(m, w.mem, id, f, l) /\ w.mem.free = m.free - n
  <2> DEFINE q == w.mem
  <2>1. q = [pool |-> pool, list |-> m.list, free |-> m.free - n, allocated |-> m.allocated]
    BY <1>9
  <2> HIDE DEF q
  <2>2. /\ q = [pool |-> q.pool, list |-> q.list, free |-> q.free, allocated |-> q.allocated]
        /\ q.pool = pool /\ q.list = m.list /\ q.free = m.free - n /\ q.allocated = m.allocated
    BY <2>1
  <2>3. q.pool[id] = [size |-> m.pool[id].size, first_used |-> f, last_used |-> l, pool |-> m.pool[id].pool]
    <3>1. q.pool[id] = new
      BY <1>11, <2>2
    <3> QED
      BY <1>10, <3>1 DEF cp, id
  <2>4. /\ q.pool = [k \in DOMAIN m.pool |-> q.pool[k]]
        /\ \A k \in DOMAIN m.pool : k # id => q.pool[k] = m.pool[k]
    BY <1>11, <2>2
  <2>5. n \in Int
    OBVIOUS
  <2>6. IsList(q.list, DOMAIN m.pool) /\ q.free \in Int /\ q.allocated = m.allocated
    BY <1>8, <2>2, <2>5
  <2>7. Claimed(m, q, id, f, l)
    BY <2>2, <2>3, <2>4, <2>6 DEF Claimed
  <2> QED
    BY <2>2, <2>7 DEF q
<1> QED
  <2>1. Around(m.pool[p[1]], p[2], len, before, after)
    BY <1>3 DEF cp
  <2>2. Claimed(m, w.mem, p[1],
                IF m.pool[p[1]].first_used = p[2] THEN p[2] - before ELSE m.pool[p[1]].first_used,
                IF m.pool[p[1]].last_used = p[2] + len - 1 THEN p[2] + len + after - 1
                                                           ELSE m.pool[p[1]].last_used)
    BY <1>12 DEF f, l, id, cp
  <2>3. Found(m, p, len, n, w, before, after)
    BY <1>6, <1>7, <1>12, <2>1, <2>2 DEF Found
  <2> QED
    BY <1>6, <2>3

(* A line in use is in a pool, between its bounds.                         *)
LEMMA SpanIn ==
  ASSUME NEW m, ArePools(m), NEW p, p[2] \in Nat, NEW len \in Nat \ {0}, Span(p, len) \subseteq Used(m)
  PROVE  /\ p[1] \in DOMAIN m.pool /\ p[1] \in PoolIds /\ p[2] + len <= m.pool[p[1]].size
         /\ \A j \in p[2] .. p[2] + len - 1 : j \in Cells(m.pool[p[1]])
         /\ m.pool[p[1]].first_used <= p[2] /\ p[2] + len - 1 <= m.pool[p[1]].last_used
<1> DEFINE id == p[1]
           cp == m.pool[id]
<1>1. \A j \in p[2] .. p[2] + len - 1 : id \in DOMAIN m.pool /\ j \in Cells(cp)
  BY UsedIs DEF Span, Bytes_
<1>2. p[2] \in p[2] .. p[2] + len - 1 /\ p[2] + len - 1 \in p[2] .. p[2] + len - 1
  OBVIOUS
<1>3. id \in DOMAIN m.pool /\ id \in PoolIds
  BY <1>1, <1>2 DEF ArePools
<1>4. IsPool(cp)
  BY <1>3 DEF ArePools
<1> HIDE DEF cp
<1>5. /\ cp.size \in Nat /\ cp.first_used \in Int /\ cp.last_used \in Int
      /\ \A j \in 0 .. cp.size - 1 : cp.pool[j] # Nul => j \in cp.first_used .. cp.last_used
  BY <1>4 DEF IsPool, IsRaw, assert_char_pool
<1>6. p[2] + len - 1 \in 0 .. cp.size - 1 /\ p[2] + len - 1 \in cp.first_used .. cp.last_used
      /\ p[2] \in cp.first_used .. cp.last_used
  BY <1>1, <1>2, <1>5 DEF Cells
<1> QED
  BY <1>1, <1>3, <1>5, <1>6 DEF cp

(* alloc_chars_around(): once a line has been copied over its old bytes and *)
(* those it got on the two sides of them, n bytes more are in use, none of *)
(* which was before, and the pools are right.                              *)
THEOREM AroundGives ==
  ASSUME NEW m, ArePools(m), NEW p, p[2] \in Nat, NEW len \in Nat \ {0}, Span(p, len) \subseteq Used(m),
         NEW n \in Nat, NEW flag \in BOOLEAN,
         NEW w, w = alloc_chars_around(m, p, len, n, flag), w.after >= 0,
         NEW s \in Seq(Byte), Len(s) = len + n,
         NEW at, at = Plus(p, w.after - n), NEW r, r = Write(w.mem, at, s)
  PROVE  /\ Gives(m, r, Span(at, len + n) \ Span(p, len))
         /\ Span(p, len) \subseteq Span(at, len + n)
         /\ at[1] \in PoolIds /\ at[2] \in Nat /\ Stored(m, r, at, s)
<1> DEFINE id  == p[1]
           x   == p[2]
           cp  == m.pool[id]
           end == x + len
<1>1. /\ id \in DOMAIN m.pool /\ id \in PoolIds /\ end <= cp.size
      /\ \A j \in x .. end - 1 : j \in Cells(cp)
      /\ cp.first_used <= x /\ end - 1 <= cp.last_used
  BY SpanIn
<1>2. IsPool(cp)
  BY <1>1 DEF ArePools
<1>3. PICK b \in 0 .. n, a \in 0 .. n : Found(m, p, len, n, w, b, a)
  BY <1>1, AroundIs
<1> DEFINE f == IF cp.first_used = x THEN x - b ELSE cp.first_used
           l == IF cp.last_used = end - 1 THEN end + a - 1 ELSE cp.last_used
           c == x - b
<1>4. w.after = a /\ w.mem.free = m.free - n /\ Around(cp, x, len, b, a)
  BY <1>3 DEF Found
<1>2a. b \in Nat /\ a \in Nat /\ b + a = n /\ n \in Nat
  BY <1>3 DEF Found
<1>17. Claimed(m, w.mem, id, f, l)
  BY <1>3 DEF Found
<1>5. at = <<id, c>>
  <2>1. x + (a - n) = c
    BY <1>2a
  <2> QED
    BY <1>4, <2>1 DEF Plus
<1> HIDE DEF cp, id
<1>6. /\ cp.size \in Nat /\ cp.first_used \in Int /\ cp.last_used \in Int
      /\ cp.first_used <= cp.last_used /\ cp.last_used < cp.size /\ cp.first_used >= 0
      /\ cp.pool[cp.first_used] # Nul /\ cp.pool[cp.last_used] # Nul
  BY <1>2 DEF IsPool, IsRaw, assert_char_pool
<1>18. b <= x /\ x + len + a <= cp.size
  BY <1>4 DEF Around
<1>19. /\ \A i \in c .. x - 1 : cp.pool[i] = Nul
       /\ \A i \in end .. end + a - 1 : cp.pool[i] = Nul
  BY <1>4 DEF Around
<1> DEFINE k == Len(s)
<1>20. /\ x \in Nat /\ len \in Nat \ {0} /\ end \in Nat /\ end = x + len
       /\ k \in Nat /\ k = len + n
  OBVIOUS
<1> HIDE DEF k, x
<1>21. c \in Nat /\ c = x - b
  BY <1>2a, <1>18 DEF x
<1>22. end + a <= cp.size
  BY <1>18 DEF x
<1>23. c + k = end + a
  BY ONLY <1>2a, <1>20, <1>21
<1> HIDE DEF c, end
<1>7. /\ x \in Nat /\ len \in Nat /\ len > 0 /\ end \in Nat /\ c \in Nat /\ c = x - b /\ end = x + len
      /\ a \in Nat /\ b \in Nat /\ k \in Nat /\ c + k = end + a
      /\ cp.size \in Nat /\ end + a <= cp.size
  BY ONLY <1>2a, <1>6, <1>20, <1>21, <1>22, <1>23
<1>25. cp.first_used <= x /\ end - 1 <= cp.last_used
  BY <1>1
<1>8. f = IF c < cp.first_used THEN c ELSE cp.first_used
  <2>1. CASE cp.first_used = x
    BY ONLY <1>6, <1>7, <2>1
  <2>2. CASE cp.first_used # x
    <3>1. cp.first_used < x
      BY ONLY <1>6, <1>7, <1>25, <2>2
    <3>2. ~(cp.first_used >= c)
      BY ONLY <1>6, <1>7, <1>19, <3>1
    <3>3. f = cp.first_used
      BY ONLY <2>2
    <3>4. ~(c < cp.first_used)
      BY ONLY <1>6, <1>7, <3>2
    <3> QED
      BY ONLY <3>3, <3>4
  <2> QED
    BY <2>1, <2>2
<1>9. l = IF c + k - 1 > cp.last_used THEN c + k - 1 ELSE cp.last_used
  <2>1. CASE cp.last_used = end - 1
    <3>1. l = end + a - 1
      BY ONLY <2>1
    <3>2. c + k - 1 = end + a - 1 /\ a \in Nat /\ end \in Nat
      BY ONLY <1>7
    <3>3. c + k - 1 >= cp.last_used
      BY ONLY <2>1, <3>2
    <3> DEFINE u == c + k - 1
               v == cp.last_used
    <3>4. u = end + a - 1 /\ u \in Int /\ v \in Int
      BY ONLY <1>6, <1>7, <3>2
    <3> HIDE DEF u
    <3>5. l = u /\ u >= v
      BY <3>1, <3>3, <3>4 DEF u
    <3> HIDE DEF v, l
    <3>6. l = IF u > v THEN u ELSE v
      BY ONLY <3>4, <3>5
    <3> QED
      BY ONLY <3>6 DEF u, v
  <2>2. CASE cp.last_used # end - 1
    <3>1. cp.last_used >= end
      BY ONLY <1>6, <1>7, <1>25, <2>2
    <3>2. ~(cp.last_used <= end + a - 1)
      BY ONLY <1>6, <1>7, <1>19, <3>1
    <3>3. l = cp.last_used
      BY ONLY <2>2
    <3>4. ~(c + k - 1 > cp.last_used)
      BY ONLY <1>6, <1>7, <3>2
    <3> QED
      BY ONLY <3>3, <3>4
  <2> QED
    BY <2>1, <2>2
<1> DEFINE D == (c .. c + k - 1) \ Cells(cp)
<1>10. D = (c .. x - 1) \cup (end .. end + a - 1)
  <2>1. \A j \in c .. c + k - 1 : j \in c .. x - 1 \/ j \in x .. end - 1 \/ j \in end .. end + a - 1
    BY ONLY <1>7
  <2>2. \A j \in c .. x - 1 : j \in c .. c + k - 1
    BY ONLY <1>7
  <2>3. \A j \in end .. end + a - 1 : j \in c .. c + k - 1
    BY ONLY <1>7
  <2>4. \A j \in (c .. x - 1) \cup (end .. end + a - 1) : j \notin Cells(cp)
    BY <1>7, <1>19 DEF Cells
  <2> QED
    BY <1>1, <2>1, <2>2, <2>3, <2>4
<1>24. c \in Int /\ x - 1 \in Int /\ end \in Int /\ end + a - 1 \in Int
  BY ONLY <1>7
<1>11. Cardinality(D) = n
  <2>1. IsFiniteSet(c .. x - 1) /\ Cardinality(c .. x - 1) = b
    <3>1. Cardinality(c .. x - 1) = IF c > x - 1 THEN 0 ELSE (x - 1) - c + 1
      BY <1>7, FS_Interval, <1>24
    <3>2. IsFiniteSet(c .. x - 1)
      BY <1>7, FS_Interval, <1>24
    <3> QED
      BY ONLY <1>7, <3>1, <3>2
  <2>2. IsFiniteSet(end .. end + a - 1) /\ Cardinality(end .. end + a - 1) = a
    <3>1. Cardinality(end .. end + a - 1) = IF end > end + a - 1 THEN 0 ELSE (end + a - 1) - end + 1
      BY <1>7, FS_Interval, <1>24
    <3>2. IsFiniteSet(end .. end + a - 1)
      BY <1>7, FS_Interval, <1>24
    <3> QED
      BY ONLY <1>7, <3>1, <3>2
  <2>3. (c .. x - 1) \cap (end .. end + a - 1) = {}
    BY ONLY <1>7
  <2>4. Cardinality(D) = b + a
    BY <1>10, <2>1, <2>2, <2>3, CountAdded
  <2> QED
    BY <1>2a, <2>4
<1> HIDE DEF f, l, D
<1>12. Gives(m, r, Bytes_(id, D)) /\ id \in PoolIds /\ Stored(m, r, <<id, c>>, s)
  <2>1. /\ D = (c .. c + k - 1) \ Cells(m.pool[id]) /\ id \in DOMAIN m.pool
        /\ f = IF c < m.pool[id].first_used THEN c ELSE m.pool[id].first_used
        /\ l = IF c + k - 1 > m.pool[id].last_used THEN c + k - 1 ELSE m.pool[id].last_used
        /\ c + k <= m.pool[id].size
    BY <1>1, <1>7, <1>8, <1>9 DEF D, cp, id, k
  <2>2. r = Write(w.mem, <<id, c>>, s) /\ w.mem.free = m.free - Cardinality(D)
    BY <1>4, <1>5, <1>11
  <2>3. s # <<>> /\ c \in Nat /\ Claimed(m, w.mem, id, f, l)
    BY <1>7, <1>17 DEF k, x, f, l
  <2> QED
    BY <2>1, <2>2, <2>3, Placed DEF k
<1>16. at[1] = id /\ at[2] = c
  BY <1>5
<1>13. Span(at, len + n) = Bytes_(id, c .. c + k - 1) /\ Span(p, len) = Bytes_(id, x .. end - 1)
  <2>1. Span(at, len + n) = Bytes_(id, c .. c + (len + n) - 1)
    BY <1>16 DEF Span
  <2>2. Span(p, len) = Bytes_(id, x .. end - 1)
    BY DEF Span, id, x, end
  <2> QED
    BY <1>20, <2>1, <2>2
<1>14. /\ x .. end - 1 \subseteq c .. c + k - 1
       /\ D = (c .. c + k - 1) \ (x .. end - 1)
  BY <1>7, <1>10
<1>15. Bytes_(id, D) = Span(at, len + n) \ Span(p, len) /\ Span(p, len) \subseteq Span(at, len + n)
  BY <1>13, <1>14 DEF Bytes_
<1> QED
  BY <1>5, <1>7, <1>12, <1>15, <1>16
-----------------------------------------------------------------------------
(* What free_chars() computes, in parts: the bounds of a pool after the n  *)
(* bytes at offset x of it have been cleared.                              *)
Left(cp, x, n) == Cells(cp) \ (x .. x + n - 1)
FirstLeft(cp, x, n) ==
  IF x = cp.first_used THEN Min(Left(cp, x, n) \cup {cp.last_used + 1}) ELSE cp.first_used
LastLeft(cp, x, n) ==
  IF x + n - 1 = cp.last_used /\ FirstLeft(cp, x, n) <= cp.last_used
    THEN Max(Left(cp, x, n) \cup {FirstLeft(cp, x, n) - 1}) ELSE cp.last_used

(* A part of a pool that is in use, as numbers.                            *)
InUse(cp, x, n) ==
  /\ IsPool(cp) /\ x \in Nat /\ n \in Nat \ {0} /\ x + n <= cp.size
  /\ \A j \in x .. x + n - 1 : j \in Cells(cp)

(* All of the pool goes, or the new bounds are the first and the last byte *)
(* that remain in use.                                                     *)
LEMMA BoundsLeft ==
  ASSUME NEW cp, NEW x, NEW n, InUse(cp, x, n),
         NEW first, first = FirstLeft(cp, x, n), NEW last, last = LastLeft(cp, x, n)
  PROVE  \/ /\ last < first /\ Cells(cp) = x .. x + n - 1
         \/ /\ ~(last < first) /\ first \in Left(cp, x, n) /\ last \in Left(cp, x, n)
            /\ \A j \in Left(cp, x, n) : first <= j /\ j <= last
<1> DEFINE U == Left(cp, x, n)
<1>1. /\ x \in Nat /\ n \in Nat \ {0} /\ cp.size \in Nat /\ x + n <= cp.size
      /\ cp.first_used \in Int /\ cp.last_used \in Int
      /\ cp.first_used >= 0 /\ cp.first_used <= cp.last_used /\ cp.last_used < cp.size
  BY DEF InUse, IsPool, IsRaw, assert_char_pool
<1>2. cp.first_used \in Cells(cp) /\ cp.last_used \in Cells(cp)
  BY <1>1 DEF InUse, IsPool, assert_char_pool, Cells
<1>3. \A j \in Cells(cp) : j \in Int /\ j \in Nat /\ cp.first_used <= j /\ j <= cp.last_used
  BY <1>1 DEF InUse, IsPool, assert_char_pool, Cells
<1>4. \A j \in x .. x + n - 1 : j \in Cells(cp)
  BY DEF InUse
<1>5. x \in Cells(cp) /\ x + n - 1 \in Cells(cp)
  BY <1>1, <1>4
<1>6. cp.first_used <= x /\ x + n - 1 <= cp.last_used
  BY <1>3, <1>5
<1>7. U \subseteq Nat /\ U \subseteq Int /\ \A j \in U : cp.first_used <= j /\ j <= cp.last_used
  BY <1>3 DEF Left
<1>8. CASE U = {}
  <2>1. Cells(cp) = x .. x + n - 1
    BY <1>4, <1>8 DEF Left
  <2>2. x = cp.first_used
    BY <1>1, <1>2, <1>6, <2>1
  <2>3. U \cup {cp.last_used + 1} = {cp.last_used + 1}
    BY <1>8
  <2>4. first = cp.last_used + 1
    <3>1. first = Min({cp.last_used + 1})
      BY <2>2, <2>3 DEF FirstLeft
    <3>2. {cp.last_used + 1} \subseteq Nat /\ {cp.last_used + 1} # {}
      BY <1>1
    <3> QED
      BY <3>1, <3>2, MinIs
  <2>5. last = cp.last_used
    BY <1>1, <2>4 DEF LastLeft
  <2> QED
    BY <1>1, <2>1, <2>4, <2>5
<1>9. CASE U # {}
  <2>1. first \in U /\ \A j \in U : first <= j
    <3>1. CASE x = cp.first_used
      <4> DEFINE T == U \cup {cp.last_used + 1}
      <4>1. first = Min(T)
        BY <3>1 DEF FirstLeft
      <4>2. T \subseteq Nat /\ T # {}
        BY <1>1, <1>7
      <4>3. first \in T /\ \A j \in T : first <= j
        BY <4>1, <4>2, MinIs
      <4>4. PICK u \in U : TRUE
        BY <1>9
      <4>5. first <= u /\ u <= cp.last_used /\ u \in Int
        BY <1>7, <4>3, <4>4
      <4>6. first # cp.last_used + 1
        BY <1>1, <4>5
      <4> QED
        BY <4>3, <4>6
    <3>2. CASE x # cp.first_used
      <4>1. first = cp.first_used
        BY <3>2 DEF FirstLeft
      <4>2. cp.first_used \notin x .. x + n - 1
        BY <1>1, <1>6, <3>2
      <4> QED
        BY <1>2, <1>7, <4>1, <4>2 DEF Left
    <3> QED
      BY <3>1, <3>2
  <2>2. first \in Int /\ first <= cp.last_used
    BY <1>7, <2>1
  <2>3. last \in U /\ \A j \in U : j <= last
    <3>1. CASE x + n - 1 = cp.last_used
      <4> DEFINE T == U \cup {first - 1}
      <4>1. last = Max(T)
        BY <2>2, <3>1 DEF LastLeft
      <4>2. T \subseteq Int /\ T # {} /\ cp.last_used \in Int /\ \A y \in T : y <= cp.last_used
        BY <1>1, <1>7, <2>2
      <4>3. last \in T /\ \A j \in T : j <= last
        BY <4>1, <4>2, MaxIs
      <4>4. first <= last
        BY <2>1, <4>3
      <4>5. last # first - 1
        BY <2>2, <4>4
      <4> QED
        BY <4>3, <4>5
    <3>2. CASE x + n - 1 # cp.last_used
      <4>1. last = cp.last_used
        BY <3>2 DEF LastLeft
      <4>2. cp.last_used \notin x .. x + n - 1
        BY <1>1, <1>6, <3>2
      <4> QED
        BY <1>2, <1>7, <4>1, <4>2 DEF Left
    <3> QED
      BY <3>1, <3>2
  <2>4. ~(last < first)
    BY <1>7, <2>1, <2>3
  <2> QED
    BY <2>1, <2>3, <2>4
<1> QED
  BY <1>8, <1>9

(* The bytes of a pool are cleared, and some remain in use.                *)
LEMMA FreeSome ==
  ASSUME NEW m, ArePools(m), NEW id \in DOMAIN m.pool, NEW x, NEW n, InUse(m.pool[id], x, n),
         NEW w, Wrote(m, <<id, x>>, [i \in 1 .. n |-> Nul], w),
         NEW first, NEW last, first \in Left(m.pool[id], x, n), last \in Left(m.pool[id], x, n),
         \A j \in Left(m.pool[id], x, n) : first <= j /\ j <= last,
         NEW r, r = [w EXCEPT !.pool[id] = [w.pool[id] EXCEPT !.first_used = first, !.last_used = last],
                              !.free = @ + n]
  PROVE  Takes(m, r, Bytes_(id, x .. x + n - 1))
<1> DEFINE cp == m.pool[id]
           c  == w.pool[id]
           A  == x .. x + n - 1
           U  == Left(cp, x, n)
           z  == [i \in 1 .. n |-> Nul]
<1>1. /\ x \in Nat /\ n \in Nat \ {0} /\ cp.size \in Nat /\ x + n <= cp.size
      /\ \A j \in A : j \in Cells(cp)
  BY DEF InUse, IsPool, IsRaw
<1>2. Len(z) = n
  BY <1>1
<1>3. /\ AreRaw(w) /\ DOMAIN w.pool = DOMAIN m.pool
      /\ w.list = m.list /\ w.free = m.free /\ w.allocated = m.allocated
      /\ \A k \in DOMAIN m.pool : k # id => w.pool[k] = m.pool[k]
      /\ c.size = cp.size /\ c.pool = Copied(cp, x, z)
  BY DEF Wrote
<1>4. Copied(cp, x, z) = [j \in 0 .. cp.size - 1 |-> IF j \in A THEN Nul ELSE cp.pool[j]]
  <2>1. \A j \in A : z[j - x + 1] = Nul
    BY <1>1
  <2> HIDE DEF z
  <2> QED
    BY <1>2, <2>1 DEF Copied
<1> HIDE DEF z
<1> DEFINE d == [c EXCEPT !.first_used = first, !.last_used = last]
<1>5. IsRaw(c) /\ c = [size |-> c.size, first_used |-> c.first_used, last_used |-> c.last_used, pool |-> c.pool]
  BY <1>3 DEF AreRaw, IsRaw
<1>6. d = [size |-> c.size, first_used |-> first, last_used |-> last, pool |-> c.pool]
  <2> HIDE DEF c
  <2>1. d = [c EXCEPT !.first_used = first, !.last_used = last]
    OBVIOUS
  <2> HIDE DEF d
  <2> QED
    BY <1>5, <2>1, PoolExcept
<1>7. r = [w EXCEPT !.pool[id] = d, !.free = @ + n]
  OBVIOUS
<1> HIDE DEF c, d
<1>8. /\ d.size = cp.size /\ d.first_used = first /\ d.last_used = last
      /\ d.pool = [j \in 0 .. cp.size - 1 |-> IF j \in A THEN Nul ELSE cp.pool[j]]
      /\ d.pool = c.pool
      /\ d = [size |-> d.size, first_used |-> d.first_used, last_used |-> d.last_used, pool |-> d.pool]
  BY <1>3, <1>4, <1>6 DEF c
<1>9. Cells(d) = U
  BY <1>8 DEF Cells, Left
<1>10. U \subseteq Nat /\ U \subseteq 0 .. cp.size - 1
  BY DEF Left, Cells
<1>11. IsPool(d)
  <2>1. IsRaw(d)
    BY <1>3, <1>5, <1>8, <1>10 DEF IsRaw, c
  <2>2. first \in 0 .. last /\ last < cp.size
    BY <1>1, <1>10
  <2>3. d.pool[first] # Nul /\ d.pool[last] # Nul
    BY <1>9 DEF Cells
  <2>4. \A j \in 0 .. cp.size - 1 : d.pool[j] # Nul => j \in first .. last
    <3>1. \A j \in 0 .. cp.size - 1 : d.pool[j] # Nul => j \in U
      BY <1>8, <1>9 DEF Cells
    <3> QED
      BY <1>10, <3>1
  <2>5. assert_char_pool(d)
    BY <1>8, <2>2, <2>3, <2>4 DEF assert_char_pool
  <2> QED
    BY <2>1, <2>5 DEF IsPool
<1>12. r = [pool |-> [w.pool EXCEPT ![id] = d], list |-> w.list, free |-> w.free + n, allocated |-> w.allocated]
  <2>1. w = [pool |-> w.pool, list |-> w.list, free |-> w.free, allocated |-> w.allocated]
    BY <1>3 DEF AreRaw
  <2>2. r = [w EXCEPT !.pool = [w.pool EXCEPT ![id] = d], !.list = w.list, !.free = w.free + n]
    <3> DEFINE pool == [w.pool EXCEPT ![id] = d]
    <3>1. r = [w EXCEPT !.pool = pool, !.free = w.free + n]
      BY <1>7, <2>1
    <3> HIDE DEF pool
    <3>2. [w EXCEPT !.pool = pool] = [w EXCEPT !.pool = pool, !.list = w.list]
      BY <2>1
    <3>3. r = [w EXCEPT !.pool = pool, !.list = w.list, !.free = w.free + n]
      BY <3>1, <3>2
    <3> QED
      BY <3>3 DEF pool
  <2> QED
    BY <2>1, <2>2, PoolsExcept
<1>13. /\ r = [pool |-> r.pool, list |-> r.list, free |-> r.free, allocated |-> r.allocated]
       /\ r.pool = [w.pool EXCEPT ![id] = d]
       /\ r.list = m.list /\ r.free = m.free + n /\ r.allocated = m.allocated
  <2> DEFINE pool == [w.pool EXCEPT ![id] = d]
             free == w.free + n
  <2>1. r = [pool |-> pool, list |-> w.list, free |-> free, allocated |-> w.allocated]
    BY <1>12
  <2> HIDE DEF pool, free
  <2>2. /\ r = [pool |-> r.pool, list |-> r.list, free |-> r.free, allocated |-> r.allocated]
        /\ r.pool = pool /\ r.list = w.list /\ r.free = free /\ r.allocated = w.allocated
    BY ONLY <2>1
  <2> QED
    BY <1>3, <2>2 DEF pool, free
<1>14. /\ r.pool = [k \in DOMAIN m.pool |-> r.pool[k]]
       /\ \A k \in DOMAIN m.pool : k # id => r.pool[k] = m.pool[k]
       /\ r.pool[id] = d
  <2>1. w.pool = [k \in DOMAIN w.pool |-> w.pool[k]]
    BY <1>3 DEF AreRaw
  <2> QED
    BY <1>3, <1>13, <2>1
<1>15. AreRaw(r)
  <2>1. \A k \in DOMAIN m.pool : IsRaw(r.pool[k])
    BY <1>11, <1>14 DEF ArePools, AreRaw, IsPool
  <2> QED
    BY <1>13, <1>14, <2>1 DEF AreRaw
<1>16. m.free \in Int /\ IsList(m.list, DOMAIN m.pool)
  BY DEF ArePools
<1>17. OnlyPool(m, id, r)
  BY <1>1, <1>11, <1>13, <1>14, <1>15, <1>16 DEF OnlyPool
<1>18. A \subseteq Cells(cp) /\ Cells(r.pool[id]) = Cells(cp) \ A
  BY <1>1, <1>9, <1>14 DEF Left
<1>19. Cardinality(A) = n
  <2>1. x \in Int /\ x + n - 1 \in Int /\ ~(x > x + n - 1) /\ (x + n - 1) - x + 1 = n
    BY <1>1
  <2>2. Cardinality(A) = IF x > x + n - 1 THEN 0 ELSE (x + n - 1) - x + 1
    BY <2>1, FS_Interval
  <2> QED
    BY <2>1, <2>2
<1>20. r.free = m.free + Cardinality(A)
  BY <1>13, <1>19
<1>22. \A j \in Cells(r.pool[id]) : r.pool[id].pool[j] = cp.pool[j]
  <2>1. \A j \in U : j \in 0 .. cp.size - 1 /\ j \notin A
    BY <1>10 DEF Left
  <2>2. \A j \in U : d.pool[j] = cp.pool[j]
    BY <1>8, <2>1
  <2>3. r.pool[id] = d /\ Cells(r.pool[id]) = U
    BY <1>9, <1>14
  <2> HIDE DEF U, cp
  <2> QED
    BY <2>2, <2>3
<1> HIDE DEF A
<1>21. Takes(m, r, Bytes_(id, A))
  BY <1>17, <1>18, <1>20, <1>22, PoolShrunk
<1> QED
  BY <1>21 DEF A

(* A pool whose last bytes are given back goes.                            *)
LEMMA FreeAll ==
  ASSUME NEW m, ArePools(m), NEW id \in DOMAIN m.pool, NEW n, Cardinality(Cells(m.pool[id])) = n,
         NEW r, r = [pool |-> Restrict(m.pool, DOMAIN m.pool \ {id}),
                     list |-> RemoveAt(m.list, CHOOSE j \in DOMAIN m.list : m.list[j] = id),
                     free |-> m.free + n - m.pool[id].size,
                     allocated |-> m.allocated - m.pool[id].size]
  PROVE  Takes(m, r, Bytes_(id, Cells(m.pool[id])))
<1> DEFINE cp == m.pool[id]
           C  == Cells(cp)
           V  == Bytes_(id, C)
           i  == CHOOSE j \in DOMAIN m.list : m.list[j] = id
<1>1. /\ AreRaw(m) /\ DOMAIN m.pool \subseteq PoolIds /\ IsList(m.list, DOMAIN m.pool)
      /\ m.free \in Int /\ m.allocated \in Int /\ IsFiniteSet(Used(m))
      /\ m.allocated - m.free = Cardinality(Used(m)) /\ cp.size \in Nat
      /\ \A k \in DOMAIN m.pool : IsPool(m.pool[k])
  BY DEF ArePools, AreRaw, IsRaw
<1>2. i \in 1 .. Len(m.list) /\ m.list[i] = id
  <2>1. DOMAIN m.list = 1 .. Len(m.list)
    BY <1>1 DEF IsList
  <2>2. \E j \in DOMAIN m.list : m.list[j] = id
    BY <1>1, <2>1 DEF IsList
  <2> QED
    BY <2>1, <2>2
<1> HIDE DEF i
<1>3. r = [pool |-> Restrict(m.pool, DOMAIN m.pool \ {id}), list |-> RemoveAt(m.list, i),
           free |-> m.free + n - cp.size, allocated |-> m.allocated - cp.size]
  BY DEF i
<1>4. /\ r = [pool |-> r.pool, list |-> r.list, free |-> r.free, allocated |-> r.allocated]
      /\ r.pool = Restrict(m.pool, DOMAIN m.pool \ {id}) /\ r.list = RemoveAt(m.list, i)
      /\ r.free = m.free + n - cp.size /\ r.allocated = m.allocated - cp.size
  BY <1>3
<1>5. /\ DOMAIN r.pool = DOMAIN m.pool \ {id} /\ r.pool = [k \in DOMAIN r.pool |-> r.pool[k]]
      /\ \A k \in DOMAIN r.pool : r.pool[k] = m.pool[k]
  BY <1>4 DEF Restrict
<1>6. IsList(r.list, DOMAIN r.pool)
  BY <1>1, <1>2, <1>4, <1>5, ListShrunk
<1>7. AreRaw(r)
  <2>1. \A k \in DOMAIN r.pool : IsRaw(r.pool[k])
    BY <1>1, <1>5 DEF AreRaw
  <2> QED
    BY <1>4, <1>5, <2>1 DEF AreRaw
<1>8. V \subseteq Used(m)
  BY UsedIs DEF Bytes_
<1>9. Used(r) = Used(m) \ V
  <2>1. ASSUME NEW a \in Used(r) PROVE a \in Used(m) \ V
    <3>1. a = <<a[1], a[2]>> /\ a[1] \in DOMAIN r.pool /\ a[2] \in Cells(r.pool[a[1]])
      BY UsedPairs
    <3>2. a \in Used(m)
      BY <1>5, <3>1, UsedIs
    <3> QED
      BY <1>5, <3>1, <3>2 DEF Bytes_
  <2>2. ASSUME NEW a \in Used(m), a \notin V PROVE a \in Used(r)
    <3>1. a = <<a[1], a[2]>> /\ a[1] \in DOMAIN m.pool /\ a[2] \in Cells(m.pool[a[1]])
      BY UsedPairs
    <3>2. a[1] # id
      BY <2>2, <3>1 DEF Bytes_
    <3>3. a[1] \in DOMAIN r.pool /\ a[2] \in Cells(r.pool[a[1]])
      BY <1>5, <3>1, <3>2
    <3> QED
      BY <3>1, <3>3, UsedIs
  <2> QED
    BY <2>1, <2>2
<1>10. IsFiniteSet(C)
  <2>1. IsFiniteSet(0 .. cp.size - 1)
    BY <1>1, FS_Interval
  <2>2. C \subseteq 0 .. cp.size - 1
    BY DEF Cells
  <2> QED
    BY <2>1, <2>2, FS_Subset
<1>11. IsFiniteSet(V) /\ Cardinality(V) = n
  BY <1>10, BytesCount
<1>12. /\ IsFiniteSet(Used(r)) /\ Cardinality(Used(r)) = Cardinality(Used(m)) - n
       /\ Cardinality(Used(m)) \in Nat /\ n \in Nat
  BY <1>1, <1>8, <1>9, <1>11, CountTaken
<1> DEFINE u == Cardinality(Used(m))
           v == Cardinality(Used(r))
           size == cp.size
<1>13. m.free \in Int /\ m.allocated \in Int /\ u \in Nat /\ n \in Nat /\ size \in Nat
         /\ m.allocated - m.free = u /\ v = u - n
  BY <1>1, <1>12
<1>14. r.free = m.free + n - size /\ r.allocated = m.allocated - size
  BY <1>4
<1> HIDE DEF u, v, size
<1>15. r.free \in Int /\ r.allocated \in Int /\ r.allocated - r.free = v
  BY <1>13, <1>14
<1>16. \A k \in DOMAIN r.pool : IsPool(r.pool[k])
  BY <1>1, <1>5
<1>17. ArePools(r)
  BY <1>1, <1>5, <1>6, <1>7, <1>12, <1>15, <1>16 DEF ArePools, v
<1>18. Keeps(m, r, Used(r))
  <2> SUFFICES ASSUME NEW a \in Used(r) PROVE Cell(r, a) = Cell(m, a)
    BY DEF Keeps
  <2>1. a[1] \in DOMAIN r.pool
    BY UsedPairs
  <2> QED
    BY <1>5, <2>1 DEF Cell
<1> QED
  BY <1>9, <1>17, <1>18 DEF Takes

(* free_chars(): the bytes that it is given, if they were in use, are free, *)
(* no other is, and the pools are right: the first and the last byte in    *)
(* use are found again, and a pool without bytes is gone.                  *)
THEOREM FreeTakes ==
  ASSUME NEW m, ArePools(m), NEW p, p[2] \in Nat, NEW n \in Nat \ {0}, Span(p, n) \subseteq Used(m),
         NEW r, r = free_chars(m, p, n)
  PROVE  Takes(m, r, Span(p, n))
<1> DEFINE id == p[1]
           x  == p[2]
           cp == m.pool[id]
           z  == [i \in 1 .. n |-> Nul]
           w  == Write(m, p, z)
           c  == w.pool[id]
           used  == {j \in c.first_used .. c.last_used : c.pool[j] # Nul}
           first == IF x = c.first_used THEN Min(used \cup {c.last_used + 1}) ELSE c.first_used
           last  == IF x + n - 1 = c.last_used /\ first <= c.last_used
                      THEN Max(used \cup {first - 1}) ELSE c.last_used
<1>1. /\ id \in DOMAIN m.pool /\ id \in PoolIds /\ x + n <= cp.size
      /\ \A j \in x .. x + n - 1 : j \in Cells(cp)
  BY SpanIn
<1>2. IsPool(cp) /\ AreRaw(m)
  BY <1>1 DEF ArePools
<1>3. InUse(cp, x, n)
  BY <1>1, <1>2 DEF InUse
<1>4. p # Null
  <2>1. p[1] # 0
    BY <1>1 DEF PoolIds
  <2> QED
    BY <2>1 DEF Null
<1>5. r = IF last < first
            THEN [pool |-> Restrict(m.pool, DOMAIN m.pool \ {id}),
                  list |-> RemoveAt(m.list, CHOOSE j \in DOMAIN m.list : m.list[j] = id),
                  free |-> m.free + n - c.size,
                  allocated |-> m.allocated - c.size]
            ELSE [w EXCEPT !.pool[id] = [c EXCEPT !.first_used = first, !.last_used = last],
                           !.free = @ + n]
  BY <1>4 DEF free_chars
<1>6. z \in Seq(Byte \cup {Nul}) /\ Len(z) = n
  OBVIOUS
<1> HIDE DEF z
<1>7. Wrote(m, p, z, w)
  BY <1>1, <1>2, <1>6, WriteIs
<1> HIDE DEF w
<1>8. /\ c.size = cp.size /\ c.first_used = cp.first_used /\ c.last_used = cp.last_used
      /\ c.pool = Copied(cp, x, z)
  BY <1>7 DEF Wrote
<1>9. used = Left(cp, x, n)
  <2>1. /\ cp.size \in Nat /\ cp.first_used \in Int /\ cp.last_used \in Int
        /\ cp.first_used >= 0 /\ cp.last_used < cp.size
        /\ \A j \in 0 .. cp.size - 1 : cp.pool[j] # Nul => j \in cp.first_used .. cp.last_used
    BY <1>2 DEF IsPool, IsRaw, assert_char_pool
  <2> HIDE DEF c, cp, x
  <2>2. x \in Nat /\ \A j \in x .. x + n - 1 : z[j - x + 1] = Nul
    BY DEF x, z
  <2>3. \A j \in 0 .. cp.size - 1 : c.pool[j] = IF j \in x .. x + n - 1 THEN Nul ELSE cp.pool[j]
    BY <1>6, <1>8, <2>2 DEF Copied
  <2>4. \A j \in cp.first_used .. cp.last_used : j \in 0 .. cp.size - 1
    BY <2>1
  <2>5. \A j \in used : j \in Left(cp, x, n)
    BY <1>8, <2>3, <2>4 DEF Left, Cells
  <2>6. \A j \in Left(cp, x, n) : j \in used
    BY <1>8, <2>1, <2>3 DEF Left, Cells
  <2> QED
    BY <2>5, <2>6
<1> HIDE DEF used
<1>10. first = FirstLeft(cp, x, n)
  BY <1>8, <1>9 DEF FirstLeft
<1> HIDE DEF first
<1>11. last = LastLeft(cp, x, n)
  BY <1>8, <1>9, <1>10 DEF LastLeft
<1> HIDE DEF last
<1>12. \/ /\ last < first /\ Cells(cp) = x .. x + n - 1
       \/ /\ ~(last < first) /\ first \in Left(cp, x, n) /\ last \in Left(cp, x, n)
          /\ \A j \in Left(cp, x, n) : first <= j /\ j <= last
  BY <1>3, <1>10, <1>11, BoundsLeft
<1>13. Span(p, n) = Bytes_(id, x .. x + n - 1)
  BY DEF Span
<1>14. CASE last < first
  <2>1. Cells(cp) = x .. x + n - 1
    BY <1>12, <1>14
  <2>2. Cardinality(Cells(cp)) = n
    <3>1. x \in Int /\ x + n - 1 \in Int /\ ~(x > x + n - 1) /\ (x + n - 1) - x + 1 = n
      OBVIOUS
    <3>2. Cardinality(x .. x + n - 1) = IF x > x + n - 1 THEN 0 ELSE (x + n - 1) - x + 1
      BY <3>1, FS_Interval
    <3> QED
      BY <2>1, <3>1, <3>2
  <2>3. r = [pool |-> Restrict(m.pool, DOMAIN m.pool \ {id}),
             list |-> RemoveAt(m.list, CHOOSE j \in DOMAIN m.list : m.list[j] = id),
             free |-> m.free + n - cp.size,
             allocated |-> m.allocated - cp.size]
    BY <1>5, <1>8, <1>14
  <2>4. Takes(m, r, Bytes_(id, Cells(cp)))
    BY <1>1, <2>2, <2>3, FreeAll
  <2> QED
    BY <1>13, <2>1, <2>4
<1>15. CASE ~(last < first)
  <2>1. r = [w EXCEPT !.pool[id] = [w.pool[id] EXCEPT !.first_used = first, !.last_used = last],
                      !.free = @ + n]
    BY <1>5, <1>15
  <2>2. Wrote(m, <<id, x>>, [i \in 1 .. n |-> Nul], w)
    <3>1. <<id, x>>[1] = id /\ <<id, x>>[2] = x
      OBVIOUS
    <3> QED
      BY <1>7, <3>1 DEF Wrote, z
  <2>3. /\ first \in Left(cp, x, n) /\ last \in Left(cp, x, n)
        /\ \A j \in Left(cp, x, n) : first <= j /\ j <= last
    BY <1>12, <1>15
  <2>4. Takes(m, r, Bytes_(id, x .. x + n - 1))
    BY ZenonT(60), <1>1, <1>3, <2>1, <2>2, <2>3, FreeSome
  <2> QED
    BY <1>13, <2>4
<1> QED
  BY <1>14, <1>15
-----------------------------------------------------------------------------
(* Every pool has a byte in use: there are no more pools than bytes.       *)
LEMMA PoolsFew ==
  ASSUME NEW m, ArePools(m), Cardinality(Used(m)) < MaxPools
  PROVE  PoolIds \ DOMAIN m.pool # {}
<1> DEFINE D == DOMAIN m.pool
           f == [a \in Used(m) |-> a[1]]
<1>1. IsFiniteSet(Used(m)) /\ D \subseteq PoolIds /\ \A id \in D : IsPool(m.pool[id])
  BY DEF ArePools
<1>2. \A a \in Used(m) : a[1] \in D
  BY UsedPairs
<1>3. ASSUME NEW id \in D PROVE \E a \in Used(m) : a[1] = id
  <2> DEFINE cp == m.pool[id]
  <2>0. IsPool(cp)
    BY <1>1
  <2> HIDE DEF cp
  <2>1. cp.first_used \in Cells(cp)
    <3>1. /\ cp.size \in Nat /\ cp.first_used \in Int /\ cp.last_used \in Int
          /\ cp.first_used \in 0 .. cp.last_used /\ cp.last_used < cp.size
      BY <2>0 DEF IsPool, IsRaw, assert_char_pool
    <3>2. cp.first_used \in 0 .. cp.size - 1
      BY ONLY <3>1
    <3>3. cp.pool[cp.first_used] # Nul
      BY <2>0 DEF IsPool, assert_char_pool
    <3> QED
      BY <3>2, <3>3 DEF Cells
  <2>2. <<id, m.pool[id].first_used>> \in Used(m)
    BY <2>1, UsedIs DEF cp
  <2> QED
    BY <2>2
<1>4. f \in Surjection(Used(m), D)
  BY <1>2, <1>3 DEF Surjection
<1>5. IsFiniteSet(D) /\ Cardinality(D) <= Cardinality(Used(m))
  BY <1>1, <1>4, FS_Surjection
<1>6. IsFiniteSet(PoolIds) /\ Cardinality(PoolIds) = MaxPools
  BY PoolAssumption, FS_Interval DEF PoolIds
<1>7. SUFFICES ASSUME D = PoolIds PROVE FALSE
  BY <1>1
<1>8. Cardinality(Used(m)) \in Nat /\ Cardinality(D) = MaxPools
  BY <1>1, <1>6, <1>7, FS_CardinalityType
<1> QED
  BY <1>5, <1>8, PoolAssumption
-----------------------------------------------------------------------------
(* What was at V is now at W: the bytes of a line, or of two, are somewhere *)
(* else, and no byte is shared or lost.                                    *)
Moves(m, r, V, W) ==
  /\ ArePools(r)
  /\ Used(r) = (Used(m) \ V) \cup W
  /\ W \cap (Used(m) \ V) = {}
  /\ Keeps(m, r, Used(m) \ V)

(* What is at p stays there.                                               *)
LEMMA HoldsStill ==
  ASSUME NEW w, NEW r, NEW A, Keeps(w, r, A), NEW p, p[2] \in Int, NEW s, Len(s) \in Nat,
         Holds(w, p, s), Span(p, Len(s)) \subseteq A
  PROVE  Holds(r, p, s)
<1> SUFFICES ASSUME NEW i \in 1 .. Len(s) PROVE Cell(r, At(p, i)) = s[i]
  BY DEF Holds
<1>1. p[2] + i - 1 \in p[2] .. p[2] + Len(s) - 1
  OBVIOUS
<1>2. At(p, i) \in A
  BY <1>1 DEF At, Span, Bytes_
<1> QED
  BY <1>2 DEF Holds, Keeps

(* Bytes that are given out are not written over others.                   *)
LEMMA StoredFresh ==
  ASSUME NEW m, NEW r, NEW p, NEW s, Gives(m, r, Span(p, Len(s))), Stored(m, r, p, s)
  PROVE  Keeps(m, r, Used(m)) /\ Holds(r, p, s)
<1>1. \A a \in Used(m) : a \in Used(m) \ Span(p, Len(s))
  BY DEF Gives
<1> QED
  BY <1>1 DEF Stored, Keeps

(* Nor if some of them are written over.                                   *)
LEMMA StoredNew ==
  ASSUME NEW m, NEW r, NEW p, NEW s, NEW V, V \subseteq Used(m), V \subseteq Span(p, Len(s)),
         Gives(m, r, Span(p, Len(s)) \ V), Stored(m, r, p, s)
  PROVE  Keeps(m, r, Used(m) \ V) /\ Holds(r, p, s)
<1>1. Used(m) \cap (Span(p, Len(s)) \ V) = {}
  BY DEF Gives
<1>2. \A a \in Used(m) \ V : a \in Used(m) \ Span(p, Len(s))
  BY <1>1
<1> QED
  BY <1>2 DEF Stored, Keeps

(* The new bytes are given out first, and then the old ones taken back.    *)
LEMMA MovedAway ==
  ASSUME NEW m, NEW w, NEW r, NEW V, NEW W, V \subseteq Used(m),
         Gives(m, w, W), Keeps(m, w, Used(m) \ V), Takes(w, r, V)
  PROVE  Moves(m, r, V, W)
<1>1. Used(w) = Used(m) \cup W /\ Used(m) \cap W = {} /\ ArePools(r) /\ Used(r) = Used(w) \ V
  BY DEF Gives, Takes
<1>2. Used(m) \ V \subseteq Used(r)
  BY <1>1
<1>3. Keeps(m, r, Used(m) \ V)
  BY <1>2 DEF Keeps, Takes
<1> QED
  BY <1>1, <1>3 DEF Moves

(* A line grows where it is.                                               *)
LEMMA Grown ==
  ASSUME NEW m, NEW r, NEW V, NEW W, V \subseteq Used(m), V \subseteq W, Gives(m, r, W \ V),
         Keeps(m, r, Used(m) \ V)
  PROVE  Moves(m, r, V, W)
<1>1. Used(r) = Used(m) \cup (W \ V) /\ Used(m) \cap (W \ V) = {} /\ ArePools(r)
  BY DEF Gives
<1> QED
  BY <1>1 DEF Moves

(* A line shrinks where it is.                                             *)
LEMMA Shrunk ==
  ASSUME NEW m, NEW w, NEW r, NEW V, NEW W, NEW T, V \subseteq Used(m), Used(w) = Used(m),
         Keeps(m, w, Used(m) \ V), Takes(w, r, T), T \cup W = V, T \cap W = {}
  PROVE  Moves(m, r, V, W)
<1>1. Used(r) = Used(m) \ T /\ ArePools(r)
  BY DEF Takes
<1>2. Used(m) \ V \subseteq Used(r)
  BY <1>1
<1>3. Keeps(m, r, Used(m) \ V)
  BY <1>2 DEF Keeps, Takes
<1> QED
  BY <1>1, <1>3 DEF Moves

(* The bytes of a second line join those of the first one, which grows.    *)
LEMMA MovedNext ==
  ASSUME NEW m, NEW w, NEW r, NEW V, NEW W, NEW T, V \subseteq Used(m), T \subseteq Used(m),
         V \subseteq W, T \cap V = {}, Gives(m, w, W \ V),
         Keeps(m, w, Used(m) \ (V \cup T)), Takes(w, r, T)
  PROVE  Moves(m, r, V \cup T, W)
<1>1. Used(w) = Used(m) \cup (W \ V) /\ Used(m) \cap (W \ V) = {}
  BY DEF Gives
<1>2. Used(r) = Used(w) \ T /\ ArePools(r)
  BY DEF Takes
<1>3. Used(m) \ (V \cup T) \subseteq Used(r)
  BY <1>1, <1>2
<1>4. Keeps(m, r, Used(m) \ (V \cup T))
  BY <1>3 DEF Keeps, Takes
<1> QED
  BY <1>1, <1>2, <1>4 DEF Moves
-----------------------------------------------------------------------------
(* A range of bytes is two ranges, one after the other.                    *)
LEMMA SpanSplit ==
  ASSUME NEW p, p[2] \in Nat, NEW a \in Nat, NEW b \in Nat
  PROVE  /\ Span(p, a) \cup Span(Plus(p, a), b) = Span(p, a + b)
         /\ Span(p, a) \cap Span(Plus(p, a), b) = {}
         /\ Plus(p, a)[1] = p[1] /\ Plus(p, a)[2] = p[2] + a
<1> DEFINE x == p[2]
           q == Plus(p, a)
<1>1. q[1] = p[1] /\ q[2] = x + a
  BY DEF Plus
<1>2. x \in Nat
  OBVIOUS
<1> HIDE DEF x, q
<1>3. \A j : j \in x .. x + (a + b) - 1 <=> j \in x .. x + a - 1 \/ j \in (x + a) .. (x + a) + b - 1
  BY ONLY <1>2, a \in Nat, b \in Nat
<1>4. \A j : ~(j \in x .. x + a - 1 /\ j \in (x + a) .. (x + a) + b - 1)
  BY ONLY <1>2, a \in Nat, b \in Nat
<1>5. /\ Span(p, a) = {<<p[1], j>> : j \in x .. x + a - 1}
      /\ Span(q, b) = {<<p[1], j>> : j \in (x + a) .. (x + a) + b - 1}
      /\ Span(p, a + b) = {<<p[1], j>> : j \in x .. x + (a + b) - 1}
  BY <1>1 DEF Span, Bytes_, x
<1>6. Span(p, a) \cup Span(q, b) = Span(p, a + b)
  BY ONLY <1>3, <1>5
<1>7. Span(p, a) \cap Span(q, b) = {}
  BY ONLY <1>4, <1>5
<1> QED
  BY <1>1, <1>6, <1>7 DEF q, x
-----------------------------------------------------------------------------
(* The list of the pools when one of them changes, or goes to the tail.    *)
LEMMA ListReplaced ==
  ASSUME NEW ids, NEW list, IsList(list, ids), NEW i \in 1 .. Len(list),
         NEW e, e \notin ids \ {list[i]}
  PROVE  IsList([list EXCEPT ![i] = e], (ids \ {list[i]}) \cup {e})
<1> DEFINE new  == [list EXCEPT ![i] = e]
           all  == (ids \ {list[i]}) \cup {e}
<1>1. /\ list \in Seq(ids) /\ \A id \in ids : \E j \in 1 .. Len(list) : list[j] = id
      /\ \A j, k \in 1 .. Len(list) : list[j] = list[k] => j = k
  BY DEF IsList
<1>2. /\ Len(list) \in Nat /\ DOMAIN list = 1 .. Len(list)
      /\ \A j \in 1 .. Len(list) : list[j] \in ids
  BY <1>1
<1>3. /\ new = [j \in 1 .. Len(list) |-> new[j]]
      /\ new[i] = e /\ \A j \in 1 .. Len(list) : j # i => new[j] = list[j]
  BY <1>2
<1> HIDE DEF new
<1>4. \A j \in 1 .. Len(list) : new[j] \in all
  <2>1. \A j \in 1 .. Len(list) : j # i => list[j] \in ids /\ list[j] # list[i]
    BY <1>1, <1>2
  <2> QED
    BY <1>3, <2>1
<1>5. new \in Seq(all) /\ Len(new) = Len(list)
  BY <1>2, <1>3, <1>4
<1>6. ASSUME NEW id \in all PROVE \E j \in 1 .. Len(list) : new[j] = id
  <2>1. CASE id = e
    BY <1>3, <2>1
  <2>2. CASE id # e
    <3>1. PICK j \in 1 .. Len(list) : list[j] = id
      BY <1>1, <2>2
    <3>2. j # i
      BY <2>2, <3>1
    <3> QED
      BY <1>3, <3>1, <3>2
  <2> QED
    BY <2>1, <2>2
<1>7. ASSUME NEW j \in 1 .. Len(list), NEW k \in 1 .. Len(list), new[j] = new[k] PROVE j = k
  <2>1. \A x \in 1 .. Len(list) : x # i => list[x] # e
    <3>1. \A x \in 1 .. Len(list) : x # i => list[x] \in ids \ {list[i]}
      BY <1>1, <1>2
    <3> QED
      BY <3>1
  <2>2. CASE j # i /\ k # i
    BY <1>1, <1>3, <1>7, <2>2
  <2>3. CASE j = i \/ k = i
    BY <1>3, <1>7, <2>1, <2>3
  <2> QED
    BY <2>2, <2>3
<1>8. IsList(new, all)
  BY <1>5, <1>6, <1>7 DEF IsList
<1> QED
  BY <1>8 DEF new

(* A pool is put at the tail of the list.                                  *)
LEMMA ListAppended ==
  ASSUME NEW ids, NEW list, IsList(list, ids), NEW e, e \notin ids
  PROVE  IsList(Append(list, e), ids \cup {e})
<1> DEFINE new == Append(list, e)
           all == ids \cup {e}
           n   == Len(list)
<1>1. /\ list \in Seq(ids) /\ \A id \in ids : \E j \in 1 .. n : list[j] = id
      /\ \A j, k \in 1 .. n : list[j] = list[k] => j = k
  BY DEF IsList
<1>2. n \in Nat /\ DOMAIN list = 1 .. n /\ \A j \in 1 .. n : list[j] \in ids
  BY <1>1
<1>3. list \in Seq(all) /\ e \in all
  BY <1>1
<1>4. /\ new \in Seq(all) /\ Len(new) = n + 1 /\ new[n + 1] = e
      /\ \A j \in 1 .. n : new[j] = list[j]
  BY <1>3
<1> HIDE DEF new, n
<1>5. 1 .. n + 1 = (1 .. n) \cup {n + 1}
  BY <1>2
<1>6. \A id \in all : \E j \in 1 .. n + 1 : new[j] = id
  BY <1>1, <1>4, <1>5
<1>7. \A j, k \in 1 .. n + 1 : new[j] = new[k] => j = k
  <2>1. \A j \in 1 .. n : new[j] # e
    BY <1>2, <1>4
  <2> QED
    BY <1>1, <1>4, <1>5, <2>1
<1>8. IsList(new, all)
  BY <1>4, <1>6, <1>7 DEF IsList
<1> QED
  BY <1>8 DEF new

(* The head of a free list is given out.                                   *)
LEMMA ListPopped ==
  ASSUME NEW ids, NEW list, IsList(list, ids), list # <<>>
  PROVE  Head(list) \in ids /\ IsList(Tail(list), ids \ {Head(list)})
<1>1. list \in Seq(ids)
  BY DEF IsList
<1>2. Len(list) \in Nat /\ 1 \in 1 .. Len(list) /\ Head(list) = list[1] /\ list[1] \in ids
  BY <1>1
<1>3. RemoveAt(list, 1) = [j \in 1 .. Len(list) - 1 |-> IF j < 1 THEN list[j] ELSE list[j + 1]]
  BY <1>1, <1>2, Removed
<1>4. Tail(list) = [j \in 1 .. Len(list) - 1 |-> list[j + 1]]
  <2> DEFINE t == Tail(list)
  <2>1. t \in Seq(ids) /\ Len(t) = Len(list) - 1 /\ \A j \in 1 .. Len(t) : t[j] = list[j + 1]
    BY <1>1, HeadTailProperties
  <2> HIDE DEF t
  <2>2. t = [j \in 1 .. Len(t) |-> t[j]]
    BY <2>1
  <2>3. t = [j \in 1 .. Len(list) - 1 |-> list[j + 1]]
    BY ONLY <2>1, <2>2
  <2> QED
    BY <2>3 DEF t
<1>5. RemoveAt(list, 1) = Tail(list)
  <2>1. \A j \in 1 .. Len(list) - 1 : ~(j < 1)
    BY <1>2
  <2> QED
    BY <1>3, <1>4, <2>1
<1>6. IsList(RemoveAt(list, 1), ids \ {list[1]})
  BY <1>2, ListShrunk
<1> QED
  BY <1>2, <1>5, <1>6
-----------------------------------------------------------------------------
(* Of a set D of descriptors, those of pool id.                            *)
Slots(D, id) == {d[2] : d \in {e \in D : e[1] = id}}

(* A pool of which the descriptors of D are in use, and the others are in  *)
(* its free list, each of them once; one none of which is in use would be  *)
(* gone.                                                                   *)
IsDescPool(p, D) ==
  /\ p = [id |-> p.id, size |-> p.size, allocated_items |-> p.allocated_items, free_list |-> p.free_list]
  /\ p.id \in DescPoolIds /\ p.size \in Nat
  /\ Slots(D, p.id) \subseteq 1 .. p.size /\ Slots(D, p.id) # {}
  /\ p.allocated_items = Cardinality(Slots(D, p.id))
  /\ IsList(p.free_list, (1 .. p.size) \ Slots(D, p.id))

DescPoolsAre(P, D) ==
  /\ \A p \in P : IsDescPool(p, D)
  /\ \A p, q \in P : p.id = q.id => p = q
  /\ IsFiniteSet(D)
  /\ \A d \in D : d = <<d[1], d[2]>> /\ \E p \in P : p.id = d[1]
AreDescs(ps, D) == \E P : IsList(ps, P) /\ DescPoolsAre(P, D)

(* A descriptor, by its pool and its index.                                *)
LEMMA SlotIs ==
  ASSUME NEW P, NEW D, DescPoolsAre(P, D), NEW id, NEW h
  PROVE  h \in Slots(D, id) <=> <<id, h>> \in D
<1>1. \A d \in D : d = <<d[1], d[2]>>
  BY DEF DescPoolsAre
<1>2. ASSUME h \in Slots(D, id) PROVE <<id, h>> \in D
  <2>1. PICK d \in D : d[1] = id /\ d[2] = h
    BY <1>2 DEF Slots
  <2> QED
    BY <1>1, <2>1
<1>3. ASSUME <<id, h>> \in D PROVE h \in Slots(D, id)
  <2>1. <<id, h>>[1] = id /\ <<id, h>>[2] = h
    OBVIOUS
  <2> QED
    BY <1>3, <2>1 DEF Slots
<1> QED
  BY <1>2, <1>3

(* The descriptors in use are D, and then E: those of one pool change.     *)
Reslotted(D, E, id, S) == Slots(E, id) = S /\ \A k : k # id => Slots(E, k) = Slots(D, k)

(* A descriptor more, or less, does not concern the pools of the others.   *)
LEMMA SlotsWith ==
  ASSUME NEW D, NEW id, NEW h, NEW E, E = D \cup {<<id, h>>}
  PROVE  Reslotted(D, E, id, Slots(D, id) \cup {h})
<1>1. <<id, h>>[1] = id /\ <<id, h>>[2] = h
  OBVIOUS
<1>2. {e \in E : e[1] = id} = {e \in D : e[1] = id} \cup {<<id, h>>}
  BY <1>1
<1>3. \A k : k # id => {e \in E : e[1] = k} = {e \in D : e[1] = k}
  BY <1>1
<1>4. Slots(E, id) = Slots(D, id) \cup {h}
  <2>1. \A x : x \in Slots(E, id) <=> \E d \in E : d[1] = id /\ x = d[2]
    BY DEF Slots
  <2>2. \A x : x \in Slots(D, id) <=> \E d \in D : d[1] = id /\ x = d[2]
    BY DEF Slots
  <2> DEFINE n == <<id, h>>
  <2>3. n[1] = id /\ n[2] = h /\ E = D \cup {n}
    BY <1>1
  <2> HIDE DEF n
  <2>4. ASSUME NEW x PROVE x \in Slots(E, id) <=> x \in Slots(D, id) \/ x = h
    <3>1. ASSUME x \in Slots(E, id) PROVE x \in Slots(D, id) \/ x = h
      BY <2>1, <2>2, <2>3, <3>1
    <3>2. ASSUME x \in Slots(D, id) PROVE x \in Slots(E, id)
      BY <2>1, <2>2, <2>3, <3>2
    <3>3. h \in Slots(E, id)
      BY <2>1, <2>3
    <3> QED
      BY <3>1, <3>2, <3>3
  <2> QED
    BY ONLY <2>4
<1>5. \A k : k # id => Slots(E, k) = Slots(D, k)
  BY <1>3 DEF Slots
<1> QED
  BY <1>4, <1>5 DEF Reslotted

(* The slots when a descriptor is no longer in use.                        *)
LEMMA SlotsWithout ==
  ASSUME NEW P, NEW D, DescPoolsAre(P, D), NEW d \in D
  PROVE  /\ Slots(D \ {d}, d[1]) = Slots(D, d[1]) \ {d[2]}
         /\ \A k : k # d[1] => Slots(D \ {d}, k) = Slots(D, k)
<1> DEFINE E == D \ {d}
<1>1. \A e \in D : e = <<e[1], e[2]>>
  BY DEF DescPoolsAre
<1>2. \A e \in D : e # d /\ e[1] = d[1] => e[2] # d[2]
  BY <1>1
<1>3. Slots(E, d[1]) = Slots(D, d[1]) \ {d[2]}
  <2>1. \A x : x \in Slots(E, d[1]) <=> \E e \in E : e[1] = d[1] /\ e[2] = x
    BY DEF Slots
  <2>2. \A x : x \in Slots(D, d[1]) <=> \E e \in D : e[1] = d[1] /\ e[2] = x
    BY DEF Slots
  <2> QED
    BY <1>2, <2>1, <2>2
<1>4. \A k : k # d[1] => {e \in E : e[1] = k} = {e \in D : e[1] = k}
  OBVIOUS
<1>5. \A k : k # d[1] => Slots(E, k) = Slots(D, k)
  BY <1>4 DEF Slots
<1> QED
  BY <1>3, <1>5

(* One pool changes, with the descriptors of it that are in use.           *)
LEMMA DescPoolReplaced ==
  ASSUME NEW P, NEW D, DescPoolsAre(P, D), NEW p \in P,
         NEW E, IsFiniteSet(E), \A e \in E : e = <<e[1], e[2]>>,
         \A e \in E : e \in D \/ e[1] = p.id,
         \A k : k # p.id => Slots(E, k) = Slots(D, k),
         NEW q, q.id = p.id, IsDescPool(q, E)
  PROVE  DescPoolsAre((P \ {p}) \cup {q}, E)
<1> DEFINE R == (P \ {p}) \cup {q}
<1>1. /\ \A x \in P : IsDescPool(x, D)
      /\ \A x, y \in P : x.id = y.id => x = y
      /\ \A d \in D : \E x \in P : x.id = d[1]
  BY DEF DescPoolsAre
<1>2. \A x \in P \ {p} : x.id # p.id
  BY <1>1
<1>3. \A x \in P \ {p} : IsDescPool(x, E)
  <2> TAKE x \in P \ {p}
  <2>1. Slots(E, x.id) = Slots(D, x.id)
    BY <1>2
  <2> QED
    BY <1>1, <2>1 DEF IsDescPool
<1>4. \A x, y \in R : x.id = y.id => x = y
  BY <1>1, <1>2
<1>5. ASSUME NEW e \in E PROVE \E x \in R : x.id = e[1]
  <2>1. CASE e[1] = p.id
    BY <2>1
  <2>2. CASE e[1] # p.id
    BY <1>1, <2>2
  <2> QED
    BY <2>1, <2>2
<1> QED
  BY <1>3, <1>4, <1>5 DEF DescPoolsAre

(* None of the descriptors of a pool is in use any more.                   *)
LEMMA DescPoolGone ==
  ASSUME NEW P, NEW D, DescPoolsAre(P, D), NEW p \in P,
         NEW E, E \subseteq D, Slots(E, p.id) = {},
         \A k : k # p.id => Slots(E, k) = Slots(D, k)
  PROVE  DescPoolsAre(P \ {p}, E)
<1>1. /\ \A x \in P : IsDescPool(x, D)
      /\ \A x, y \in P : x.id = y.id => x = y
      /\ \A d \in D : d = <<d[1], d[2]>> /\ \E x \in P : x.id = d[1]
      /\ IsFiniteSet(D)
  BY DEF DescPoolsAre
<1>2. \A x \in P \ {p} : IsDescPool(x, E)
  <2> TAKE x \in P \ {p}
  <2>1. Slots(E, x.id) = Slots(D, x.id)
    BY <1>1
  <2> QED
    BY <1>1, <2>1 DEF IsDescPool
<1>3. \A e \in E : e[1] # p.id
  BY DEF Slots
<1>4. IsFiniteSet(E)
  BY <1>1, FS_Subset
<1> QED
  BY <1>1, <1>2, <1>3, <1>4 DEF DescPoolsAre

(* A new pool.                                                             *)
LEMMA NewDescPool ==
  ASSUME NEW id \in DescPoolIds, NEW size \in Nat, NEW n \in 1 .. size,
         NEW D, Slots(D, id) = 1 .. n
  PROVE  IsDescPool(DescPool(id, size, n), D)
<1> DEFINE p == DescPool(id, size, n)
           f == [i \in 1 .. size - n |-> n + i]
           ids == (1 .. size) \ (1 .. n)
<1>1. /\ p = [id |-> id, size |-> size, allocated_items |-> n, free_list |-> f]
      /\ p.id = id /\ p.size = size /\ p.allocated_items = n /\ p.free_list = f
  BY DEF DescPool
<1>2. size - n \in Nat /\ Len(f) = size - n /\ \A i \in 1 .. size - n : f[i] = n + i
  OBVIOUS
<1>3. \A i \in 1 .. size - n : n + i \in ids
  OBVIOUS
<1>4. f \in Seq(ids)
  BY <1>2, <1>3
<1> HIDE DEF f
<1>5. \A k \in ids : \E i \in 1 .. Len(f) : f[i] = k
  <2> TAKE k \in ids
  <2>1. k - n \in 1 .. size - n /\ n + (k - n) = k
    OBVIOUS
  <2> QED
    BY <1>2, <2>1
<1>6. \A i, j \in 1 .. Len(f) : f[i] = f[j] => i = j
  BY <1>2
<1>7. IsList(f, ids)
  BY <1>4, <1>5, <1>6 DEF IsList
<1>8. Cardinality(1 .. n) = n /\ 1 .. n # {} /\ 1 .. n \subseteq 1 .. size
  <2>1. 1 \in Int /\ n \in Int /\ ~(1 > n) /\ n - 1 + 1 = n
    OBVIOUS
  <2>2. Cardinality(1 .. n) = n
    BY <2>1, FS_Interval
  <2>3. 1 \in 1 .. n /\ 1 .. n \subseteq 1 .. size
    OBVIOUS
  <2> QED
    BY ONLY <2>2, <2>3
<1> HIDE DEF p
<1>9. IsDescPool(p, D)
  BY <1>1, <1>7, <1>8 DEF IsDescPool
<1> QED
  BY <1>9 DEF p
-----------------------------------------------------------------------------
(* A descriptor pool, when a descriptor of it is given out or taken back.  *)
LEMMA DescPoolExcept ==
  ASSUME NEW p,
         p = [id |-> p.id, size |-> p.size, allocated_items |-> p.allocated_items, free_list |-> p.free_list],
         NEW f, NEW a, NEW q, q = [p EXCEPT !.free_list = f, !.allocated_items = a]
  PROVE  q = [id |-> p.id, size |-> p.size, allocated_items |-> a, free_list |-> f]
<1> DEFINE D == {"id", "size", "allocated_items", "free_list"}
<1>1. DOMAIN p = D
  <2>1. p = [k \in D |-> p[k]]
    OBVIOUS
  <2> QED
    BY <2>1
<1>2. q = [k \in D |-> IF k = "allocated_items" THEN a ELSE IF k = "free_list" THEN f ELSE p[k]]
  BY <1>1
<1> QED
  BY <1>2

(* Two pools of the list have different identities, and are where their    *)
(* identities tell.                                                        *)
LEMMA DescPoolAt ==
  ASSUME NEW ps, NEW P, NEW D, IsList(ps, P), DescPoolsAre(P, D)
  PROVE  /\ ps \in Seq(P) /\ DOMAIN ps = 1 .. Len(ps) /\ Len(ps) \in Nat
         /\ \A i \in DOMAIN ps : ps[i] \in P
         /\ \A i, j \in DOMAIN ps : ps[i].id = ps[j].id => i = j
         /\ UsedIds(ps) = {p.id : p \in P}
<1>1. /\ ps \in Seq(P) /\ \A p \in P : \E j \in 1 .. Len(ps) : ps[j] = p
      /\ \A i, j \in 1 .. Len(ps) : ps[i] = ps[j] => i = j
  BY DEF IsList
<1>2. DOMAIN ps = 1 .. Len(ps) /\ Len(ps) \in Nat /\ \A i \in DOMAIN ps : ps[i] \in P
  BY <1>1
<1>3. \A i, j \in DOMAIN ps : ps[i].id = ps[j].id => i = j
  BY <1>1, <1>2 DEF DescPoolsAre
<1>4. UsedIds(ps) = {p.id : p \in P}
  <2>1. \A x \in UsedIds(ps) : \E p \in P : x = p.id
    BY <1>2 DEF UsedIds
  <2>2. \A p \in P : p.id \in UsedIds(ps)
    BY <1>1, <1>2 DEF UsedIds
  <2> QED
    BY <2>1, <2>2
<1> QED
  BY <1>1, <1>2, <1>3, <1>4

(* Every pool has a descriptor in use: there are no more of them.          *)
LEMMA DescPoolsFew ==
  ASSUME NEW ps, NEW D, AreDescs(ps, D), Cardinality(D) < MaxDescPools
  PROVE  DescPoolIds \ UsedIds(ps) # {}
<1>1. PICK P : IsList(ps, P) /\ DescPoolsAre(P, D)
  BY DEF AreDescs
<1> DEFINE ids == UsedIds(ps)
           f == [d \in D |-> d[1]]
<1>2. ids = {p.id : p \in P} /\ IsFiniteSet(D) /\ \A d \in D : \E p \in P : p.id = d[1]
  BY <1>1, DescPoolAt DEF DescPoolsAre
<1>3. \A d \in D : d[1] \in ids
  BY <1>2
<1>4. ASSUME NEW k \in ids PROVE \E d \in D : d[1] = k
  <2>1. PICK p \in P : p.id = k
    BY <1>2
  <2>2. Slots(D, k) # {}
    BY <1>1, <2>1 DEF DescPoolsAre, IsDescPool
  <2> QED
    BY <2>2 DEF Slots
<1> HIDE DEF ids
<1>5. f \in Surjection(D, ids)
  BY <1>3, <1>4 DEF Surjection
<1>6. IsFiniteSet(ids) /\ Cardinality(ids) <= Cardinality(D)
  BY <1>2, <1>5, FS_Surjection
<1>7. IsFiniteSet(DescPoolIds) /\ Cardinality(DescPoolIds) = MaxDescPools
  BY DescAssumption, FS_Interval DEF DescPoolIds
<1>8. SUFFICES ASSUME DescPoolIds \subseteq ids PROVE FALSE
  BY DEF ids
<1>9. Cardinality(DescPoolIds) <= Cardinality(ids)
  BY <1>6, <1>8, FS_Subset
<1>10. Cardinality(D) \in Nat /\ Cardinality(ids) \in Nat
  BY <1>2, <1>6, FS_CardinalityType
<1> QED
  BY <1>6, <1>7, <1>9, <1>10, DescAssumption

(* alloc_line_desc(): the descriptor was not in use, and every pool holds  *)
(* in its free list those of its descriptors that are not, and counts the  *)
(* others.                                                                 *)
THEOREM AllocDesc ==
  ASSUME NEW ps, NEW D, AreDescs(ps, D), DescPoolIds \ UsedIds(ps) # {},
         NEW g, g = alloc_line_desc(ps)
  PROVE  /\ g.ld \notin D /\ g.ld \in DescPoolIds \X (Nat \ {0})
         /\ AreDescs(g.pools, D \cup {g.ld})
<1>1. PICK P : IsList(ps, P) /\ DescPoolsAre(P, D)
  BY DEF AreDescs
<1>2. /\ ps \in Seq(P) /\ DOMAIN ps = 1 .. Len(ps) /\ Len(ps) \in Nat
      /\ \A i \in DOMAIN ps : ps[i] \in P
      /\ \A i, j \in DOMAIN ps : ps[i].id = ps[j].id => i = j
      /\ UsedIds(ps) = {p.id : p \in P}
  BY <1>1, DescPoolAt
<1>3. /\ \A p \in P : IsDescPool(p, D)
      /\ \A p, q \in P : p.id = q.id => p = q
      /\ IsFiniteSet(D) /\ \A d \in D : d = <<d[1], d[2]>> /\ \E p \in P : p.id = d[1]
  BY <1>1 DEF DescPoolsAre
<1>4. CASE HasDesc(ps)
  <2> DEFINE T == {j \in DOMAIN ps : ps[j].free_list # <<>>}
             i == Min(T)
             p == ps[i]
             h == Head(p.free_list)
             q == [p EXCEPT !.free_list = Tail(@), !.allocated_items = @ + 1]
             ld == <<q.id, h>>
             E == D \cup {<<p.id, h>>}
             S == Slots(D, p.id)
  <2>1. T \subseteq Nat /\ T # {}
    BY <1>2, <1>4 DEF HasDesc
  <2>2. i \in T
    BY <2>1, MinIs
  <2>3. g = [pools |-> IF q.free_list = <<>> THEN Append(RemoveAt(ps, i), q) ELSE [ps EXCEPT ![i] = q],
             ld |-> ld]
    BY <1>4 DEF alloc_line_desc
  <2> HIDE DEF i
  <2>4. i \in 1 .. Len(ps) /\ p \in P /\ p.free_list # <<>> /\ IsDescPool(p, D)
    BY <1>2, <1>3, <2>2
  <2> HIDE DEF p
  <2>5. /\ p = [id |-> p.id, size |-> p.size, allocated_items |-> p.allocated_items, free_list |-> p.free_list]
        /\ p.id \in DescPoolIds /\ p.size \in Nat /\ S \subseteq 1 .. p.size
        /\ p.allocated_items = Cardinality(S) /\ IsList(p.free_list, (1 .. p.size) \ S)
    BY <2>4 DEF IsDescPool
  <2>6. /\ h \in (1 .. p.size) \ S
        /\ IsList(Tail(p.free_list), ((1 .. p.size) \ S) \ {h})
    BY <2>4, <2>5, ListPopped
  <2>7. q = [id |-> p.id, size |-> p.size, allocated_items |-> p.allocated_items + 1, free_list |-> Tail(p.free_list)]
    <3> DEFINE f == Tail(p.free_list)
               a == p.allocated_items + 1
    <3>1. q = [p EXCEPT !.free_list = f, !.allocated_items = a]
      OBVIOUS
    <3> HIDE DEF f, a, q
    <3>2. q = [id |-> p.id, size |-> p.size, allocated_items |-> a, free_list |-> f]
      BY <2>5, <3>1, DescPoolExcept
    <3> QED
      BY <3>2 DEF f, a
  <2> HIDE DEF q, h
  <2>8. q.id = p.id /\ q.size = p.size /\ q.allocated_items = p.allocated_items + 1 /\ q.free_list = Tail(p.free_list)
    BY <2>7
  <2>9. <<p.id, h>> \notin D
    BY <1>1, <2>6, SlotIs
  <2>10. Slots(E, p.id) = S \cup {h} /\ \A k : k # p.id => Slots(E, k) = Slots(D, k)
    <3>1. Reslotted(D, E, p.id, S \cup {h})
      BY SlotsWith
    <3> QED
      BY <3>1 DEF Reslotted
  <2>11. IsFiniteSet(E)
    BY <1>3, FS_AddElement
  <2>12. Cardinality(S \cup {h}) = Cardinality(S) + 1
    <3>1. IsFiniteSet(1 .. p.size)
      BY <2>5, FS_Interval
    <3>2. IsFiniteSet(S)
      BY <2>5, <3>1, FS_Subset
    <3> QED
      BY <2>6, <3>2, FS_AddElement
  <2>13. (1 .. p.size) \ (S \cup {h}) = ((1 .. p.size) \ S) \ {h}
    OBVIOUS
  <2> HIDE DEF S, E
  <2>14. IsDescPool(q, E)
    <3>1. Slots(E, q.id) = S \cup {h} /\ S \cup {h} # {} /\ S \cup {h} \subseteq 1 .. q.size
      BY <2>5, <2>6, <2>8, <2>10
    <3>2. IsList(q.free_list, (1 .. q.size) \ Slots(E, q.id))
      BY <2>6, <2>8, <2>13, <3>1
    <3>3. q.allocated_items = Cardinality(Slots(E, q.id))
      BY <2>5, <2>8, <2>12, <3>1
    <3>4. q = [id |-> q.id, size |-> q.size, allocated_items |-> q.allocated_items, free_list |-> q.free_list]
      BY ONLY <2>7, <2>8
    <3>5. q.id \in DescPoolIds /\ q.size \in Nat
      BY <2>5, <2>8
    <3> QED
      BY ONLY <3>1, <3>2, <3>3, <3>4, <3>5 DEF IsDescPool
  <2>15. DescPoolsAre((P \ {p}) \cup {q}, E)
    <3>1. \A e \in E : e = <<e[1], e[2]>> /\ (e \in D \/ e[1] = p.id)
      BY <1>3 DEF E
    <3> QED
      BY <1>1, <2>4, <2>8, <2>10, <2>11, <2>14, <3>1, DescPoolReplaced
  <2>16. q \notin P \ {p}
    BY <1>3, <2>4, <2>8
  <2>17. IsList(g.pools, (P \ {p}) \cup {q})
    <3>1. CASE q.free_list = <<>>
      <4>1. g.pools = Append(RemoveAt(ps, i), q)
        BY <2>3, <3>1
      <4>2. IsList(RemoveAt(ps, i), P \ {p})
        BY <1>1, <2>4, ListShrunk DEF p
      <4> QED
        BY <2>16, <4>1, <4>2, ListAppended
    <3>2. CASE q.free_list # <<>>
      <4>1. g.pools = [ps EXCEPT ![i] = q]
        BY <2>3, <3>2
      <4> QED
        <5>1. p = ps[i]
          BY DEF p
        <5> QED
          BY <1>1, <2>4, <2>16, <4>1, <5>1, ListReplaced
    <3> QED
      BY <3>1, <3>2
  <2>18. g.ld = <<p.id, h>>
    BY <2>3, <2>8
  <2>19. AreDescs(g.pools, E)
    BY <2>15, <2>17 DEF AreDescs
  <2>20. h \in Nat \ {0}
    BY <2>5, <2>6
  <2> QED
    BY <2>5, <2>9, <2>18, <2>19, <2>20 DEF E
<1>5. CASE ~HasDesc(ps)
  <2> DEFINE id == Min(DescPoolIds \ UsedIds(ps))
             q  == DescPool(id, STD_LINE_DESC_POOL_SIZE, 1)
             E  == D \cup {<<id, 1>>}
  <2>1. g.pools = <<q>> \o ps /\ g.ld = <<id, 1>>
    BY <1>5 DEF alloc_line_desc
  <2>2. id \in DescPoolIds \ UsedIds(ps)
    <3>1. DescPoolIds \ UsedIds(ps) \subseteq Nat
      BY DEF DescPoolIds
    <3> QED
      BY <3>1, MinIs
  <2> HIDE DEF id
  <2>3. \A p \in P : p.id # id
    BY <1>2, <2>2
  <2>4. \A d \in D : d[1] # id
    BY <1>3, <2>3
  <2>5. Slots(D, id) = {}
    BY <2>4 DEF Slots
  <2>6. Slots(E, id) = {1} /\ \A k : k # id => Slots(E, k) = Slots(D, k)
    <3>1. Reslotted(D, E, id, Slots(D, id) \cup {1})
      BY SlotsWith
    <3> QED
      BY <2>5, <3>1 DEF Reslotted
  <2> HIDE DEF E
  <2>7. 1 .. 1 = {1}
    OBVIOUS
  <2>8. Slots(E, id) = 1 .. 1
    BY <2>6, <2>7
  <2>9. IsDescPool(q, E) /\ q.id = id
    <3>1. STD_LINE_DESC_POOL_SIZE \in Nat /\ 1 \in 1 .. STD_LINE_DESC_POOL_SIZE /\ id \in DescPoolIds
      BY <2>2, DescAssumption
    <3>2. IsDescPool(q, E)
      BY <2>8, <3>1, NewDescPool
    <3> QED
      BY <3>2 DEF DescPool
  <2> HIDE DEF q
  <2>10. \A p \in P : IsDescPool(p, E)
    <3> TAKE p \in P
    <3>1. Slots(E, p.id) = Slots(D, p.id)
      BY <2>3, <2>6
    <3> QED
      BY <1>3, <3>1 DEF IsDescPool
  <2>11. IsFiniteSet(E)
    BY <1>3, FS_AddElement DEF E
  <2>12. \A e \in E : e = <<e[1], e[2]>> /\ \E p \in P \cup {q} : p.id = e[1]
    BY <1>3, <2>9 DEF E
  <2>13. DescPoolsAre(P \cup {q}, E)
    BY <1>3, <2>3, <2>9, <2>10, <2>11, <2>12 DEF DescPoolsAre
  <2>14. IsList(<<q>> \o ps, P \cup {q})
    <3>1. q \notin P
      BY <2>3, <2>9
    <3> QED
      BY <1>1, <3>1, ListGrown
  <2>15. AreDescs(g.pools, E)
    BY <2>1, <2>13, <2>14 DEF AreDescs
  <2>16. <<id, 1>> \notin D
    BY <2>4
  <2> QED
    BY <2>1, <2>2, <2>15, <2>16 DEF E
<1> QED
  BY <1>4, <1>5

(* free_line_desc(): a descriptor that was in use is free, and no other is; *)
(* the pool goes when it was the last one.                                 *)
THEOREM FreeDesc ==
  ASSUME NEW ps, NEW D, AreDescs(ps, D), NEW d \in D,
         NEW r, r = free_line_desc(ps, d)
  PROVE  AreDescs(r, D \ {d})
<1>1. PICK P : IsList(ps, P) /\ DescPoolsAre(P, D)
  BY DEF AreDescs
<1>2. /\ ps \in Seq(P) /\ DOMAIN ps = 1 .. Len(ps) /\ Len(ps) \in Nat
      /\ \A i \in DOMAIN ps : ps[i] \in P
      /\ \A i, j \in DOMAIN ps : ps[i].id = ps[j].id => i = j
  BY <1>1, DescPoolAt
<1>3. /\ \A p \in P : IsDescPool(p, D)
      /\ \A p, q \in P : p.id = q.id => p = q
      /\ IsFiniteSet(D) /\ \A e \in D : e = <<e[1], e[2]>> /\ \E p \in P : p.id = e[1]
  BY <1>1 DEF DescPoolsAre
<1> DEFINE i == CHOOSE j \in DOMAIN ps : ps[j].id = d[1]
           p == ps[i]
           h == d[2]
           q == [p EXCEPT !.free_list = <<h>> \o @, !.allocated_items = @ - 1]
           E == D \ {d}
           S == Slots(D, p.id)
<1>4. r = IF q.allocated_items = 0 THEN RemoveAt(ps, i) ELSE [ps EXCEPT ![i] = q]
  BY DEF free_line_desc
<1>5. i \in DOMAIN ps /\ p.id = d[1]
  <2>1. PICK x \in P : x.id = d[1]
    BY <1>3
  <2>2. \E j \in DOMAIN ps : ps[j] = x
    BY <1>1, <1>2 DEF IsList
  <2> QED
    BY <2>1, <2>2
<1> HIDE DEF i
<1>6. i \in 1 .. Len(ps) /\ p \in P /\ IsDescPool(p, D)
  BY <1>2, <1>3, <1>5
<1> HIDE DEF p
<1>7. /\ p = [id |-> p.id, size |-> p.size, allocated_items |-> p.allocated_items, free_list |-> p.free_list]
      /\ p.id \in DescPoolIds /\ p.size \in Nat /\ S \subseteq 1 .. p.size
      /\ p.allocated_items = Cardinality(S) /\ IsList(p.free_list, (1 .. p.size) \ S)
  BY <1>6 DEF IsDescPool
<1>8. h \in S
  BY <1>5 DEF Slots
<1>9. q = [id |-> p.id, size |-> p.size, allocated_items |-> p.allocated_items - 1, free_list |-> <<h>> \o p.free_list]
  <2> DEFINE f == <<h>> \o p.free_list
             a == p.allocated_items - 1
  <2>1. q = [p EXCEPT !.free_list = f, !.allocated_items = a]
    OBVIOUS
  <2> HIDE DEF f, a, q
  <2>2. q = [id |-> p.id, size |-> p.size, allocated_items |-> a, free_list |-> f]
    BY <1>7, <2>1, DescPoolExcept
  <2> QED
    BY <2>2 DEF f, a
<1> HIDE DEF q, h
<1>10. /\ q.id = p.id /\ q.size = p.size /\ q.allocated_items = p.allocated_items - 1
       /\ q.free_list = <<h>> \o p.free_list
  BY <1>9
<1>11. Slots(E, p.id) = S \ {h} /\ \A k : k # p.id => Slots(E, k) = Slots(D, k)
  BY <1>1, <1>5, SlotsWithout DEF h
<1>12. IsFiniteSet(E) /\ E \subseteq D
  BY <1>3, FS_Subset
<1> HIDE DEF S, E
<1>13. Cardinality(S \ {h}) = Cardinality(S) - 1 /\ IsFiniteSet(S \ {h})
  <2>1. IsFiniteSet(1 .. p.size)
    <3>1. 1 \in Int /\ p.size \in Int
      BY <1>7
    <3> QED
      BY ONLY <3>1, FS_Interval
  <2>2. IsFiniteSet(S)
    BY <1>7, <2>1, FS_Subset
  <2> QED
    BY <1>8, <2>2, FS_RemoveElement
<1>14. q.allocated_items = Cardinality(S \ {h})
  BY <1>7, <1>10, <1>13
<1>15. CASE q.allocated_items = 0
  <2>1. Slots(E, p.id) = {}
    BY <1>11, <1>13, <1>14, <1>15, FS_EmptySet
  <2>2. DescPoolsAre(P \ {p}, E)
    BY <1>1, <1>6, <1>11, <1>12, <2>1, DescPoolGone
  <2>3. r = RemoveAt(ps, i)
    BY <1>4, <1>15
  <2>4. IsList(r, P \ {p})
    BY <1>1, <1>6, <2>3, ListShrunk DEF p
  <2> QED
    BY <2>2, <2>4 DEF AreDescs, E
<1>16. CASE q.allocated_items # 0
  <2>1. S \ {h} # {}
    BY <1>14, <1>16, FS_EmptySet
  <2>2. IsList(q.free_list, (1 .. q.size) \ Slots(E, q.id))
    <3>1. (1 .. p.size) \ (S \ {h}) = ((1 .. p.size) \ S) \cup {h}
      BY <1>7, <1>8
    <3>2. IsList(<<h>> \o p.free_list, ((1 .. p.size) \ S) \cup {h})
      BY <1>7, <1>8, ListGrown
    <3> QED
      BY <1>10, <1>11, <3>1, <3>2
  <2>3. q = [id |-> q.id, size |-> q.size, allocated_items |-> q.allocated_items, free_list |-> q.free_list]
    BY ONLY <1>9, <1>10
  <2>4. /\ Slots(E, q.id) = S \ {h} /\ S \ {h} \subseteq 1 .. q.size
        /\ q.id \in DescPoolIds /\ q.size \in Nat
    BY <1>7, <1>10, <1>11
  <2>5. IsDescPool(q, E)
    BY ONLY <1>14, <2>1, <2>2, <2>3, <2>4 DEF IsDescPool
  <2>6. DescPoolsAre((P \ {p}) \cup {q}, E)
    <3>1. \A e \in E : e = <<e[1], e[2]>> /\ (e \in D \/ e[1] = p.id)
      BY <1>3 DEF E
    <3> QED
      BY <1>1, <1>6, <1>10, <1>11, <1>12, <2>5, <3>1, DescPoolReplaced
  <2>7. q \notin P \ {p}
    BY <1>3, <1>6, <1>10
  <2>8. r = [ps EXCEPT ![i] = q]
    BY <1>4, <1>16
  <2>9. IsList(r, (P \ {p}) \cup {q})
    <3>1. p = ps[i]
      BY DEF p
    <3>2. q \notin P \ {ps[i]} /\ i \in 1 .. Len(ps) /\ IsList(ps, P)
      BY <1>1, <1>6, <2>7, <3>1
    <3>3. IsList([ps EXCEPT ![i] = q], (P \ {ps[i]}) \cup {q})
      BY ONLY <3>2, ListReplaced
    <3> QED
      BY <2>8, <3>1, <3>3
  <2> QED
    BY <2>6, <2>9 DEF AreDescs, E
<1> QED
  BY <1>15, <1>16

(* The descriptors of a document that begins: one pool, whose first n are  *)
(* in use.                                                                 *)
LEMMA FirstDescs ==
  ASSUME NEW id \in DescPoolIds, NEW size \in Nat, NEW n \in 1 .. size
  PROVE  AreDescs(<<DescPool(id, size, n)>>, {<<id, k>> : k \in 1 .. n})
<1> DEFINE D == {<<id, k>> : k \in 1 .. n}
           p == DescPool(id, size, n)
<1>1. \A d \in D : d = <<d[1], d[2]>> /\ d[1] = id /\ d[2] \in 1 .. n
  OBVIOUS
<1>2. \A k \in 1 .. n : \E d \in D : d[1] = id /\ d[2] = k
  <2> TAKE k \in 1 .. n
  <2>1. <<id, k>> \in D /\ <<id, k>>[1] = id /\ <<id, k>>[2] = k
    OBVIOUS
  <2> HIDE DEF D
  <2> QED
    BY <2>1
<1>3. IsFiniteSet(D)
  <2>1. IsFiniteSet(1 .. n)
    BY FS_Interval
  <2>2. D = Bytes_(id, 1 .. n)
    BY DEF Bytes_
  <2> QED
    BY <2>1, <2>2, BytesCount
<1> HIDE DEF D
<1>4. Slots(D, id) = 1 .. n
  BY <1>1, <1>2 DEF Slots
<1>5. IsDescPool(p, D) /\ p.id = id
  <2>1. IsDescPool(p, D)
    BY <1>4, NewDescPool
  <2> QED
    BY <2>1 DEF DescPool
<1> HIDE DEF p
<1>6. DescPoolsAre({p}, D)
  BY <1>1, <1>3, <1>5 DEF DescPoolsAre
<1>7. IsList(<<p>>, {p})
  <2>1. <<p>> \in Seq({p}) /\ Len(<<p>>) = 1 /\ <<p>>[1] = p
    OBVIOUS
  <2> QED
    BY <2>1 DEF IsList
<1>8. AreDescs(<<p>>, D)
  BY <1>6, <1>7 DEF AreDescs
<1> QED
  BY <1>8 DEF D, p
=============================================================================
