-------------------------------- MODULE Pools -------------------------------
(***************************************************************************)
(* The memory of a document (buffer.c): the character pools, where the     *)
(* bytes of its lines live, and the pools of line descriptors, with the    *)
(* functions that give out and take back bytes and descriptors.            *)
(*                                                                         *)
(* The character pools of a document are a record m:                       *)
(*   m.pool       the char_pool with each identity in use;                 *)
(*   m.list       b->char_pool_list, the identities in the order of the    *)
(*                list, the first one being tried first;                   *)
(*   m.free, m.allocated   b->free_chars and b->allocated_chars.           *)
(* A byte of a pool that is Nul is free.  An address is a pair <<pool,     *)
(* offset>>, offsets starting from 0, and Null is no address.              *)
(*                                                                         *)
(* The list of the descriptor pools, b->line_desc_pool_list, is a sequence *)
(* of records; a descriptor is a pair <<pool, index>>, and the free list   *)
(* of a pool is the sequence of the indices that may be given out, the     *)
(* head first.                                                             *)
(***************************************************************************)
EXTENDS Integers, Sequences, SequencesExt

CONSTANTS
  Byte,          \* the bytes a line may hold
  Nul,           \* the byte 0
  STD_POOL_SIZE, \* a pool allocated by ne is at least this large
  MaxPools,      \* bound: pools of a document at the same time
  STD_LINE_DESC_POOL_SIZE, \* lines of a pool allocated by alloc_line_desc()
  MaxDescPools   \* bound: descriptor pools of a document at the same time

ASSUME ByteAssumption == Nul \notin Byte
ASSUME PoolAssumption == STD_POOL_SIZE \in Nat \ {0} /\ MaxPools \in Nat
ASSUME DescAssumption == STD_LINE_DESC_POOL_SIZE \in Nat \ {0, 1} /\ MaxDescPools \in Nat

Null == <<0, 0>>
PoolIds == 1 .. MaxPools
Plus(p, n) == <<p[1], p[2] + n>>

NoPools == [pool |-> <<>>, list |-> <<>>, free |-> 0, allocated |-> 0]

(* What the n bytes from address p on hold, and the pools after storing the *)
(* bytes of s there (memcpy and memmove).                                  *)
Read(m, p, n) == [i \in 1 .. n |-> m.pool[p[1]].pool[p[2] + i - 1]]
Write(m, p, s) ==
  [m EXCEPT !.pool[p[1]].pool =
     [j \in DOMAIN @ |-> IF j \in p[2] .. p[2] + Len(s) - 1 THEN s[j - p[2] + 1] ELSE @[j]]]
-----------------------------------------------------------------------------
(* A definition named Bad... is the one after it with a plausible mistake, *)
(* to be put in its place to see that a property can fail.                 *)
Before(cp, n) == cp.first_used >= n

(* last_used is taken for the first free byte.                             *)
BadFits(cp, n) == Before(cp, n) \/ cp.size - cp.last_used >= n

(* A pool can give n bytes before its first used one or after its last.    *)
Fits(cp, n)   == Before(cp, n) \/ cp.size - cp.last_used > n
HasRoom(m, n) == \E id \in DOMAIN m.pool : Fits(m.pool[id], n)

(* A new pool, which the caller asks for when no pool has room.            *)
NewPool(m, n) ==
  LET id   == Min(PoolIds \ DOMAIN m.pool)
      size == Max({n, STD_POOL_SIZE})
      cp   == [size |-> size, first_used |-> 0, last_used |-> n - 1,
               pool |-> [j \in 0 .. size - 1 |-> Nul]]
  IN  [mem |-> [pool |-> [k \in DOMAIN m.pool \cup {id} |-> IF k = id THEN cp ELSE m.pool[k]],
                list |-> <<id>> \o m.list,
                free |-> m.free + size - n, allocated |-> m.allocated + size],
       at  |-> <<id, 0>>]

(* The first pool of the list that has room gives the bytes and becomes the *)
(* head of the list.                                                       *)
alloc_chars(m, n) ==
  IF ~HasRoom(m, n) THEN NewPool(m, n)
  ELSE LET i  == Min({j \in DOMAIN m.list : Fits(m.pool[m.list[j]], n)})
           id == m.list[i]
           cp == m.pool[id]
       IN  [mem |-> [m EXCEPT
                      !.pool[id] = IF Before(cp, n) THEN [cp EXCEPT !.first_used = @ - n]
                                                    ELSE [cp EXCEPT !.last_used = @ + n],
                      !.list = <<id>> \o RemoveAt(@, i),
                      !.free = @ - n],
            at  |-> <<id, IF Before(cp, n) THEN cp.first_used - n ELSE cp.last_used + 1>>]
-----------------------------------------------------------------------------
(* How many of the bytes before or after offset j are free, up to n.       *)
FreeBefore(cp, j, n) ==
  Max({k \in 0 .. n : k <= j /\ \A i \in j - k .. j - 1 : cp.pool[i] = Nul})
FreeAfter(cp, j, n) ==
  Max({k \in 0 .. n : j + k <= cp.size /\ \A i \in j .. j + k - 1 : cp.pool[i] = Nul})

(* alloc_chars_around(): n free bytes on the two sides of the len bytes at  *)
(* p, looking first on the side the caller prefers.  The result says how   *)
(* many are after; "after" is -1 when there are not enough.                *)
alloc_chars_around(m, p, len, n, check_first_before) ==
  LET cp     == m.pool[p[1]]
      end    == p[2] + len
      first  == IF check_first_before THEN FreeBefore(cp, p[2], n) ELSE FreeAfter(cp, end, n)
      second == IF check_first_before THEN FreeAfter(cp, end, n - first)
                                      ELSE FreeBefore(cp, p[2], n - first)
      before == IF check_first_before THEN first ELSE second
      after  == IF check_first_before THEN second ELSE first
  IN  IF before + after < n THEN [mem |-> m, after |-> -1]
      ELSE [mem |-> [m EXCEPT
                      !.pool[p[1]] = [cp EXCEPT
                         !.first_used = IF @ = p[2] THEN p[2] - before ELSE @,
                         !.last_used  = IF @ = end - 1 THEN end + after - 1 ELSE @],
                      !.free = @ - n],
            after |-> after]
-----------------------------------------------------------------------------
(* free_chars(): the n bytes at p become free, and a pool without used     *)
(* bytes goes.                                                             *)
free_chars(m, p, n) ==
  IF p = Null \/ n = 0 THEN m
  ELSE LET id    == p[1]
           w     == Write(m, p, [i \in 1 .. n |-> Nul])
           cp    == w.pool[id]
           used  == {j \in cp.first_used .. cp.last_used : cp.pool[j] # Nul}
           first == IF p[2] = cp.first_used THEN Min(used \cup {cp.last_used + 1}) ELSE cp.first_used
           last  == IF p[2] + n - 1 = cp.last_used /\ first <= cp.last_used
                      THEN Max(used \cup {first - 1}) ELSE cp.last_used
       IN  IF last < first
             THEN [pool |-> Restrict(m.pool, DOMAIN m.pool \ {id}),
                   list |-> RemoveAt(m.list, CHOOSE j \in DOMAIN m.list : m.list[j] = id),
                   free |-> m.free + n - cp.size,
                   allocated |-> m.allocated - cp.size]
             ELSE [w EXCEPT !.pool[id] = [cp EXCEPT !.first_used = first, !.last_used = last],
                            !.free = @ + n]
-----------------------------------------------------------------------------
(* assert_char_pool() of ne.h, and every byte used is between the two      *)
(* that the pool says are the first and the last.                          *)
assert_char_pool(cp) ==
  /\ cp.first_used \in 0 .. cp.last_used /\ cp.last_used < cp.size
  /\ cp.pool[cp.first_used] # Nul /\ cp.pool[cp.last_used] # Nul
  /\ \A j \in 0 .. cp.size - 1 : cp.pool[j] # Nul => j \in cp.first_used .. cp.last_used
-----------------------------------------------------------------------------
DescPoolIds == 1 .. MaxDescPools
UsedIds(ps) == {ps[i].id : i \in DOMAIN ps}
HasDesc(ps) == \E i \in DOMAIN ps : ps[i].free_list # <<>>

(* A pool of size descriptors, the first n of which are given out.         *)
DescPool(id, size, n) ==
  [id |-> id, size |-> size, allocated_items |-> n,
   free_list |-> [i \in 1 .. size - n |-> n + i]]

(* alloc_line_desc(): from the first pool that is not full, which goes to  *)
(* the tail of the list when it becomes so, or from a new pool at the head. *)
alloc_line_desc(ps) ==
  IF HasDesc(ps)
  THEN LET i == Min({j \in DOMAIN ps : ps[j].free_list # <<>>})
           q == [ps[i] EXCEPT !.free_list = Tail(@), !.allocated_items = @ + 1]
       IN  [pools |-> IF q.free_list = <<>> THEN Append(RemoveAt(ps, i), q)
                                            ELSE [ps EXCEPT ![i] = q],
            ld    |-> <<q.id, Head(ps[i].free_list)>>]
  ELSE LET id == Min(DescPoolIds \ UsedIds(ps))
       IN  [pools |-> <<DescPool(id, STD_LINE_DESC_POOL_SIZE, 1)>> \o ps,
            ld    |-> <<id, 1>>]

(* The descriptor is not put back in the free list.                        *)
Bad_free_line_desc(ps, ld) ==
  LET i == CHOOSE j \in DOMAIN ps : ps[j].id = ld[1]
      q == [ps[i] EXCEPT !.allocated_items = @ - 1]
  IN  IF q.allocated_items = 0 THEN RemoveAt(ps, i) ELSE [ps EXCEPT ![i] = q]

(* free_line_desc(): a pool none of whose descriptors is given out goes.   *)
free_line_desc(ps, ld) ==
  LET i == CHOOSE j \in DOMAIN ps : ps[j].id = ld[1]
      q == [ps[i] EXCEPT !.free_list = <<ld[2]>> \o @, !.allocated_items = @ - 1]
  IN  IF q.allocated_items = 0 THEN RemoveAt(ps, i) ELSE [ps EXCEPT ![i] = q]
-----------------------------------------------------------------------------
(* assert_line_desc_pool() of ne.h.                                        *)
assert_line_desc_pool(p) ==
  /\ p.allocated_items <= p.size /\ p.size # 0
  /\ p.allocated_items = p.size \/ p.free_list # <<>>
=============================================================================
