------------------------------- MODULE ReqList ------------------------------
(***************************************************************************)
(* The lists of strings that the requesters show (request.c) and how they  *)
(* are compared (support.c).  A string is a sequence of codes; the strings *)
(* of a list l follow one another in l.chars, each with its final NUL and  *)
(* one more, which an entry that is marked has after its mark; an entry is *)
(* the place of its string, as the pointers of the code are.               *)
(***************************************************************************)
EXTENDS Integers, Sequences, SequencesExt, FiniteSets, FiniteSetsExt

NULchar == 0
Slash == 47
DotChar == 46

localised_up_case(c) == IF c \in 97 .. 122 THEN c - 32 ELSE c
Upper(str) == [i \in DOMAIN str |-> localised_up_case(str[i])]
Start(str, n) == SubSeq(str, 1, Min({n, Len(str)}))

(* strcmp() and its relatives: below, at or above 0.                       *)
FirstDifference(a, b) == {i \in 1 .. Min({Len(a), Len(b)}) : a[i] # b[i]}
strcmp(a, b) ==
  IF FirstDifference(a, b) = {} THEN Len(a) - Len(b)
  ELSE a[Min(FirstDifference(a, b))] - b[Min(FirstDifference(a, b))]
SamePrefix(a, b, n) == Upper(Start(a, n)) = Upper(Start(b, n))   \* strncasecmp() is 0
strdictcmp(a, b) == IF Upper(a) # Upper(b) THEN strcmp(Upper(a), Upper(b)) ELSE strcmp(a, b)

(* Files: the parent directory, the directory, then the others.            *)
Parents == {<<DotChar, DotChar, Slash>>, <<DotChar, DotChar>>}
Selves == {<<DotChar, Slash>>, <<DotChar>>}
Rank(str) == IF str \in Parents THEN 0 ELSE IF str \in Selves THEN 1 ELSE 2
filenamecmp(a, b) ==
  IF Rank(a) # Rank(b) THEN Rank(a) - Rank(b) ELSE IF Rank(a) < 2 THEN Len(b) - Len(a) ELSE strdictcmp(a, b)
-----------------------------------------------------------------------------
StrAt(chars, p) ==
  LET end == CHOOSE k \in p .. Len(chars) : chars[k] = NULchar /\ \A j \in p .. k - 1 : chars[j] # NULchar
  IN  SubSeq(chars, p, end - 1)
TextOf(l, i) == StrAt(l.chars, l.entries[i])
Texts(l) == [i \in DOMAIN l.entries |-> TextOf(l, i)]

(* cmp is the order of the entries, or "none": then they stay as they are  *)
(* added.                                                                  *)
req_list_init(cmp, allow_dupes, allow_reorder, suffix) ==
  [chars |-> <<>>, entries |-> <<>>, lengths |-> <<>>, reorder |-> <<>>, cmp |-> cmp, allow_dupes |-> allow_dupes,
   allow_reorder |-> allow_reorder, suffix |-> suffix, reordered |-> FALSE, ignore_tab |-> FALSE, prune |-> FALSE]

Compare(l, a, b) ==
  CASE l.cmp = "files" -> filenamecmp(a, b) [] l.cmp = "dict" -> strdictcmp(a, b) [] OTHER -> strcmp(a, b)

(* The search for the place of a string between the entries left and       *)
(* right, counted from 0: where it goes, or an entry that is the same.     *)
Middle(left, right) == (left + right) \div 2
RECURSIVE Place(_, _, _, _)
Place(l, str, left, right) ==
  IF left > right THEN [at |-> left, same |-> FALSE]
  ELSE LET m == Middle(left, right)
           c == Compare(l, str, TextOf(l, m + 1))
       IN  IF c < 0 THEN Place(l, str, left, m - 1)
           ELSE IF c > 0 THEN Place(l, str, m + 1, right)
           ELSE [at |-> m + 1, same |-> TRUE]

Has(l, str) ==
  IF l.cmp # "none" THEN Place(l, str, 0, Len(l.entries) - 1).same ELSE str \in ToSet(Texts(l))
InsertionPlace(l, str) ==
  IF l.cmp # "none" THEN Place(l, str, 0, Len(l.entries) - 1).at ELSE Len(l.entries)
Added(l, str, stored, at) ==
  [l EXCEPT !.chars = @ \o stored, !.entries = InsertAt(@, at + 1, Len(l.chars) + 1),
            !.lengths = InsertAt(@, at + 1, Len(stored))]
req_list_add(l, str, marked) ==
  IF ~l.allow_dupes /\ Has(l, str) THEN l
  ELSE Added(l, str,
             str \o (IF l.suffix # NULchar /\ marked THEN <<NULchar, l.suffix, NULchar>> ELSE <<NULchar, NULchar>>),
             InsertionPlace(l, str))

(* The mark changes places with the NUL before it.                         *)
Finalized(chars, p) ==
  LET end == p + Len(StrAt(chars, p))
  IN  [chars EXCEPT ![end] = chars[end + 1], ![end + 1] = NULchar]
req_list_finalize(l) ==
  [l EXCEPT !.chars = FoldLeft(LAMBDA cs, p : Finalized(cs, p), @, l.entries),
            !.reorder = IF l.allow_reorder THEN [i \in DOMAIN l.entries |-> i - 1] ELSE <<>>]

(* How many chars go with an entry: one more than its string when the list *)
(* is not yet final.                                                       *)
LengthToDelete(l, i) ==
  LET end == l.entries[i] + Len(TextOf(l, i))
  IN  Len(TextOf(l, i)) + (IF end + 1 \in DOMAIN l.chars /\ l.chars[end + 1] # NULchar THEN 3 ELSE 2)
Shifted(p, from, n) == IF p >= from THEN p - n ELSE p

(* What was ordered after the entry that goes moves up by one.             *)
req_list_del(l, i) ==
  LET p == l.entries[i]
      n == LengthToDelete(l, i)
  IN  [l EXCEPT !.chars = SubSeq(@, 1, p - 1) \o SubSeq(@, p + n, Len(@)),
                !.entries = [j \in 1 .. Len(@) - 1 |-> Shifted(RemoveAt(@, i)[j], p, n)],
                !.lengths = RemoveAt(@, i),
                !.reorder = IF @ = <<>> THEN @
                            ELSE [j \in 1 .. Len(@) - 1 |->
                                    LET r == RemoveAt(@, i)[j] IN IF r < l.reorder[i] THEN r ELSE r - 1]]
=============================================================================
