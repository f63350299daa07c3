------------------------------- MODULE Search -------------------------------
(***************************************************************************)
(* Searching (search.c), on the editor states of Cursor. To those it adds  *)
(*   e.find_string, e.find_string_changed   what is searched for, and      *)
(*                       whether it differs from what was compiled last;   *)
(*   e.last_was_regexp   how it is searched;                               *)
(*   e.compiled          what the shift table d, or the compiled regular   *)
(*                       expression, was made from;                        *)
(*   e.opt.search_back, e.opt.case_search.                                 *)
(* Only one document is searched here, so that whether a string changed    *)
(* is a Boolean. Patterns are strings of characters; as a regular          *)
(* expression a pattern matches itself, and Star c matches as many c as    *)
(* there are, none included (re_search() is external).                     *)
(***************************************************************************)
EXTENDS Cursor

CONSTANTS Star, \* in a regular expression, after a character
          Upper \* the upper-case letters of the letters that have one

to_upper(c) == IF c \in DOMAIN Upper THEN Upper[c] ELSE c
to_lower(c) ==
  IF \E l \in DOMAIN Upper : Upper[l] = c THEN CHOOSE l \in DOMAIN Upper : Upper[l] = c ELSE c

Conv(e, c) == IF e.opt.case_search THEN c ELSE to_upper(c)
SameChar(e, c, k) == Conv(e, c) = Conv(e, k)

(* The pattern begins at position p of a line.                             *)
OccursAt(e, ln, pat, p) ==
  /\ p >= 0 /\ p + Len(pat) <= Len(ln)
  /\ \A i \in 1 .. Len(pat) : SameChar(e, ln[p + i], pat[i])
-----------------------------------------------------------------------------
(* find(): the table of the simplified Boyer-Moore algorithm. Each         *)
(* character of a pattern shifts to its last place before the end of the   *)
(* pattern or, backwards, to its first place after the beginning.          *)
Compiled(e) == [pat |-> e.find_string, back |-> e.opt.search_back, case |-> e.opt.case_search]

(* A string set anew: what was compiled before it is not used again.       *)
NoTable == [pat |-> <<>>, back |-> FALSE, case |-> FALSE]
Changed(e) == [e EXCEPT !.find_string_changed = TRUE, !.compiled = NoTable]

FoldCase(t, c) == IF t.case THEN c ELSE to_upper(c)
Places(t, c) == {i \in 0 .. Len(t.pat) - 1 : FoldCase(t, t.pat[i + 1]) = c}
(* One character too far.                                                  *)
BadShift(t, c) ==
  LET P == Places(t, c) \ {IF t.back THEN 0 ELSE Len(t.pat) - 1}
  IN  IF P = {} THEN Len(t.pat) ELSE IF t.back THEN Min(P) ELSE Len(t.pat) - Max(P)

(* d[c] of the table compiled as t.                                        *)
Shift(t, c) ==
  IF t.back THEN LET P == Places(t, c) \ {0}
                 IN  IF P = {} THEN Len(t.pat) ELSE Min(P)
            ELSE LET P == Places(t, c) \ {Len(t.pat) - 1}
                 IN  IF P = {} THEN Len(t.pat) ELSE Len(t.pat) - Max(P) - 1

(* Where the scan of line ln ends, from the last character of the pattern  *)
(* at p, or from its first one at p; -1 if there is no occurrence.         *)
ScanForward(e, ln, from) ==
  LET m == Len(e.find_string)
      f[p \in Nat] == IF p >= Len(ln) THEN -1
                      ELSE IF OccursAt(e, ln, e.find_string, p - m + 1) THEN p - m + 1
                      ELSE f[p + Shift(e.compiled, Conv(e, ln[p + 1]))]
  IN  f[from + m - 1]

ScanBack(e, ln, from) ==
  LET f[p \in Int] == IF p < 0 \/ Len(ln) < Len(e.find_string) THEN -1
                      ELSE IF OccursAt(e, ln, e.find_string, p) THEN p
                      ELSE f[p - Shift(e.compiled, Conv(e, ln[p + 1]))]
  IN  f[from]

(* re_search() from position p, forward or backward: where the expression  *)
(* of the document first matches, or -1.                                   *)
IsStar(pat) == Len(pat) = 2 /\ pat[2] = Star
Matches(e, ln, p) == p <= Len(ln) /\ (IsStar(e.find_string) \/ OccursAt(e, ln, e.find_string, p))
re_search(e, ln, from) ==
  IF from \notin 0 .. Len(ln) THEN -1
  ELSE IF e.opt.search_back THEN Max({-1} \cup {p \in 0 .. from : Matches(e, ln, p)})
  ELSE LET P == {p \in from .. Len(ln) : Matches(e, ln, p)} IN IF P = {} THEN -1 ELSE Min(P)

(* How long the match of an expression at p is.                            *)
MatchLen(e, ln, p) ==
  IF IsStar(e.find_string)
    THEN Min({n \in 0 .. Len(ln) - p : \/ p + n = Len(ln)
                                       \/ ~SameChar(e, ln[p + n + 1], e.find_string[1])})
    ELSE Len(e.find_string)

Scan(e, ln, from) ==
  IF e.last_was_regexp THEN re_search(e, ln, from)
  ELSE IF e.opt.search_back THEN ScanBack(e, ln, from)
  ELSE ScanForward(e, ln, from)
-----------------------------------------------------------------------------
(* The lines searched, in their order: those after the cursor and, when    *)
(* the search wraps once, the others and that of the cursor again.         *)
Order(e, wrap) ==
  LET c == e.cur_line_desc  n == num_lines(e)
  IN  IF e.opt.search_back
        THEN [i \in 1 .. c |-> c + 1 - i] \o (IF wrap THEN [i \in 1 .. n + 1 - c |-> n + 1 - i] ELSE <<>>)
        ELSE [i \in 1 .. n + 1 - c |-> c + i - 1] \o (IF wrap THEN [i \in 1 .. c |-> i] ELSE <<>>)

(* Where the search starts in the line of the cursor, and in the others.   *)
StartHere(e, skip) ==
  IF ~e.opt.search_back THEN e.cur_pos + (IF skip THEN 1 ELSE 0)
  ELSE IF e.last_was_regexp \/ e.cur_pos <= LineLen(e) - Len(e.find_string)
    THEN e.cur_pos - (IF skip THEN 1 ELSE 0)
  ELSE LineLen(e) - Len(e.find_string)

StartThere(e, ln) ==
  IF ~e.opt.search_back THEN 0 ELSE IF e.last_was_regexp THEN Len(ln) ELSE Len(ln) - Len(e.find_string)

HitIn(e, order, skip, k) ==
  Scan(e, e.lines[order[k]], IF k = 1 THEN StartHere(e, skip) ELSE StartThere(e, e.lines[order[k]]))

(* The place found, as the place of its line in the order, or 0.           *)
FirstHit(e, order, skip) ==
  LET hits == {k \in DOMAIN order : HitIn(e, order, skip, k) # -1} IN IF hits = {} THEN 0 ELSE Min(hits)

Recompile(e) ==
  IF e.find_string_changed \/ (e.last_was_regexp /\ e.compiled.case # e.opt.case_search)
    THEN [e EXCEPT !.compiled = Compiled(e), !.find_string_changed = FALSE]
    ELSE e

GotoHit(e, order, skip, k) ==
  IF k = 0 THEN e ELSE goto_line_pos(e, order[k] - 1, HitIn(e, order, skip, k))

FoundIn(e, order, skip) == GotoHit(e, order, skip, FirstHit(e, order, skip))
Found(e, skip, wrap) == FirstHit(Recompile(e), Order(e, wrap), skip) # 0
find(e, skip, wrap) == FoundIn(Recompile(e), Order(e, wrap), skip)
-----------------------------------------------------------------------------
(* find_matching_bracket(): from a bracket, in its direction, the place    *)
(* where as many have been closed as opened.                               *)
CONSTANT Brackets \* the pairs, a set of <<open, close>>

OnBracket(e) ==
  e.cur_pos < LineLen(e) /\ \E b \in Brackets : Line(e)[e.cur_pos + 1] \in {b[1], b[2]}
PairAt(e) == CHOOSE b \in Brackets : Line(e)[e.cur_pos + 1] \in {b[1], b[2]}
Closing(e) == Line(e)[e.cur_pos + 1] = PairAt(e)[2]

(* The places of the text from the bracket on, in its direction.           *)
BracketPath(e) ==
  LET c == e.cur_line_desc
      on(l) == [i \in 1 .. Len(e.lines[l]) |-> Point(l, i - 1)]
      all == FlattenSeq([l \in 1 .. num_lines(e) |-> on(l)])
      here == CHOOSE i \in DOMAIN all : all[i] = Point(c, e.cur_pos)
  IN  IF Closing(e) THEN Reverse(SubSeq(all, 1, here)) ELSE SubSeq(all, here, Len(all))

(* The brackets of the pair open after the first i places.                 *)
Depth(e, path, i) ==
  LET same == e.lines[path[1].line][path[1].pos + 1]
      char(k) == e.lines[path[k].line][path[k].pos + 1]
      other == IF Closing(e) THEN PairAt(e)[1] ELSE PairAt(e)[2]
  IN  Cardinality({k \in 1 .. i : char(k) = same}) - Cardinality({k \in 1 .. i : char(k) = other})

Balanced(e, path) == {i \in DOMAIN path : Depth(e, path, i) = 0}
MatchOn(e, path) ==
  IF Balanced(e, path) = {} THEN e
  ELSE goto_line_pos(e, path[Min(Balanced(e, path))].line - 1, path[Min(Balanced(e, path))].pos)
match_bracket(e) == IF OnBracket(e) THEN MatchOn(e, BracketPath(e)) ELSE e
=============================================================================
