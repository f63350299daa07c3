------------------------------ MODULE DocLines ------------------------------
(***************************************************************************)
(* A document as its lines, for the commands that work on it: what         *)
(* insert_stream() and delete_stream() of buffer.c make of the lines and   *)
(* of the points (the mark and the bookmarks) when memory does not run     *)
(* out (TextLines tells how they do it), and the columns of a line.        *)
(*                                                                         *)
(* A document is a record d:                                               *)
(*   d.lines  the lines, numbered from 1, each a sequence of characters;   *)
(*   d.pts    the points that are set, with line and pos;                  *)
(*   d.undo   the undo steps of one command: the level of its chains, if   *)
(*            the open chain has a step, and how many UNDO_A would take    *)
(*            to undo it.                                                  *)
(* A character is one element of a line, whatever its encoding, so that    *)
(* positions count characters.                                             *)
(***************************************************************************)
EXTENDS Integers, Sequences, SequencesExt

CONSTANTS NL, Space, Tab, \* what ends a line of a stream, and two characters
          Wide            \* the characters that take two columns

ASSUME DistinctAssumption == NL # Space /\ NL # Tab /\ Space # Tab
ASSUME WideAssumption == NL \notin Wide /\ Space \notin Wide /\ Tab \notin Wide

NoUndo == [level |-> 0, used |-> FALSE, groups |-> 0]
Point(l, p) == [line |-> l, pos |-> p]

(* The pieces of a stream between its line ends.                           *)
Written(ls, c) == IF c = NL THEN Append(ls, <<>>) ELSE [ls EXCEPT ![Len(ls)] = Append(@, c)]
Split(s) == FoldLeft(Written, <<<<>>>>, s)

(* Lines i to j as a stream.                                               *)
Join(ls, i, j) ==
  FlattenSeq([k \in 1 .. j - i + 1 |-> ls[i + k - 1] \o IF k = j - i + 1 THEN <<>> ELSE <<NL>>])

Moved(d, F(_)) == [x \in DOMAIN d.pts |-> F(d.pts[x])]
-----------------------------------------------------------------------------
(* start_undo_chain(), end_undo_chain() and add_undo_step().               *)
start_undo_chain(d) ==
  [d EXCEPT !.undo = [level |-> @.level + 1, used |-> @.level # 0 /\ @.used, groups |-> @.groups]]
end_undo_chain(d) == [d EXCEPT !.undo.level = @ - 1]
add_undo_step(d) ==
  [d EXCEPT !.undo = [level |-> @.level, used |-> TRUE,
                      groups |-> IF @.level > 0 /\ @.used THEN @.groups ELSE @.groups + 1]]

(* A point after the insertion of stream s at (l, p).                      *)
AfterInsert(pt, l, p, s) ==
  LET pieces == Split(s)
      k == Len(pieces) - 1
  IN  IF pt.line = l /\ pt.pos > p
        THEN Point(l + k, pt.pos + Len(Last(pieces)) - (IF k = 0 THEN 0 ELSE p))
      ELSE IF pt.line > l THEN [pt EXCEPT !.line = @ + k]
      ELSE pt

insert_stream(d, l, p, s) ==
  IF s = <<>> \/ p > Len(d.lines[l]) THEN d
  ELSE [add_undo_step(d) EXCEPT
         !.lines = SubSeq(@, 1, l - 1)
                     \o Split(SubSeq(@[l], 1, p) \o s \o SubSeq(@[l], p + 1, Len(@[l])))
                     \o SubSeq(@, l + 1, Len(@)),
         !.pts = Moved(d, LAMBDA pt : AfterInsert(pt, l, p, s))]

insert_spaces(d, l, p, n) == insert_stream(d, l, p, [i \in 1 .. n |-> Space])
insert_one_line(d, l, p) == insert_stream(d, l, p, <<NL>>)

(* A point after the deletion of one character, or line end, at (l, p).    *)
AfterDelete(pt, ls, l, p) ==
  IF p < Len(ls[l])
    THEN IF pt.line = l /\ pt.pos > p THEN [pt EXCEPT !.pos = @ - 1] ELSE pt
  ELSE IF pt.line = l + 1 THEN Point(l, pt.pos + Len(ls[l]))
  ELSE IF pt.line > l THEN [pt EXCEPT !.line = @ - 1]
  ELSE pt

AtEndOfText(ls, l, p) == p = Len(ls[l]) /\ l = Len(ls)

WithoutOne(ls, l, p) ==
  IF p < Len(ls[l]) THEN [ls EXCEPT ![l] = RemoveAt(@, p + 1)]
  ELSE RemoveAt([ls EXCEPT ![l] = @ \o ls[l + 1]], l + 1)
DeleteOne(d, l, p) ==
  IF AtEndOfText(d.lines, l, p) THEN d
  ELSE [d EXCEPT
         !.lines = WithoutOne(@, l, p),
         !.pts = Moved(d, LAMBDA pt : AfterDelete(pt, d.lines, l, p))]

delete_stream(d, l, p, n) ==
  IF n = 0 \/ p > Len(d.lines[l]) \/ AtEndOfText(d.lines, l, p) THEN d
  ELSE FoldLeft(LAMBDA x, i : DeleteOne(x, l, p), add_undo_step(d), [i \in 1 .. n |-> i])
-----------------------------------------------------------------------------
char_width(c) == IF c \in Wide THEN 2 ELSE 1
TabStop(w, tab) == (w + tab) - (w % tab)
NextColumn(w, c, tab) == IF c = Tab THEN TabStop(w, tab) ELSE w + char_width(c)

(* The column of position n of a line, which goes on with spaces forever.  *)
calc_width(ln, n, tab) ==
  FoldLeft(LAMBDA w, c : NextColumn(w, c, tab), 0, SubSeq(ln, 1, Min({n, Len(ln)}))) + Max({0, n - Len(ln)})

(* The position of the character of a line that is at a column, or its end.*)
calc_pos(ln, col, tab) ==
  Min({q \in 0 .. Len(ln) - 1 : calc_width(ln, q, tab) + char_width(ln[q + 1]) > col}
        \cup {Len(ln)})
=============================================================================
