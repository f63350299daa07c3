------------------------------ MODULE EditLines -----------------------------
(***************************************************************************)
(* The commands of actions.c that edit one place of a document, and the    *)
(* functions of buffer.c, edit.c and navigation.c they call; then those    *)
(* that edit more than one, Paragraph, Center, Shift and the replacements  *)
(* of search.c. They work on the editor states of Search, and to those     *)
(* this adds                                                               *)
(*   e.steps, e.cur_step   the undo steps, as UndoBuffer explains them: an *)
(*                         insertion or a deletion, and whether the chain  *)
(*                         of the step goes on after it (its position is   *)
(*                         negative in the code);                          *)
(*   e.last_deleted        the last line that was deleted, <<>> for none;  *)
(*   e.opt                 insert, tabs, del_tabs, auto_indent, word_wrap, *)
(*                         right_margin and read_only;                     *)
(*   e.pts[Mark], e.vertical   the beginning of the block when it is set,  *)
(*                         and if it is vertical;                          *)
(*   e.replace_string      what is put in the place of what is found.      *)
(***************************************************************************)
EXTENDS Search

CONSTANTS Punctuation, \* characters that are neither part of a word nor spaces
          Mark,        \* the name of the mark
          Whole        \* in a replacement, all that an expression matched

IsSpace(c) == c \in {Space, Tab}
IsWord(c)  == ~IsSpace(c) /\ c \notin Punctuation
IndentOf(ln) == Min({p \in 0 .. Len(ln) : p = Len(ln) \/ ~IsSpace(ln[p + 1])})
EndOf(ln)    == Max({p \in 0 .. Len(ln) : p = 0 \/ ~IsSpace(ln[p])})
-----------------------------------------------------------------------------
(* insert_stream() and delete_stream() on the line with descriptor ld, and *)
(* what becomes of the descriptors the cursor and the screen point to.     *)
Place(x, ld, k) == IF x <= ld THEN x ELSE IF x + k > ld THEN x + k ELSE 0
Relinked(f, ld, k) ==
  [f EXCEPT !.cur_line_desc = Place(@, ld, k), !.top_line_desc = Place(@, ld, k)]
Edited(e, f, ld) == Relinked(f, ld, Len(f.lines) - Len(e.lines))

Record(e, f, ins, ld, p, s) ==
  IF f.lines = e.lines THEN e
  ELSE [f EXCEPT !.steps = Append(SubSeq(@, 1, e.cur_step),
                                  [ins |-> ins, line |-> ld - 1, pos |-> p, s |-> s, more |-> e.undo.level > 0]),
                 !.cur_step = @ + 1]

Insert(e, ld, p, s) == Record(e, Edited(e, insert_stream(e, ld, p, s), ld), TRUE, ld, p, s)
InsertSpaces(e, ld, p, n) == Insert(e, ld, p, [i \in 1 .. n |-> Space])

(* The n characters and line ends from position p of a line on.            *)
TextFrom(e, ld, p, n) ==
  LET all == Join(e.lines, ld, num_lines(e)) IN SubSeq(all, p + 1, Min({p + n, Len(all)}))
Delete(e, ld, p, n) ==
  Record(e, Edited(e, delete_stream(e, ld, p, n), ld), FALSE, ld, p, TextFrom(e, ld, p, n))

(* undo() and redo(): without a record, at the cursor.                     *)
Raw(e, f) == [Edited(e, f, e.cur_line_desc) EXCEPT !.undo = e.undo]
Put(e, s)  == Raw(e, insert_stream(e, e.cur_line_desc, e.cur_pos, s))
Take(e, s) == Raw(e, delete_stream(e, e.cur_line_desc, e.cur_pos, Len(s)))
At(e, step) == goto_line_pos(e, step.line, step.pos)
UndoStep(e, step) ==
  [(IF step.ins THEN Take(At(e, step), step.s) ELSE Put(At(e, step), step.s)) EXCEPT !.cur_step = @ - 1]
RedoStep(e, step) ==
  [(IF step.ins THEN Put(At(e, step), step.s) ELSE Take(At(e, step), step.s)) EXCEPT !.cur_step = @ + 1]

Closed(e) == {i \in DOMAIN e.steps : ~e.steps[i].more}
GroupStart(e) == Max({0} \cup {i \in Closed(e) : i < e.cur_step}) + 1
GroupEnd(e)   == Min({Len(e.steps)} \cup {i \in Closed(e) : i > e.cur_step})
undo(e) ==
  IF e.cur_step = 0 THEN e
  ELSE FoldLeft(UndoStep, e, Reverse(SubSeq(e.steps, GroupStart(e), e.cur_step)))
redo(e) ==
  IF e.cur_step = Len(e.steps) THEN e
  ELSE FoldLeft(RedoStep, e, SubSeq(e.steps, e.cur_step + 1, GroupEnd(e)))

Begin(e)  == start_undo_chain(e)
Finish(e) ==
  LET f == end_undo_chain(e)
  IN  IF f.undo.level > 0 \/ f.cur_step = 0 THEN f ELSE [f EXCEPT !.steps[f.cur_step].more = FALSE]
-----------------------------------------------------------------------------
(* Words. A spot is a position of a line, given by its descriptor, or      *)
(* NoSpot beyond the ends of the text.                                     *)
NoSpot == Point(0, 0)
next_spot(e, back, s) ==
  IF ~back
    THEN IF s.pos < Len(e.lines[s.line]) THEN Point(s.line, s.pos + 1)
         ELSE IF s.line < num_lines(e) THEN Point(s.line + 1, 0)
         ELSE NoSpot
    ELSE IF s.pos > 0 THEN Point(s.line, Min({s.pos - 1, Len(e.lines[s.line])}))
         ELSE IF s.line > 1 THEN Point(s.line - 1, Len(e.lines[s.line - 1]))
         ELSE NoSpot

InWord(e, s) == s # NoSpot /\ s.pos < Len(e.lines[s.line]) /\ IsWord(e.lines[s.line][s.pos + 1])

(* The walk of search_word() from a spot: where it stops when so many      *)
(* borders of words have been crossed, or NoSpot.                          *)
RECURSIVE WordWalk(_, _, _, _)
WordWalk(e, back, s, left) ==
  LET n == next_spot(e, back, s)
      border == InWord(e, n) # InWord(e, s)
  IN  IF n = NoSpot /\ ~back THEN NoSpot
      ELSE IF border /\ left = 1 THEN IF back THEN s ELSE n
      ELSE IF n = NoSpot THEN NoSpot
      ELSE WordWalk(e, back, n, left - (IF border THEN 1 ELSE 0))

Spot(e) == Point(e.cur_line_desc, e.cur_pos)
WordSpot(e, back, start) ==
  LET n == next_spot(e, back, Spot(e))
      s == IF back THEN n ELSE Spot(e)
  IN  IF n = NoSpot THEN NoSpot
      ELSE WordWalk(e, back, s, IF (start = back) = InWord(e, s) THEN 1 ELSE 2)

search_word(e, back, start) ==
  LET s == WordSpot(e, back, start) IN IF s = NoSpot THEN e ELSE goto_line_pos(e, s.line - 1, s.pos)

(* The ends of the word of the cursor.                                     *)
WordBefore(e, p) == \A q \in p .. e.cur_pos - 1 : IsWord(Line(e)[q + 1])
move_to_sow(e) ==
  IF e.cur_pos \notin 1 .. LineLen(e) \/ ~WordBefore(e, e.cur_pos - 1) THEN e
  ELSE goto_pos(e, Min({p \in 0 .. e.cur_pos - 1 : WordBefore(e, p)}))
move_to_eow(e) ==
  IF ~InWord(e, Spot(e)) THEN e
  ELSE goto_pos(e, Min({p \in e.cur_pos .. LineLen(e) : ~InWord(e, Point(e.cur_line_desc, p))}))

(* ToUpper, ToLower and Capitalize: the word of the cursor or the next one *)
(* with its case changed, and the cursor on the word after it.             *)
WordEnd(e) == Min({p \in e.cur_pos .. LineLen(e) : ~InWord(e, Point(e.cur_line_desc, p))})
Recased(c, how, i) == IF how = "lower" \/ (how = "capital" /\ i > 1) THEN to_lower(c) ELSE to_upper(c)
Cased(e, how) ==
  [i \in 1 .. WordEnd(e) - e.cur_pos |-> Recased(Line(e)[e.cur_pos + i], how, i)]
Rewrite(e, w) ==
  IF w = SubSeq(Line(e), e.cur_pos + 1, e.cur_pos + Len(w)) THEN e
  ELSE Finish(Insert(Delete(Begin(e), e.cur_line_desc, e.cur_pos, Len(w)), e.cur_line_desc, e.cur_pos, w))
CaseWord(e, w) == IF w = <<>> THEN char_right(e) ELSE search_word(Rewrite(e, w), FALSE, TRUE)
CaseOf(e, how) == CaseWord(e, Cased(e, how))
to_something(e, how) ==
  IF LastLine(e) /\ e.cur_pos >= LineLen(e) THEN e
  ELSE IF InWord(e, Spot(e)) THEN CaseOf(e, how)
  ELSE IF WordSpot(e, FALSE, TRUE) = NoSpot THEN e
  ELSE CaseOf(search_word(e, FALSE, TRUE), how)
-----------------------------------------------------------------------------
(* InsertChar, with word_wrap() and auto_indent_line().                    *)
IndentTo(e, ln, col) ==
  Max({p \in 0 .. IndentOf(ln) : p = 0 \/ calc_width(ln, p, Tabs(e)) <= col})
NoColumn == 1000 \* INT_MAX
AutoIndent(e, ld, col) ==
  IF ld = 1 THEN 0 ELSE IndentTo(e, e.lines[ld - 1], col)
auto_indent_line(e, ld, col) ==
  Insert(e, ld, 0, SubSeq(e.lines[ld - 1], 1, AutoIndent(e, ld, col)))

(* Where word_wrap() breaks the line: the last space before the cursor, if *)
(* it comes after a word. 0 is no place.                                   *)
FirstBreak(ln) == Min({p \in IndentOf(ln) .. Len(ln) : p = Len(ln) \/ IsSpace(ln[p + 1])})
BreakAt(e) ==
  LET p == Max({0} \cup {q \in 1 .. e.cur_pos - 1 : IsSpace(Line(e)[q + 1])})
  IN  IF p < FirstBreak(Line(e)) THEN 0 ELSE p

Margin(e, default) == IF e.opt.right_margin > 0 THEN e.opt.right_margin ELSE default
Wraps(e) == e.opt.word_wrap /\ Here(e) >= Margin(e, e.ne_columns - 1) /\ BreakAt(e) > 0

(* The break at p, and the cursor k characters after it, on the next line. *)
BrokenAt(e, p) ==
  Finish(Insert(Delete(Begin(e), e.cur_line_desc, p, 1), e.cur_line_desc, p, <<NL>>))
Indented(e) == IF e.opt.auto_indent THEN auto_indent_line(e, e.cur_line_desc + 1, NoColumn) ELSE e
IndentLen(e) == IF e.opt.auto_indent THEN AutoIndent(e, e.cur_line_desc + 1, NoColumn) ELSE 0
NextLine(e, p) == goto_pos(line_down(move_to_sol(e)), p)
NewLine(e, k) == NextLine(Indented(e), k + IndentLen(e))
Wrapped(e) == NewLine(BrokenAt(e, BreakAt(e)), e.cur_pos - BreakAt(e) - 1)

InsertOne(e, p, c) == Insert(e, e.cur_line_desc, p, <<c>>)
Room(e) ==
  IF ~e.opt.insert /\ e.cur_pos < LineLen(e) THEN Delete(e, e.cur_line_desc, e.cur_pos, 1)
  ELSE InsertSpaces(e, e.cur_line_desc, LineLen(e), e.cur_pos - LineLen(e))
Typed(e, c) == char_right(InsertOne(Room(Begin(e)), e.cur_pos, c))
WrapIfNeeded(e) == IF Wraps(e) THEN Wrapped(e) ELSE e
InsertChar(e, c) == IF e.opt.read_only THEN e ELSE Finish(WrapIfNeeded(Typed(e, c)))
-----------------------------------------------------------------------------
(* Backspace and DeleteChar. A Backspace first moves left, over all the    *)
(* spaces to the previous tab stop when tabs are to be deleted whole.      *)
SpaceBefore(e, p) == p > LineLen(e) \/ (p > 0 /\ Line(e)[p] = Space)
BackBy(e) == Min({k \in 1 .. e.cur_pos : (Here(e) - k) % Tabs(e) = 0 \/ ~SpaceBefore(e, e.cur_pos - k)})
BackMove(e) ==
  IF e.cur_pos > 0 /\ e.opt.del_tabs /\ Here(e) % Tabs(e) = 0 /\ SpaceBefore(e, e.cur_pos)
    THEN goto_pos(e, e.cur_pos - BackBy(e))
    ELSE char_left(e)

(* The spaces up to the next tab stop become a tab again.                  *)
SpacesHere(e) ==
  Min({k \in 1 .. LineLen(e) - e.cur_pos :
         \/ (Here(e) + k) % Tabs(e) = 0
         \/ e.cur_pos + k = LineLen(e) \/ Line(e)[e.cur_pos + k + 1] # Space})
AtSpaces(e) == /\ e.opt.del_tabs /\ e.cur_pos < LineLen(e) /\ Line(e)[e.cur_pos + 1] = Space
               /\ Here(e) % Tabs(e) = 0 \/ Line(e)[e.cur_pos] # Space
Tabbed(e) ==
  IF AtSpaces(e) /\ SpacesHere(e) > 1 /\ (Here(e) + SpacesHere(e)) % Tabs(e) = 0
    THEN InsertOne(Delete(e, e.cur_line_desc, e.cur_pos, SpacesHere(e)), e.cur_pos, Tab)
    ELSE e

(* Beyond the end of a line, it is filled up to the cursor.                *)
IndentEmpty(e, col) ==
  IF LineLen(e) > 0 THEN e
  ELSE IF e.cur_line_desc = 1 THEN resync_pos(e)
  ELSE resync_pos(auto_indent_line(e, e.cur_line_desc, col))
FillTo(e, col) == InsertSpaces(e, e.cur_line_desc, LineLen(e), col - Col(e, LineLen(e)))
Filled(e) == IF e.cur_pos > LineLen(e) THEN FillTo(IndentEmpty(e, Here(e)), Here(e)) ELSE e
DeleteHere(e) ==
  IF e.cur_pos > LineLen(e) /\ LastLine(e) THEN e
  ELSE LET f == Filled(e) IN Delete(f, f.cur_line_desc, f.cur_pos, 1)

DeleteChar(e) == IF e.opt.read_only THEN e ELSE Finish(DeleteHere(Tabbed(Begin(e))))

AfterBack(e, atStart) ==
  IF ~atStart /\ e.cur_pos >= LineLen(e) THEN e ELSE DeleteHere(Tabbed(e))
Backspace(e) ==
  IF e.opt.read_only \/ (e.cur_pos = 0 /\ e.cur_line = 0) THEN e
  ELSE Finish(AfterBack(BackMove(Begin(e)), e.cur_pos = 0))
-----------------------------------------------------------------------------
(* Lines.                                                                  *)
InsertLine(e) ==
  LET p == Min({e.cur_pos, LineLen(e)})
      f == Finish(Insert(Begin(e), e.cur_line_desc, p, <<NL>>))
  IN  IF e.opt.read_only THEN e
      ELSE IF e.opt.auto_indent THEN NextLine(Finish(Indented(Begin(f))), IndentLen(f))
      ELSE line_down(move_to_sol(f))

DeleteLine(e) ==
  IF e.opt.read_only THEN e
  ELSE goto_column(
         [Finish(Delete([Begin(e) EXCEPT !.cur_pos = -1], e.cur_line_desc, 0,
                        LineLen(e) + (IF LastLine(e) THEN 0 ELSE 1)))
            EXCEPT !.last_deleted = IF LineLen(e) > 0 THEN Line(e) ELSE @], Here(e))

UndelLine(e) ==
  LET f == FillTo(Begin(e), Here(e))
  IN  IF e.opt.read_only \/ e.last_deleted = <<>> THEN e
      ELSE Finish(Insert(Insert(f, f.cur_line_desc, f.cur_pos, <<NL>>), f.cur_line_desc, f.cur_pos,
                         e.last_deleted))

DeleteEol(e) ==
  IF e.opt.read_only \/ e.cur_pos >= LineLen(e) THEN e
  ELSE Delete(e, e.cur_line_desc, e.cur_pos, LineLen(e) - e.cur_pos)
-----------------------------------------------------------------------------
(* DeletePrevWord and DeleteNextWord: what is between the cursor and where *)
(* it was. A beginning of it beyond its line is reached with spaces.       *)
Length(e, p, q) == Len(Join(e.lines, p.line, q.line))
                     - Min({p.pos, Len(e.lines[p.line])}) - Max({0, Len(e.lines[q.line]) - q.pos})
EraseFrom(e, p, q) ==
  LET f == InsertSpaces(e, p.line, Len(e.lines[p.line]), p.pos - Len(e.lines[p.line]))
      g == goto_line_pos(f, p.line - 1, p.pos)
  IN  Delete(g, g.cur_line_desc, g.cur_pos, Length(f, p, q))
Before(p, q) == p.line < q.line \/ (p.line = q.line /\ p.pos < q.pos)
BothBeyond(e, p, q) == p.line = q.line /\ p.pos >= Len(e.lines[p.line]) /\ q.pos >= Len(e.lines[q.line])
erase_to(e, s) ==
  IF BothBeyond(e, s, Spot(e)) THEN e
  ELSE IF Before(s, Spot(e)) THEN EraseFrom(e, s, Spot(e)) ELSE EraseFrom(e, Spot(e), s)

(* An insertion and a deletion leave the cursor here after an undo; when   *)
(* there is no word to delete, they are undone.                            *)
Marked(e) == Delete(InsertOne(e, e.cur_pos, Space), e.cur_line_desc, e.cur_pos, 1)
ErasedPrev(e, s) == IF Spot(e) = s THEN undo(Finish(e)) ELSE Finish(erase_to(e, s))
DeletePrevWord(e) ==
  IF e.opt.read_only THEN e ELSE ErasedPrev(search_word(Marked(Begin(e)), TRUE, TRUE), Spot(e))

ToNextWord(e) ==
  IF InWord(e, Spot(e)) THEN move_to_eow(e)
  ELSE IF WordSpot(e, FALSE, TRUE) = NoSpot THEN e
  ELSE move_to_eow(search_word(e, FALSE, TRUE))
ErasedNext(e, s) == IF Spot(e) = s THEN Finish(e) ELSE Finish(erase_to(e, s))
DeleteNextWord(e) ==
  IF e.opt.read_only THEN e ELSE ErasedNext(ToNextWord(Begin(e)), Spot(e))
-----------------------------------------------------------------------------
Blank(ln) == IndentOf(ln) = Len(ln)
Width(e, ld) == calc_width(e.lines[ld], Len(e.lines[ld]), Tabs(e))
RightMargin(e) == Margin(e, e.ne_columns)
-----------------------------------------------------------------------------
(* paragraph(). The space at the left of its lines is that of the second   *)
(* one, or else that of the first one; the lines after ld that begin in    *)
(* the same column are its continuation.                                   *)
SpaceLine(e) ==
  CASE ~LastLine(e) /\ ~Blank(e.lines[e.cur_line_desc + 1]) -> e.cur_line_desc + 1
    [] OTHER -> e.cur_line_desc
pa_space(e) == SubSeq(e.lines[SpaceLine(e)], 1, IndentOf(e.lines[SpaceLine(e)]))

trim_trailing_space(e, ld) ==
  LET n == EndOf(e.lines[ld])
  IN  IF n = Len(e.lines[ld]) THEN e ELSE Delete(e, ld, n, Len(e.lines[ld]) - n)

is_part_of_paragraph(e, ld, sp) ==
  /\ ld <= num_lines(e)
  /\ ~Blank(e.lines[ld])
  /\ calc_width(e.lines[ld], IndentOf(e.lines[ld]), Tabs(e)) = calc_width(sp, Len(sp), Tabs(e))

(* The next line is added to line ld, after a space and without its own.   *)
Unindented(e, ld) ==
  LET n == IndentOf(e.lines[ld]) IN IF n = 0 THEN e ELSE Delete(e, ld, 0, n)
AddNext(e, ld) ==
  LET n == Len(e.lines[ld])
  IN  trim_trailing_space(Delete(Unindented(Insert(e, ld, n, <<Space>>), ld + 1), ld, n + 1, 1), ld)

RECURSIVE Gather(_, _, _)
Gather(e, ld, sp) ==
  IF Width(e, ld) <= RightMargin(e) /\ is_part_of_paragraph(e, ld + 1, sp)
    THEN Gather(AddNext(e, ld), ld, sp) ELSE e

(* The spaces after words, and those a line is split at: the last ones     *)
(* that begin before the margin, or else the first ones. 0 is none.        *)
Gaps(ln) == {p \in 1 .. Len(ln) - 1 : p > IndentOf(ln) /\ IsSpace(ln[p + 1]) /\ ~IsSpace(ln[p])}
SplitAt(e, ln) ==
  LET in == {p \in Gaps(ln) : calc_width(ln, p, Tabs(e)) < RightMargin(e)}
  IN  IF Gaps(ln) = {} THEN 0 ELSE Max({Min(Gaps(ln))} \cup in)
GapLen(ln, p) == Min({k \in 1 .. Len(ln) - p : p + k = Len(ln) \/ ~IsSpace(ln[p + k + 1])})

(* The first character after the spaces goes too.                          *)
BadSplitLine(e, ld, p, sp) ==
  LET f == Insert(Delete(e, ld, p, GapLen(e.lines[ld], p) + 1), ld, p, <<NL>>)
  IN  trim_trailing_space(Insert(f, ld + 1, 0, sp), ld + 1)

SplitLine(e, ld, p, sp) ==
  LET f == Insert(Delete(e, ld, p, GapLen(e.lines[ld], p)), ld, p, <<NL>>)
  IN  trim_trailing_space(Insert(f, ld + 1, 0, sp), ld + 1)

(* One round of the loop on line ld, and whether there is another one.     *)
RECURSIVE Reformat(_, _, _)
Round(e, ld, sp, added) ==
  IF Width(e, ld) > RightMargin(e) /\ SplitAt(e, e.lines[ld]) > 0
    THEN Reformat(SplitLine(e, ld, SplitAt(e, e.lines[ld]), sp), ld + 1, sp)
  ELSE IF Width(e, ld) > RightMargin(e) /\ is_part_of_paragraph(e, ld + 1, sp)
    THEN Reformat(e, ld + 1, sp)
  ELSE IF added THEN Reformat(e, ld, sp)
  ELSE <<e, ld>>
Gathered(f, e, ld, sp) == Round(f, ld, sp, num_lines(f) < num_lines(e))
Trimmed(e, ld, sp) == Gathered(Gather(e, ld, sp), e, ld, sp)
Reformat(e, ld, sp) == Trimmed(trim_trailing_space(e, ld), ld, sp)

(* After the paragraph: the next text, or the end of the last line.        *)
NextText(e) == {l \in e.cur_line_desc .. num_lines(e) : ~Blank(e.lines[l])}
ToNextText(e) ==
  IF NextText(e) = {} THEN goto_line_pos(e, num_lines(e) - 1, Len(Last(e.lines)))
  ELSE goto_line_pos(e, Min(NextText(e)) - 1, IndentOf(e.lines[Min(NextText(e))]))
AfterParagraph(e) == IF CanLineDown(e) THEN ToNextText(line_down(e)) ELSE line_down(e)
EndParagraph(r) == AfterParagraph(goto_line_pos(r[1], r[2] - 1, Len(r[1].lines[r[2]])))

(* A character inserted and deleted at the beginning of the line is what   *)
(* an undo ends on.                                                        *)
UndoMark(e, mark) ==
  IF mark THEN Delete(Insert(e, e.cur_line_desc, 0, <<Space>>), e.cur_line_desc, 0, 1) ELSE e
paragraph(e, mark) ==
  IF Line(e) = <<>> \/ Blank(e.lines[SpaceLine(e)]) THEN line_down(e)
  ELSE EndParagraph(Reformat(UndoMark([e EXCEPT !.cur_pos = -1], mark), e.cur_line_desc, pa_space(e)))
Paragraph(e) == IF e.opt.read_only THEN e ELSE Finish(paragraph(Begin(e), TRUE))
-----------------------------------------------------------------------------
(* center(): unless the text is as long as the margin, with half of the    *)
(* room before it.                                                         *)
Body(ln) == SubSeq(ln, IndentOf(ln) + 1, EndOf(ln))
CenterLine(e, ln) ==
  IF Blank(ln) \/ Len(Body(ln)) >= RightMargin(e) THEN e
  ELSE LET f == Delete([Begin(e) EXCEPT !.cur_pos = -1], e.cur_line_desc, EndOf(ln), Len(ln) - EndOf(ln))
           g == Delete(f, e.cur_line_desc, 0, IndentOf(ln))
       IN  Finish(InsertSpaces(g, e.cur_line_desc, 0, (RightMargin(e) - Len(Body(ln))) \div 2))
Center(e) ==
  IF e.opt.read_only THEN e ELSE Finish(line_down(move_to_sol(CenterLine(Begin(e), Line(e)))))
-----------------------------------------------------------------------------
(* replace() and replace_regexp(), with the cursor on an occurrence: the   *)
(* cursor goes after what replaces it, or stays in a search backwards.     *)
HitLen(e) ==
  IF e.last_was_regexp THEN MatchLen(e, Line(e), e.cur_pos) ELSE Len(e.find_string)
EmptyMatch(e) == e.last_was_regexp /\ HitLen(e) = 0
Hit(e) == SubSeq(Line(e), e.cur_pos + 1, e.cur_pos + HitLen(e))
Replacement(e) ==
  FlattenSeq([i \in DOMAIN e.replace_string |->
    IF e.replace_string[i] = Whole /\ e.last_was_regexp THEN Hit(e) ELSE <<e.replace_string[i]>>])

Replaced(e, s) ==
  Finish(Insert(Delete(Begin(e), e.cur_line_desc, e.cur_pos, HitLen(e)), e.cur_line_desc, e.cur_pos, s))
replace(e) ==
  IF e.opt.search_back THEN Replaced(e, Replacement(e))
  ELSE goto_pos(Replaced(e, Replacement(e)), e.cur_pos + Len(Replacement(e)))

(* The place the next search starts from: backwards the character before,  *)
(* and after an empty match the next one. There may be none.               *)
(* An empty match is found again.                                          *)
BadNextSearch(e, empty) == IF e.opt.search_back THEN char_left(e) ELSE e

NextSearch(e, empty) ==
  IF e.opt.search_back THEN char_left(e) ELSE IF empty THEN char_right(e) ELSE e
CanSearchOn(e, empty) == IF e.opt.search_back THEN CanLeft(e) ELSE empty => CanRight(e)
ReplaceOne(e) == NextSearch(replace(e), EmptyMatch(e))
CanReplaceMore(e) == CanSearchOn(replace(e), EmptyMatch(e))
-----------------------------------------------------------------------------
(* shift(): the lines of the block, or that of the cursor, n columns to    *)
(* the right or, if n < 0, to the left, from column left on.               *)
Marking(e) == Mark \in DOMAIN e.pts
FirstLine(e) == IF Marking(e) THEN Min({e.pts[Mark].line, e.cur_line + 1}) ELSE e.cur_line + 1
FinalLine(e) == IF Marking(e) THEN Max({e.pts[Mark].line, e.cur_line + 1}) ELSE e.cur_line + 1
LeftColumn(e) ==
  IF Marking(e) /\ e.vertical THEN Min({Col(e, e.pts[Mark].pos), Col(e, e.cur_pos)}) ELSE 0

(* The first character that is no space, from column left on, and the      *)
(* spaces before it.                                                       *)
TextAt(e, ln, left) ==
  Min({p \in calc_pos(ln, left, Tabs(e)) .. Len(ln) : p = Len(ln) \/ ~IsSpace(ln[p + 1])})
SpacesTo(ln, p) == Min({q \in 0 .. p : \A i \in q + 1 .. p : ln[i] = Space})

(* A text that is to move n columns to the left needs so much white space. *)
HasSpace(e, ln, left, n) ==
  \A p \in calc_pos(ln, left, Tabs(e)) .. Len(ln) - 1 :
    left - calc_width(ln, p, Tabs(e)) > n =>
      \A q \in calc_pos(ln, left, Tabs(e)) .. p : IsSpace(ln[q + 1])

(* One column after the other, at position p, until the character at c is  *)
(* in its new column x.                                                    *)
RECURSIVE ShiftText(_, _, _, _, _)
ShiftText(e, ld, p, c, x) ==
  LET ln == e.lines[ld]
      off == calc_width(ln, c, Tabs(e)) - x
      t == TabStop(calc_width(ln, p, Tabs(e)), Tabs(e)) - calc_width(ln, p, Tabs(e))
      ch == IF e.opt.tabs /\ e.opt.shift_tabs /\ t <= -off THEN Tab ELSE Space
  IN  IF off = 0 THEN e
      ELSE IF off < 0 THEN ShiftText(Insert(e, ld, p, <<ch>>), ld, p + 1, c + 1, x)
      ELSE IF ln[p + 1] = Space THEN ShiftText(Delete(e, ld, p, 1), ld, p, c - 1, x)
      ELSE IF p > 0 /\ ln[p] = Tab THEN ShiftText(Delete(e, ld, p - 1, 1), ld, p - 1, c - 1, x)
      ELSE e

ShiftAt(e, ld, c, n) ==
  IF c = Len(e.lines[ld]) THEN e
  ELSE ShiftText(e, ld, SpacesTo(e.lines[ld], c), c, calc_width(e.lines[ld], c, Tabs(e)) + n)
ShiftLine(e, l, left, n) ==
  ShiftAt([goto_line(e, l - 1) EXCEPT !.cur_pos = -1], l, TextAt(e, e.lines[l], left), n)

ShiftLines(e, n, first, final, left) ==
  FoldLeft(LAMBDA f, l : ShiftLine(f, l, left, n), e, [i \in 1 .. final - first + 1 |-> first + i - 1])
ShiftedFrom(f, e) == BackToRow(goto_line_pos(f, e.cur_line, e.cur_pos), e.cur_y)

(* The cursor visits the lines that are checked, up to one that cannot be  *)
(* shifted.                                                                *)
Stuck(e, n) == {l \in FirstLine(e) .. FinalLine(e) : ~HasSpace(e, e.lines[l], LeftColumn(e), n)}
Visited(e, n) ==
  IF n >= 0 THEN e
  ELSE FoldLeft(LAMBDA f, l : goto_line(f, l - 1), e,
                [i \in 1 .. Min({FinalLine(e)} \cup Stuck(e, n)) - FirstLine(e) + 1 |-> FirstLine(e) + i - 1])
ShiftAll(e, f, n) ==
  IF n < 0 /\ Stuck(e, n) # {} THEN f
  ELSE Finish(ShiftLines(Begin(f), n, FirstLine(e), FinalLine(e), LeftColumn(e)))
ShiftBy(e, n) ==
  IF e.opt.read_only THEN e ELSE ShiftedFrom(ShiftAll(e, Visited(e, n), n), e)
=============================================================================
