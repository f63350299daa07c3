------------------------------ MODULE Drawing -------------------------------
(***************************************************************************)
(* The commands that move the cursor (navigation.c) and those that edit    *)
(* (actions.c, undo.c), on a state of the screen: what they do to the      *)
(* editor state, which is that of the operator of Cursor or of EditLines   *)
(* with the same name in lower case, and what they draw in between.        *)
(***************************************************************************)
EXTENDS Menus

With(s, f) == [s EXCEPT !.e = f]
(* The window follows a cursor that has gone off its left or right side.   *)
Follow(s, f) == IF f.win_x # s.e.win_x THEN update_window(With(s, f)) ELSE With(s, f)
(* It shows other lines, and then follows.                                 *)
TurnTo(s, f) == Follow(update_window(With(s, [f EXCEPT !.win_x = s.e.win_x])), f)
(* Slip: the lines after the one that was edited are left as they are.    *)
BadLeaveLine(s, row) == Forget(s)
LeaveLine(s, row) == Forget(update_syntax_states(s, row, Cur(s), 0))
-----------------------------------------------------------------------------
(* Lines and characters. The line above or below is reached by scrolling   *)
(* the window when it is not in it.                                        *)
ScrollBy(s, k) == scroll_window(With(s, Scroll(NoY(s.e), k)), s.e.top_line_desc + k, 0, -k)
LineBy(s, k, f) == Follow(IF f.win_y # s.e.win_y THEN ScrollBy(s, k) ELSE s, f)
LineUp(s) ==
  IF CanLineUp(s.e) THEN LineBy(LeaveLine(s, Row(s)), -1, line_up(s.e)) ELSE With(s, NoY(s.e))
LineDown(s) ==
  IF CanLineDown(s.e) THEN LineBy(LeaveLine(s, Row(s)), 1, line_down(s.e)) ELSE With(s, NoY(s.e))

ToSol(s) == Follow(s, move_to_sol(s.e))
ToEol(s) == Follow(s, move_to_eol(s.e))
AtBegin(e) == e.cur_pos = 0 /\ e.cur_line > 0
LeftIn(s, above) == Follow(s, IF above THEN move_to_eol(s.e) ELSE char_left(s.e))
CharLeft(s) == LeftIn(IF AtBegin(s.e) THEN LineUp(With(s, NoXY(s.e))) ELSE s, AtBegin(s.e))
CharRight(s) ==
  IF AtEol(s.e) /\ ~LastLine(s.e) THEN LineDown(ToSol(With(s, NoXY(s.e)))) ELSE Follow(s, char_right(s.e))
GotoPos(s, p) == Follow(s, goto_pos(s.e, p))
-----------------------------------------------------------------------------
(* Pages, lines and columns: the cursor leaves its line for one of those   *)
(* the window shows, or for other lines.                                   *)
ToShown(s, f) == Follow(LeaveLine(s, Row(s)), f)
ToOthers(s, f) == TurnTo(LeaveLine(s, -1), f)
ToTos(s) == IF s.e.cur_y > 0 THEN ToShown(s, move_tos(s.e)) ELSE With(s, NoY(s.e))
ToBos(s) == IF s.e.cur_y < Rows(s.e) THEN ToShown(s, move_bos(s.e)) ELSE With(s, NoY(s.e))
PrevPage(s) ==
  IF s.e.cur_y > 0 THEN ToTos(s) ELSE IF s.e.win_y = 0 THEN With(s, NoY(s.e)) ELSE ToOthers(s, prev_page(s.e))
NextPage(s) ==
  IF s.e.cur_y < Rows(s.e) THEN ToBos(s)
  ELSE IF EndShown(s.e) THEN With(s, NoY(s.e)) ELSE ToOthers(s, next_page(s.e))
PageUp(s) == IF s.e.cur_line = 0 THEN s ELSE ToOthers(s, page_up(s.e))
PageDown(s) == IF s.e.cur_line = num_lines(s.e) - 1 THEN s ELSE ToOthers(s, page_down(s.e))
AdjustView(s, d, mag) ==
  LET f == AdjustOne(NoY(s.e), d, mag) IN Follow(update_window(With(s, f)), resync_pos(f))

(* goto_line_pos() leaves the colours of the lines on the screen alone.    *)
LineSeen(e, n) == n >= e.win_y /\ n < e.win_y + e.ne_lines - 1
StaysAt(e, n, p) == n >= num_lines(e) \/ (n = e.cur_line /\ p \in {e.cur_pos, -1})
LeaveFor(s, n, p) ==
  CASE StaysAt(s.e, n, p) -> s
    [] ~StaysAt(s.e, n, p) /\ n = s.e.cur_line -> Forget(s)
    [] OTHER -> LeaveLine(s, -1)
GotoFrom(s, f, turn) == Follow(IF turn THEN update_window(With(s, [f EXCEPT !.win_x = s.e.win_x])) ELSE s, f)
GotoLinePos(s, n, p) ==
  GotoFrom(LeaveFor(s, n, p), goto_line_pos(s.e, n, p), ~StaysAt(s.e, n, p) /\ ~LineSeen(s.e, n))
GotoSpot(s, pt) == GotoLinePos(s, pt.line - 1, pt.pos)
GotoColumn(s, x) ==
  IF x >= s.e.win_x /\ x < s.e.win_x + s.e.ne_columns THEN Follow(s, goto_column(s.e, x))
  ELSE update_window(Follow(With(s, ShowColumn(NoXY(s.e), x)), goto_column(s.e, x)))

FromTop(s, f, moved) == IF moved THEN update_window(With(s, f)) ELSE With(s, f)
ToSof(s) ==
  LET moved == s.e.win_x > 0 \/ s.e.win_y > 0
  IN  FromTop(LeaveLine(s, IF moved THEN -1 ELSE Row(s)), move_to_sof(s.e), moved)
(* When all the lines fit, win_y is for a moment that of the last one.     *)
BofWinY(e) == IF num_lines(e) <= e.ne_lines - 1 THEN num_lines(e) - 1 ELSE num_lines(e) - (e.ne_lines - 1)
WindowGone(s) == reset_status_bar(reset_window(s))
BofSeen(s, shown) == IF shown THEN s ELSE WindowGone(s)
ToBof(s) ==
  LET shown == s.e.win_x = 0 /\ s.e.win_y = BofWinY(s.e)
  IN  BofSeen(With(LeaveLine(s, IF shown THEN Row(s) ELSE -1), move_to_bof(s.e)), shown)
ToEof(s) == ToEol(ToBof(delay_update(s)))
ToggleSeof(s) == IF s.e.cur_line = 0 /\ s.e.cur_pos = 0 THEN ToEof(s) ELSE ToSof(s)
ToggleSeol(s) == IF s.e.cur_pos = 0 THEN ToEol(s) ELSE ToSol(s)
MoveIncDown(s) ==
  ToEol(IF s.e.cur_pos # LineLen(s.e) THEN s ELSE IF s.e.cur_y = Rows(s.e) THEN ToBof(s) ELSE NextPage(s))
MoveIncUp(s) == IF s.e.cur_pos # 0 THEN ToSol(s) ELSE IF s.e.cur_y = 0 THEN ToSof(s) ELSE PrevPage(s)
SearchWord(s, back, start) ==
  IF WordSpot(s.e, back, start) = NoSpot THEN s ELSE GotoSpot(s, WordSpot(s.e, back, start))
-----------------------------------------------------------------------------
(* The text changes at line l: a line that is new has no state yet, one    *)
(* that is joined to it takes its own away.                                *)
HsAfter(hs, l, k) ==
  IF k >= 0 THEN SubSeq(hs, 1, l) \o Same(k, Invalid) \o SubSeq(hs, l + 1, Len(hs))
  ELSE SubSeq(hs, 1, l) \o SubSeq(hs, l - k + 1, Len(hs))
TextAs(s, f, l) == [s EXCEPT !.e = f, !.hs = HsAfter(@, l, Len(f.lines) - Len(s.e.lines))]
Begun(s) == With(s, Begin(s.e))
Finished(s) == With(s, Finish(s.e))
NeedsAttrs(s, b) == [s EXCEPT !.need_attr_update = b]
(* The line after that of the cursor begins with the state this one ends   *)
(* with.                                                                   *)
PokeNext(s) == IF s.syn THEN [s EXCEPT !.hs[Cur(s) + 1] = s.next_state] ELSE s
LineAgain(s, x, cleared) == update_line(s, Cur(s), Row(s), x, cleared)
IfSyntax(s, u) == IF s.syn THEN u ELSE s

(* InsertChar.                                                             *)
Padded(s) ==
  IF s.e.cur_pos <= LineLen(s.e) THEN s
  ELSE LET u == With(s, Room(s.e)) IN IfSyntax(u, LineAgain(u, 0, TRUE))
NewChar(s, c) == NeedsAttrs(With(s, InsertOne(s.e, s.e.cur_pos, c)), TRUE)
Overwrites(e) == ~e.opt.insert /\ e.cur_pos < LineLen(e)
PutChar(s, c) ==
  IF Overwrites(s.e)
    THEN update_overwritten_char(NewChar(With(s, Room(s.e)), c), CurText(s)[s.e.cur_pos + 1], c, s.e.cur_pos, s.e.cur_x)
    ELSE update_inserted_char(NewChar(Padded(s), c), c, s.e.cur_pos, s.e.cur_x)

(* A word that is wrapped: the line without it, and then the next line.    *)
ShortLine(s) == LineAgain(s, calc_width(CurText(s), Len(CurText(s)), Tabs(s.e)) - s.e.win_x, FALSE)
IndentNext(s) == With(s, Indented(s.e))
LineShown(s) ==
  IF LastLine(s.e) THEN LineAgain(s, 0, FALSE) ELSE scroll_window(s, Cur(s), Row(s), 1)
ShownIf(s, visible) == IF visible THEN LineShown(s) ELSE s
ToNext(s) == LineDown(ToSol(s))
OnNextLine(s, p) == GotoPos(ToNext(IndentNext(s)), p)
WrapRest(s, k) == NeedsAttrs(ShownIf(OnNextLine(s, k + IndentLen(s.e)), s.e.win_x = 0), TRUE)
WrapWord(s) ==
  WrapRest(PokeNext(NeedsAttrs(ShortLine(TextAs(s, BrokenAt(s.e, BreakAt(s.e)), Cur(s))), FALSE)),
           s.e.cur_pos - BreakAt(s.e) - 1)
WrapOrNot(s) == IF Wraps(s.e) THEN WrapWord(s) ELSE IfSyntax(s, LineAgain(s, 0, TRUE))
PastChar(s) == Follow(s, char_right(s.e))
TypeChar(s, c) == Finished(WrapOrNot(PastChar(PutChar(Begun(ensure_attributes(s)), c))))

(* InsertTab: a TAB, or spaces up to the next stop.                        *)
RECURSIVE TypeUntilStop(_, _)
UntilStop(s, c) == IF c = Tab \/ Here(s.e) % Tabs(s.e) = 0 THEN s ELSE TypeUntilStop(s, c)
TypeUntilStop(s, c) == UntilStop(TypeChar(s, c), c)
TypeTab(s) == Finished(TypeUntilStop(Begun(s), IF s.e.opt.tabs THEN Tab ELSE Space))
-----------------------------------------------------------------------------
(* Backspace and DeleteChar. The colours beyond the right side of the      *)
(* screen are forgotten before a character goes.                           *)
Retabbed(s) == With(s, Tabbed(s.e))
RightChar(s) == calc_pos(CurText(s), s.e.win_x + s.e.ne_columns, Tabs(s.e))
CutAttrs(s, n) == IF s.syn THEN [s EXCEPT !.b_attr = SubSeq(@, 1, Min({n, Len(@)}))] ELSE s
OneLess(s) == TextAs(s, Delete(s.e, Cur(s), s.e.cur_pos, 1), Cur(s))
EraseIn(s, c, a) ==
  LET u == update_deleted_char(OneLess(CutAttrs(s, RightChar(s))), c, a, s.e.cur_pos, s.e.cur_x)
  IN  IfSyntax(u, LineAgain(u, 0, TRUE))
ScrollRest(s) == IF Row(s) < Rows(s.e) THEN scroll_window(s, Cur(s) + 1, Row(s) + 1, -1) ELSE s
EraseEnd(s) == ScrollRest(LineAgain(OneLess(s), s.e.cur_x, TRUE))
Erased(s) ==
  IF s.e.cur_pos < LineLen(s.e)
    THEN EraseIn(s, CurText(s)[s.e.cur_pos + 1], IF s.syn THEN s.b_attr[s.e.cur_pos + 1] ELSE Plain)
    ELSE EraseEnd(s)
Filling(s) == LET u == Follow(s, Filled(s.e)) IN IfSyntax(u, store_attributes(u, Cur(u)))
Reached(s) == IF s.e.cur_pos <= LineLen(s.e) THEN s ELSE Filling(s)
EraseFilled(s) ==
  IF s.e.cur_pos > LineLen(s.e) /\ LastLine(s.e) THEN s ELSE Erased(ensure_attributes(Reached(s)))
EraseChar(s) == Finished(NeedsAttrs(EraseFilled(Retabbed(Begun(s))), TRUE))

BackTo(s) == IF s.e.cur_pos = 0 THEN CharLeft(s) ELSE Follow(s, BackMove(s.e))
EraseUnless(s, beyond) == IF beyond /\ s.e.cur_pos >= LineLen(s.e) THEN s ELSE EraseFilled(Retabbed(s))
EraseBack(s) ==
  IF s.e.cur_pos = 0 /\ s.e.cur_line = 0 THEN s
  ELSE Finished(NeedsAttrs(EraseUnless(BackTo(Begun(s)), s.e.cur_pos > 0), TRUE))
-----------------------------------------------------------------------------
(* InsertLine, DeleteLine, UndelLine and DeleteEol.                        *)
Parting(s) ==
  TextAs(s, Finish(Insert(Begin(s.e), Cur(s), Min({s.e.cur_pos, LineLen(s.e)}), <<NL>>)), Cur(s))
Repoked(s) == IfSyntax(s, PokeNext(ensure_attributes(Forget(s))))
NewIndent(s) == IF s.e.opt.auto_indent THEN With(s, Finish(Indented(Begin(s.e)))) ELSE s
AtIndent(s, p) == IF p > 0 THEN GotoPos(s, p) ELSE s
ToNewLine(s) ==
  AtIndent(ToNext(NewIndent(s)), IF s.e.opt.auto_indent THEN IndentLen(s.e) ELSE 0)
SplitShown(s) == LineShown(ToNewLine(Repoked(NeedsAttrs(LineAgain(Parting(ensure_attributes(s)), s.e.cur_x, FALSE), FALSE))))
SplitHere(s) == NeedsAttrs(IF s.e.win_x = 0 THEN SplitShown(s) ELSE ToNewLine(Repoked(Parting(s))), TRUE)

TextGone(s) ==
  LET e == s.e IN
  TextAs(s, [Finish(Delete([Begin(e) EXCEPT !.cur_pos = -1], Cur(s), 0, LineLen(e) + (IF LastLine(e) THEN 0 ELSE 1)))
               EXCEPT !.last_deleted = IF LineLen(e) > 0 THEN Line(e) ELSE @], Cur(s))
LineGone(s) == scroll_window(TextGone(s), Cur(s), Row(s), -1)
EraseLine(s) ==
  LET u == LineGone(s) IN GotoColumn(IfSyntax(u, NeedsAttrs(LineAgain(Forget(u), 0, FALSE), TRUE)), Here(s.e))

TextBack(s) == TextAs(s, UndelLine(s.e), Cur(s))
ScrollDown(s) == IF Row(s) < Rows(s.e) THEN scroll_window(s, Cur(s) + 1, Row(s) + 1, 1) ELSE s
StatesUpTo(s, end) == IfSyntax(s, update_syntax_states(NeedsAttrs(s, TRUE), Row(s), Cur(s), end))
LineBack(s) ==
  IF s.e.last_deleted = <<>> THEN StatesUpTo(s, Cur(s) + 1)
  ELSE StatesUpTo(ScrollDown(PokeNext(LineAgain(CutAttrs(TextBack(s), s.e.cur_pos), s.e.cur_x, FALSE))), Cur(s) + 2)
RestoreLine(s) == LineBack(ensure_attributes(s))

EraseEol(s) ==
  NeedsAttrs(LineAgain(With(ensure_attributes(s), DeleteEol(s.e)), s.e.cur_x, FALSE), TRUE)
-----------------------------------------------------------------------------
(* undo() and redo(), each step at its place; Undo and Redo draw the whole *)
(* window afterwards.                                                      *)
StepEnd(s, f) == IF Len(f.lines) >= Len(s.e.lines) THEN Cur(s) + 1 + Len(f.lines) - Len(s.e.lines) ELSE 0
StepAt(s, f, puts) ==
  update_syntax_states_delay(TextAs(s, f, Cur(s)), Cur(s), IF puts THEN StepEnd(s, f) ELSE 0)
UndoAt(s, step) == StepAt(s, UndoStep(s.e, step), ~step.ins)
RedoAt(s, step) == StepAt(s, RedoStep(s.e, step), step.ins)
UndoSteps(s) ==
  FoldLeft(LAMBDA u, step : UndoAt(GotoLinePos(u, step.line, step.pos), step), s,
           IF s.e.cur_step = 0 THEN <<>> ELSE Reverse(SubSeq(s.e.steps, GroupStart(s.e), s.e.cur_step)))
RedoSteps(s) ==
  FoldLeft(LAMBDA u, step : RedoAt(GotoLinePos(u, step.line, step.pos), step), s,
           IF s.e.cur_step = Len(s.e.steps) THEN <<>> ELSE SubSeq(s.e.steps, s.e.cur_step + 1, GroupEnd(s.e)))
UndoGroup(s) == update_window(UndoSteps(delay_update(s)))
RedoGroup(s) == update_window(RedoSteps(delay_update(s)))
=============================================================================
