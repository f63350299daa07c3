------------------------------- MODULE Cursor -------------------------------
(***************************************************************************)
(* The cursor and the part of the text that the terminal shows             *)
(* (navigation.c), as operators on an editor state: a document of          *)
(* DocLines, together with                                                 *)
(*   e.ne_lines, e.ne_columns     the size of the terminal, of which the   *)
(*                                last line is the status bar;             *)
(*   e.win_x, e.win_y             the column and the line of the text that *)
(*                                are in the upper left corner;            *)
(*   e.cur_x, e.cur_y             the cursor on the screen;                *)
(*   e.cur_line, e.cur_pos, e.cur_char   the cursor in the text;           *)
(*   e.cur_line_desc, e.top_line_desc    the descriptors of the line of    *)
(*                                the cursor and of the first line shown,  *)
(*                                as their places in the list of lines     *)
(*                                from 1, or 0 when they have been freed;  *)
(*   e.x_wanted, e.wanted_x       the column the cursor goes back to;      *)
(*   e.y_wanted, e.wanted_y, e.wanted_cur_y   the line PageUp and PageDown *)
(*                                go back to;                              *)
(*   e.opt                        the options of the document.             *)
(* As in the code e.cur_line, e.win_y and the columns count from 0, and    *)
(* each operator has the name of its function. Drawing is left out.        *)
(***************************************************************************)
EXTENDS DocLines

num_lines(e) == Len(e.lines)
Line(e)      == e.lines[e.cur_line_desc]
LineLen(e)   == Len(Line(e))
Tabs(e)      == e.opt.tab_size
Col(e, p)    == calc_width(Line(e), p, Tabs(e))
Here(e)      == e.win_x + e.cur_x

(* The cursor shown at column x with column wx at the left of the screen.  *)
Shown(e, wx, x)  == [e EXCEPT !.win_x = wx, !.cur_x = x - wx]
OnText(e, p)     == [e EXCEPT !.cur_pos = p, !.cur_char = p]
AtLine(e, ld, y) == [e EXCEPT !.cur_line_desc = ld, !.cur_line = y, !.cur_y = y - e.win_y]
MoveLines(e, k)  == [e EXCEPT !.cur_line_desc = @ + k, !.cur_line = @ + k, !.cur_y = @ + k]
MoveView(e, k)   == [e EXCEPT !.top_line_desc = @ + k, !.win_y = @ + k, !.cur_y = @ - k]
Scroll(e, k)     == MoveView(MoveLines(e, k), k)
(* A place the cursor does not want to go back to is not remembered here.  *)
NoX(e)  == [e EXCEPT !.x_wanted = FALSE, !.wanted_x = 0]
NoY(e)  == [e EXCEPT !.y_wanted = FALSE, !.wanted_y = 0, !.wanted_cur_y = 0]
NoXY(e) == NoX(NoY(e))
-----------------------------------------------------------------------------
(* Lines: the cursor goes to the beginning or to the end of its line.      *)
move_to_sol(e) == OnText(Shown(NoXY(e), 0, 0), 0)

(* The first column the window of a line can start from and show its end.  *)
EolWindow(e, w) ==
  LET q == Min({p \in 1 .. LineLen(e) : w - Col(e, p) < e.ne_columns - Tabs(e)})
  IN  Col(e, q) - (Col(e, q) % Tabs(e))

EolAt(e, w) ==
  OnText(Shown(e, IF w >= e.win_x /\ w < e.win_x + e.ne_columns THEN e.win_x ELSE EolWindow(e, w), w),
         LineLen(e))

move_to_eol(e) == IF Line(e) = <<>> THEN move_to_sol(e) ELSE EolAt(NoXY(e), Col(e, LineLen(e)))

(* resync_pos() in its cases: the column is at position q, it is inside    *)
(* the character before q, or it is beyond the text.                       *)
AtColumn(e, x, q) ==
  IF ~e.x_wanted THEN OnText(e, q)
  ELSE IF x - e.win_x < e.ne_columns THEN NoX(OnText(Shown(e, e.win_x, x), q))
  ELSE NoX(OnText(Shown(e, TabStop(x - e.ne_columns + 1, Tabs(e)), x), q))

InsideWindow(e, w) ==
  IF w < e.win_x
    THEN LET l == Max({0, w - e.ne_columns + 1}) IN l - (l % Tabs(e))
  ELSE IF w - e.win_x < e.ne_columns THEN e.win_x
  ELSE TabStop(w - e.ne_columns, Tabs(e))

(* The cursor forgets the column inside the character.                     *)
BadInsideChar(e, x, q) ==
  OnText(Shown(e, InsideWindow(e, Col(e, q - 1)), Col(e, q - 1)), q - 1)

InsideChar(e, x, q) ==
  OnText(Shown([e EXCEPT !.x_wanted = TRUE, !.wanted_x = x],
               InsideWindow(e, Col(e, q - 1)), Col(e, q - 1)), q - 1)

BeyondText(e, x) ==
  IF e.opt.free_form
    THEN NoX(OnText([e EXCEPT !.cur_x = x - e.win_x], LineLen(e) + x - Col(e, LineLen(e))))
    ELSE [move_to_eol(e) EXCEPT !.x_wanted = TRUE, !.wanted_x = x]

ResyncAt(e, x, reached) ==
  IF x = 0 THEN OnText(e, 0)
  ELSE IF reached = {} THEN BeyondText(e, x)
  ELSE IF Col(e, Min(reached)) = x THEN AtColumn(e, x, Min(reached))
  ELSE InsideChar(e, x, Min(reached))

resync_column(e, x) == ResyncAt(e, x, {q \in 1 .. LineLen(e) : Col(e, q) >= x})
resync_pos(e) == resync_column(e, IF e.x_wanted THEN e.wanted_x ELSE Here(e))
-----------------------------------------------------------------------------
(* Up and down.                                                            *)
CanLineUp(e) == e.cur_y > 0 \/ e.win_y > 0
line_up(e) ==
  IF e.cur_y > 0 THEN resync_pos(MoveLines(NoY(e), -1))
  ELSE IF e.win_y > 0 THEN resync_pos(Scroll(NoY(e), -1))
  ELSE NoY(e)

DownOnScreen(e) == e.cur_y < e.ne_lines - 2 /\ e.cur_line < num_lines(e) - 1
CanLineDown(e)  == DownOnScreen(e) \/ e.win_y < num_lines(e) - e.ne_lines + 1
line_down(e) ==
  IF DownOnScreen(e) THEN resync_pos(MoveLines(NoY(e), 1))
  ELSE IF CanLineDown(e) THEN resync_pos(Scroll(NoY(e), 1))
  ELSE NoY(e)

(* How many times k columns bring c below n.                               *)
Times(c, n, k) == IF c < n THEN 0 ELSE ((c - n) \div k) + 1

FitTab(e)    == [e EXCEPT !.opt.tab_size = Min({@, Max({(e.ne_columns \div 2) - 1, 1})})]
AlignLeft(e) == Shown(e, e.win_x - (e.win_x % Tabs(e)), Here(e))
FitRows(e)   ==
  IF e.cur_y > e.ne_lines - 2 THEN NoY(MoveView(e, e.cur_y - (e.ne_lines - 2))) ELSE e
FitColumns(e) ==
  Shown(e, e.win_x + Times(e.cur_x, e.ne_columns, Tabs(e)) * Tabs(e), Here(e))

keep_cursor_on_screen(e) == FitColumns(FitRows(AlignLeft(FitTab(e))))
-----------------------------------------------------------------------------
(* Left and right.                                                         *)
block_left(e, n)  == Shown(e, Max({0, e.win_x - n}), Here(e))
block_right(e, n) == Shown(e, e.win_x + n, Here(e))

(* A definition named Bad... is the one after it with a plausible mistake. *)
(* A tab is always tab_size columns.                                       *)
BadLeftStep(e) ==
  IF e.cur_pos > LineLen(e) THEN 1
  ELSE IF Line(e)[e.cur_pos] = Tab THEN Tabs(e) ELSE char_width(Line(e)[e.cur_pos])

LeftStep(e) ==
  IF e.cur_pos > LineLen(e) THEN 1
  ELSE IF Line(e)[e.cur_pos] = Tab THEN Tabs(e) - (Col(e, e.cur_pos - 1) % Tabs(e))
  ELSE char_width(Line(e)[e.cur_pos])

LeftBy(e, disp) ==
  LET f == IF e.cur_x < disp THEN block_left(e, 2 * Tabs(e)) ELSE e
  IN  [f EXCEPT !.cur_x = @ - disp, !.cur_pos = @ - 1, !.cur_char = @ - 1]

CanLeft(e) == e.cur_pos > 0 \/ e.cur_line > 0
char_left(e) ==
  IF e.cur_pos > 0 THEN LeftBy(NoXY(e), LeftStep(e))
  ELSE IF e.cur_line > 0 THEN move_to_eol(line_up(NoXY(e)))
  ELSE NoXY(e)

RightStep(e) ==
  IF e.cur_pos >= LineLen(e) THEN 1
  ELSE IF Line(e)[e.cur_pos + 1] = Tab THEN Tabs(e) - (Col(e, e.cur_pos) % Tabs(e))
  ELSE char_width(Line(e)[e.cur_pos + 1])

(* A tab or a wide character may be cut by the right side of the screen.   *)
OffRight(e) ==
  \/ e.cur_x >= e.ne_columns
  \/ e.cur_pos < LineLen(e) /\ e.cur_x + char_width(Line(e)[e.cur_pos + 1]) > e.ne_columns

RightBy(e, disp) ==
  LET f == [e EXCEPT !.cur_x = @ + disp, !.cur_pos = @ + 1, !.cur_char = @ + 1]
  IN  IF OffRight(f) THEN block_right(f, 2 * Tabs(f)) ELSE f

AtEol(e) == e.cur_pos = LineLen(e) /\ ~e.opt.free_form
LastLine(e) == e.cur_line_desc = num_lines(e)
CanRight(e) == ~(AtEol(e) /\ LastLine(e))
char_right(e) ==
  IF ~AtEol(e) THEN RightBy(NoXY(e), RightStep(e))
  ELSE IF LastLine(e) THEN NoXY(e)
  ELSE line_down(move_to_sol(NoXY(e)))
-----------------------------------------------------------------------------
(* Pages.                                                                  *)
Rows(e) == e.ne_lines - 2                    \* a page, one line less than the screen
EndShown(e) == e.win_y >= num_lines(e) - (e.ne_lines - 1)
move_tos(e) == IF e.cur_y > 0 THEN resync_pos(MoveLines(NoY(e), -e.cur_y)) ELSE NoY(e)

BottomRow(e) == IF EndShown(e) THEN Min({Rows(e), num_lines(e) - e.top_line_desc}) ELSE Rows(e)
move_bos(e) ==
  IF e.cur_y < Rows(e) THEN resync_pos(MoveLines(NoY(e), BottomRow(e) - e.cur_y)) ELSE NoY(e)

(* prev_page() scrolls whole pages, and stops at the first line.           *)
PrevPageLines(e) == Min({Rows(e), e.top_line_desc - 1})
prev_page(e) ==
  IF e.cur_y > 0 THEN move_tos(e)
  ELSE IF e.win_y = 0 THEN NoY(e)
  ELSE LET k == PrevPageLines(e)
       IN  resync_pos([NoY(e) EXCEPT !.win_y = Max({0, @ - Rows(e)}), !.cur_line = @ - k,
                                     !.top_line_desc = @ - k, !.cur_line_desc = @ - k])

next_page(e) ==
  IF e.cur_y < Rows(e) THEN move_bos(e)
  ELSE IF EndShown(e) THEN NoY(e)
  ELSE resync_pos(Scroll(NoY(e), Min({Rows(e), num_lines(e) - (e.ne_lines - 1) - e.win_y})))

(* page_up() and page_down() move a virtual cursor, wanted_y, that may go  *)
(* off the text: the real one follows it, and the view keeps its distance. *)
WantY(e) ==
  IF e.y_wanted THEN e
  ELSE [e EXCEPT !.y_wanted = TRUE, !.wanted_y = e.cur_line, !.wanted_cur_y = e.cur_y]

PageUpLine(e) ==
  LET w == e.wanted_y - 1
      up == IF w >= 0 /\ w < num_lines(e) - 1 THEN 1 ELSE 0
      view == IF e.win_y > 0 /\ e.win_y + e.wanted_cur_y > w THEN 1 ELSE 0
  IN  [e EXCEPT !.wanted_y = w, !.cur_line_desc = @ - up, !.cur_line = @ - up,
                !.top_line_desc = @ - view, !.win_y = @ - view]

PageDownLine(e, shift_view) ==
  LET w == e.wanted_y + 1
      down == IF w > 0 /\ w < num_lines(e) THEN 1 ELSE 0
      view == IF shift_view /\ w - e.wanted_cur_y > e.win_y THEN 1 ELSE 0
  IN  [e EXCEPT !.wanted_y = w, !.cur_line_desc = @ + down, !.cur_line = @ + down,
                !.top_line_desc = @ + view, !.win_y = @ + view]

Paged(e) == resync_pos(keep_cursor_on_screen([e EXCEPT !.cur_y = e.cur_line - e.win_y]))
OneEachRow(e) == [i \in 1 .. Rows(e) |-> i]
page_up(e) ==
  IF e.cur_line = 0 THEN e
  ELSE Paged(FoldLeft(LAMBDA f, i : PageUpLine(f), WantY(e), OneEachRow(e)))

page_down(e) ==
  IF e.cur_line = num_lines(e) - 1 THEN e
  ELSE Paged(FoldLeft(LAMBDA f, i : PageDownLine(f, e.win_y + Rows(e) < num_lines(e)),
                      WantY(e), OneEachRow(e)))
-----------------------------------------------------------------------------
(* AdjustView: one displacement. A magnitude of 0 is one that was not      *)
(* given.                                                                  *)
ShowAbove(e, disp) == MoveView(e, -Min({disp, e.top_line_desc - 1}))
ShowBelow(e, disp) == MoveView(e, Min({disp, num_lines(e) - e.top_line_desc}))
ViewRows(e, disp) == IF disp >= 0 THEN ShowAbove(e, disp) ELSE ShowBelow(e, -disp)

(* So many tab stops to the right, or to the left.                         *)
ViewTabs(e, k) == Shown(e, e.win_x + k * Tabs(e), Here(e))
Stops(n, tab)  == (n + tab - 1) \div tab
ToLeft(e, mag) == ViewTabs(e, Min({e.cur_x \div Tabs(e), Stops(mag, Tabs(e))}))
RoomRight(e, col) == Min({Stops(Max({0, col - e.cur_x}), Tabs(e)), e.win_x \div Tabs(e)})
ToRight(e, mag) ==
  ViewTabs(e, -Min({RoomRight(e, e.ne_columns - Tabs(e)), Stops(mag, Tabs(e))}))
Middle(e) == (e.ne_columns \div 2) - ((e.ne_columns \div 2) % Tabs(e))
ToMiddle(e) == ViewTabs(e, -RoomRight(e, Middle(e)))

AdjustOne(e, d, mag) ==
  CASE d = "t" -> ViewRows(e, IF mag = 0 THEN -e.cur_y ELSE -Min({mag, e.cur_y}))
    [] d = "m" -> ViewRows(e, (Rows(e) \div 2) - e.cur_y)
    [] d = "b" -> ViewRows(e, IF mag = 0 THEN Rows(e) - e.cur_y ELSE Min({mag, Rows(e) - e.cur_y}))
    [] d = "l" -> ToLeft(e, IF mag = 0 THEN e.cur_x ELSE mag)
    [] d = "c" -> ToMiddle(ToLeft(e, e.cur_x))
    [] d = "r" -> ToRight(e, IF mag = 0 THEN e.win_x ELSE mag)

adjust_view(e, d, mag) == resync_pos(AdjustOne(NoY(e), d, mag))

(* What GotoBookmark, Shift and WordWrap do: the cursor in row y again.    *)
BackToRow(e, y) ==
  IF e.cur_y = y THEN e
  ELSE adjust_view(e, IF e.cur_y > y THEN "t" ELSE "b", IF e.cur_y > y THEN e.cur_y - y ELSE y - e.cur_y)
-----------------------------------------------------------------------------
(* A given position, column or line.                                       *)
Centered(e, x) ==
  LET l == Max({0, x - (e.ne_columns \div 2)}) IN Shown(e, l - (l % Tabs(e)), x)
ShowColumn(e, x) ==
  IF x = Here(e) THEN e
  ELSE IF x >= e.win_x /\ x < e.win_x + e.ne_columns THEN Shown(e, e.win_x, x) ELSE Centered(e, x)

goto_pos(e, p) ==
  IF p <= LineLen(e) THEN ShowColumn(OnText(NoX(e), p), Col(e, p))
  ELSE IF e.opt.free_form THEN ShowColumn(OnText(NoX(e), p), Col(e, p))
  ELSE ShowColumn([e EXCEPT !.x_wanted = TRUE, !.wanted_x = Col(e, p), !.cur_pos = LineLen(e),
                            !.cur_char = LineLen(e)], Col(e, LineLen(e)))

goto_column(e, x) ==
  IF x = Here(e) THEN IF e.cur_pos = -1 THEN resync_pos(NoXY(e)) ELSE NoXY(e)
  ELSE resync_pos(ShowColumn(NoXY(e), x))

nth_line_desc(e, n) ==
  LET absolute == Min({n, num_lines(e) - 1 - n})
      relative == Max({n - e.cur_line, e.cur_line - n})
  IN  IF absolute < relative THEN n + 1 ELSE e.cur_line_desc + (n - e.cur_line)

(* The window that shows line n when it is not on the screen.              *)
WindowFor(e, n) ==
  Max({0, Min({n - ((e.ne_lines - 1) \div 2), num_lines(e) - (e.ne_lines - 1)})})
ViewLine(e, n) ==
  IF n >= e.win_y /\ n < e.win_y + e.ne_lines - 1
    THEN AtLine(e, e.top_line_desc + (n - e.win_y), n)
    ELSE AtLine([e EXCEPT !.win_y = WindowFor(e, n),
                          !.top_line_desc = nth_line_desc(e, n) - (n - WindowFor(e, n))],
                nth_line_desc(e, n), n)

(* Position -1 is no position: the column is kept.                         *)
goto_line_pos(e, n, p) ==
  IF n >= num_lines(e) \/ (n = e.cur_line /\ p = e.cur_pos) THEN NoY(e)
  ELSE IF n = e.cur_line /\ p = -1 THEN resync_pos(NoY(e))
  ELSE IF p = -1 THEN resync_pos(ViewLine(NoY(e), n))
  ELSE goto_pos(ViewLine(NoY(e), n), p)
goto_line(e, n) == goto_line_pos(e, n, -1)
-----------------------------------------------------------------------------
(* The ends of the text.                                                   *)
move_to_sof(e) ==
  OnText([NoXY(e) EXCEPT !.win_x = 0, !.win_y = 0, !.cur_x = 0, !.cur_y = 0, !.cur_line = 0,
                         !.cur_line_desc = 1, !.top_line_desc = 1], 0)

move_to_bof(e) ==
  LET top == Max({1, num_lines(e) - Rows(e)})
  IN  OnText([NoXY(e) EXCEPT !.win_x = 0, !.cur_x = 0, !.cur_line = num_lines(e) - 1,
                             !.cur_line_desc = num_lines(e), !.top_line_desc = top,
                             !.win_y = IF top = 1 THEN 0 ELSE num_lines(e) - (e.ne_lines - 1),
                             !.cur_y = IF top = 1 THEN num_lines(e) - 1 ELSE Rows(e)], 0)

toggle_sof_eof(e) ==
  IF e.cur_line = 0 /\ e.cur_pos = 0 THEN move_to_eol(move_to_bof(e)) ELSE move_to_sof(e)
toggle_sol_eol(e) == IF e.cur_pos = 0 THEN move_to_eol(e) ELSE move_to_sol(e)

move_inc_down(e) ==
  move_to_eol(IF e.cur_pos # LineLen(e) THEN e
              ELSE IF e.cur_y = Rows(e) THEN move_to_bof(e) ELSE next_page(e))
move_inc_up(e) ==
  IF e.cur_pos # 0 THEN move_to_sol(e) ELSE IF e.cur_y = 0 THEN move_to_sof(e) ELSE prev_page(e)
=============================================================================
