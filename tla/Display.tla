------------------------------ MODULE Display -------------------------------
(***************************************************************************)
(* The window of the text on the screen, kept up to date line by line and  *)
(* character by character (display.c), on a state s of the screen:         *)
(*   s.t, s.e   the terminal and the editor state of the document;         *)
(*   s.hs       the state of highlighting at the beginning of each line,   *)
(*              Invalid for a new one;                                     *)
(*   s.syn      is there a syntax?                                         *)
(*   s.attr_buf, s.attr_len, s.next   what parse() left: its colours, over *)
(*              those of the lines before, how many they are, and the      *)
(*              state it returned;                                         *)
(*   s.known, s.b_attr, s.next_state   the colours on the screen of the    *)
(*              line of the cursor, unless its attr_len is -1 (~s.known);  *)
(*   s.need_attr_update                                                    *)
(*   s.window_needs_refresh, s.first_line, s.last_line, s.updated_lines    *)
(*              the lines still to be redrawn, and how many were;          *)
(*   s.turbo, s.automatch   options;                                       *)
(*   s.match, s.mark   the bracket and the mark that are shown, if any.    *)
(* Lines are numbered from 1, the one after the last being the end of the  *)
(* text; rows and columns of the screen from 0.                            *)
(***************************************************************************)
EXTENDS EditLines, Syntax

TURBO(s) == IF s.turbo > 0 THEN s.turbo ELSE s.t.ne_lines * 2
IsLine(s, l) == l \in 1 .. num_lines(s.e)
TextRows(s) == s.t.ne_lines - 1
Cur(s) == s.e.cur_line_desc
AttrAt(s, i) == IF i < Len(s.attr_buf) THEN s.attr_buf[i + 1] ELSE Plain
AttrsFrom(s, i, n) == [k \in 1 .. n |-> AttrAt(s, i + k - 1)]
Forget(s) == [s EXCEPT !.known = FALSE, !.b_attr = <<>>]

Overwritten(old, new) == new \o SubSeq(old, Len(new) + 1, Len(old))
Parsing(s, p, n) ==
  IF p.ok THEN [s EXCEPT !.attr_buf = Overwritten(@, p.attr), !.attr_len = n, !.next = p.next]
  ELSE [s EXCEPT !.next = p.next]
Parse(s, l) == Parsing(s, parse(s.e.lines[l], s.hs[l]), Len(s.e.lines[l]))

Stored(s) == [s EXCEPT !.known = TRUE, !.b_attr = AttrsFrom(s, 0, s.attr_len), !.next_state = s.next]
store_attributes(s, l) == Stored(Parse(s, l))
ensure_attributes(s) == IF ~s.syn \/ s.known THEN s ELSE store_attributes(s, Cur(s))
-----------------------------------------------------------------------------
(* output_line_desc(): what a line shows from column from on, at (row, col)*)
(* of the screen. w is what is the same for all its characters: that, the  *)
(* number of columns, the TAB size, the colours, and those that the screen *)
(* is known to show already.                                               *)
output_char(t, c, a) == output_chars(t, <<c>>, <<a>>)
GlyphAt(t, row, x, c, a) == output_char(move_cursor(t, row, x), c, a)
Differs(w, i) == i > Len(w.diff) \/ w.diff[i] # w.attr[i]

(* A character is some glyphs, each at its column x and with attributes a: *)
(* a TAB, and a wide character of which a side of the window leaves only a *)
(* half, are spaces.                                                       *)
Blanks(from, to, a) == [k \in 1 .. Max({0, to - from + 1}) |-> [x |-> from + k - 1, c |-> Space, a |-> a]]
TabGlyphs(w, cc, i) ==
  Blanks(w.col + Max({cc - w.from, 0}), w.col + Min({TabStop(cc, w.tab) - 1 - w.from, w.num - 1}), w.attr[i])
CharGlyphs(w, x, c, i) ==
  CASE x >= w.col /\ x + output_width(c) <= w.cols ->
         IF Differs(w, i) THEN <<[x |-> x, c |-> c, a |-> w.attr[i]]>> ELSE <<>>
    [] x >= w.col /\ x + output_width(c) > w.cols -> Blanks(x, w.cols - 1, IF w.colored THEN w.attr[i] ELSE NoAttr)
    [] OTHER -> Blanks(w.col, x + output_width(c) - 1, w.attr[i])
Glyphs(w, ln, i, cc) ==
  IF cc - w.from >= w.num THEN <<>>
  ELSE IF ln[i] = Tab THEN TabGlyphs(w, cc, i) ELSE CharGlyphs(w, w.col + cc - w.from, ln[i], i)
LineGlyphs(w, ln) == FlattenSeq([i \in DOMAIN ln |-> Glyphs(w, ln, i, calc_width(ln, i - 1, w.tab))])
OutGlyphs(t, row, gs) == FoldLeft(LAMBDA u, g : GlyphAt(u, row, g.x, g.c, g.a), t, gs)
ClearRest(t, w, end) ==
  IF end < w.from + w.num THEN clear_to_eol(move_cursor(t, w.row, w.col + Max({0, end - w.from}))) ELSE t
ClearUnless(t, w, end, cleared) == IF cleared THEN t ELSE ClearRest(t, w, end)
output_line_desc(t, w, ln, cleared) ==
  ClearUnless(OutGlyphs(t, w.row, LineGlyphs(w, ln)), w, calc_width(ln, Len(ln), w.tab), cleared)

(* A line, with the colours parse() has just found or without, from column *)
(* col of the screen on; or what is beyond the text.                       *)
Part(s, row, col, num, as, diff) ==
  [row |-> row, col |-> col, from |-> col + s.e.win_x, num |-> num, cols |-> s.t.ne_columns, tab |-> Tabs(s.e),
   attr |-> as, colored |-> s.syn, diff |-> diff]
TextOf(s, l) == IF IsLine(s, l) THEN s.e.lines[l] ELSE <<>>
AttrsOf(s, ln) == IF s.syn THEN AttrsFrom(s, 0, Len(ln)) ELSE Same(Len(ln), Plain)
OutText(s, ln, row, col, num, cleared, diff) ==
  [s EXCEPT !.t = output_line_desc(@, Part(s, row, col, num, AttrsOf(s, ln), diff), ln, cleared)]
FromColumn(s, l, col) == IF s.syn /\ IsLine(s, l) THEN 0 ELSE col
OutLine(s, l, row, col, cleared, diff) ==
  OutText(s, TextOf(s, l), row, FromColumn(s, l, col), s.t.ne_columns - FromColumn(s, l, col), cleared, diff)
ParseIfSyntax(s, l) == IF s.syn /\ IsLine(s, l) THEN Parse(s, l) ELSE s
-----------------------------------------------------------------------------
(* Each update counts the lines it redraws; after too many of them it only *)
(* notes the lines to redraw, and refresh_window() redraws them at once.   *)
CountLines(s, n) ==
  [s EXCEPT !.updated_lines = @ + n, !.window_needs_refresh = @ \/ s.updated_lines + n > TURBO(s)]
Postponed(s, from, to) ==
  [s EXCEPT !.first_line = Min({@, from}), !.last_line = Max({@, to})]
delay_update(s) == [s EXCEPT !.updated_lines = TURBO(s) + 1, !.window_needs_refresh = TRUE]

IsCurrent(s, l) == s.syn /\ l = Cur(s)
StoredIf(s, current) == IF current THEN Stored(s) ELSE s
UpdateNow(s, l, row, col, cleared) ==
  StoredIf(OutLine(ParseIfSyntax(s, l), l, row, col, cleared, IF IsCurrent(s, l) THEN s.b_attr ELSE <<>>), IsCurrent(s, l))
Counting(s, l, row, col, cleared) ==
  IF s.window_needs_refresh THEN Forget(Postponed(s, row, row)) ELSE UpdateNow(s, l, row, col, cleared)
update_line(s, l, row, col, cleared) == Counting(CountLines(s, 1), l, row, col, cleared)

(* The rows from s.first_line to s.last_line; line l is at row start.      *)
DrawRow(s, l, row) == OutLine(ParseIfSyntax(s, l), l, row, 0, FALSE, <<>>)
DrawRows(s, l, start) ==
  FoldLeft(LAMBDA u, row : DrawRow(u, l + row - start, row), s,
           [i \in 1 .. s.last_line - s.first_line + 1 |-> s.first_line + i - 1])
AllDrawn(s) == [s EXCEPT !.window_needs_refresh = FALSE, !.first_line = s.t.ne_lines, !.last_line = -1]
LinesCounted(s, n, doit) ==
  [s EXCEPT !.updated_lines = @ + n, !.window_needs_refresh = @ \/ (s.updated_lines + n > TURBO(s) /\ ~doit)]
DrawUnless(s, l, start, doit) ==
  IF s.window_needs_refresh /\ ~doit THEN s ELSE AllDrawn(DrawRows(s, l, start))
update_window_lines(s, l, start, end, doit) ==
  DrawUnless(Postponed(LinesCounted(s, end - start + 1, doit), start, end), l, start, doit)
update_window(s) == update_window_lines(s, s.e.top_line_desc, 0, s.t.ne_lines - 2, FALSE)

(* scroll_window(): the lines of the screen from a line on go one down for *)
(* l, or one up; without the capability they are redrawn.                  *)
LastShown(s) == Min({num_lines(s.e) + 1, s.e.top_line_desc + s.t.ne_lines - 2})
ScrollWith(s, l, line, row, n) ==
  update_line([s EXCEPT !.t = IF ins_del_ok(s.t, line, n) THEN ins_del_lines(@, line, n) ELSE @],
              l, row, 0, ins_del_ok(s.t, line, n))
ScrollLate(s, line) ==
  [s EXCEPT !.window_needs_refresh = TRUE, !.first_line = Min({@, line}), !.last_line = s.t.ne_lines - 2]
scroll_window(s, l, line, n) ==
  IF ~line_ins_del_ok(s.t) THEN update_window_lines(s, l, line, s.t.ne_lines - 2, FALSE)
  ELSE IF s.updated_lines > TURBO(s) \/ s.window_needs_refresh
    THEN ScrollLate([s EXCEPT !.updated_lines = @ + 1], line)
  ELSE ScrollWith([s EXCEPT !.updated_lines = @ + 1], IF n > 0 THEN l ELSE LastShown(s), line,
                  IF n > 0 THEN line ELSE s.t.ne_lines - 2, n)
-----------------------------------------------------------------------------
(* update_syntax_states(): the lines after l, while what they begin with   *)
(* is not what the line before ends with, and up to line end (0 is none).  *)
(* Those shown are redrawn where their colours change; row is the one of   *)
(* line l, or -1 when none of them is to be redrawn.                       *)
Visible(s, row) == row >= 0 /\ row < TextRows(s)
BeforeLine(s, l, row) ==
  IF ~Visible(s, row) THEN s
  ELSE IF CountLines(s, 1).window_needs_refresh THEN Postponed(CountLines(s, 1), row, row)
  ELSE store_attributes(CountLines(s, 1), l)
AfterLine(s, l, row) ==
  IF Visible(s, row) /\ ~s.window_needs_refresh THEN OutLine(s, l, row, 0, TRUE, s.b_attr) ELSE s
OneLine(s, l, row, from) == AfterLine(Parse([BeforeLine(s, l, row) EXCEPT !.hs[l] = from], l), l, row)
Redraws(s, row) == Visible(s, row) /\ ~CountLines(s, 1).window_needs_refresh
SyntaxDone(s, wrote) == [(IF wrote THEN Forget(s) ELSE s) EXCEPT !.need_attr_update = FALSE]

RECURSIVE Restate(_, _, _, _, _, _, _)
RestateRest(s, row, l, start, end, wrote) == Restate(s, row, l, s.next, start, end, wrote)
Restate(s, row, l, from, start, end, wrote) ==
  IF ~IsLine(s, l) \/ (highlight_cmp(s.hs[l], from) /\ (end = 0 \/ end \in start + 1 .. l - 1))
    THEN SyntaxDone(s, wrote)
  ELSE RestateRest(OneLine(s, l, row, from), IF row < 0 THEN row ELSE row + 1, l + 1, start, end,
                   wrote \/ Redraws(s, row))
RestateAfter(s, row, l, end) ==
  RestateRest(IF s.known THEN [s EXCEPT !.next = s.next_state] ELSE Parse(s, l), row, l + 1, l, end, FALSE)
update_syntax_states(s, row, l, end) ==
  IF s.syn /\ s.need_attr_update THEN RestateAfter(s, IF row < 0 THEN row ELSE row + 1, l, end) ELSE s

update_syntax_states_delay(s, l, end) ==
  IF ~s.syn THEN delay_update(s)
  ELSE update_syntax_states([Forget(delay_update(s)) EXCEPT !.need_attr_update = TRUE], -1, l, end)
-----------------------------------------------------------------------------
(* A character of the line of the cursor has been deleted, inserted or     *)
(* overwritten: it is at position pos and at column x of the screen. The   *)
(* first TAB shown after it keeps what follows in its place when it can.   *)
CurText(s) == s.e.lines[Cur(s)]
Row(s) == s.e.cur_y
WidthAt(s, c, x) == IF c = Tab THEN Tabs(s.e) - (x % Tabs(s.e)) ELSE output_width(c)
ScreenOf(s, x, pos, j) == x + WidthOf(SubSeq(CurText(s), pos + 1, j))
TabsSeen(s, x, pos) ==
  {j \in pos .. Len(CurText(s)) - 1 : CurText(s)[j + 1] = Tab /\ ScreenOf(s, x, pos, j) < s.t.ne_columns
                                      /\ \A k \in pos + 1 .. j : CurText(s)[k] # Tab}
TabLeft(s, x) == Tabs(s.e) - (x % Tabs(s.e))
Chars(s, i, j) == SubSeq(CurText(s), i + 1, j)
Late(s) == Forget(Postponed(s, Row(s), Row(s)))
OnTerm(s, t) == [s EXCEPT !.t = t]
AtColumnX(s, x) == move_cursor(s.t, Row(s), x)
LocalAttrs(s, i, n) == [k \in 1 .. n |-> IF ~s.syn THEN NoAttr ELSE IF i + k <= Len(s.b_attr) THEN s.b_attr[i + k] ELSE Plain]
GlobalAttrs(s, i, n) == IF s.syn THEN AttrsFrom(s, i, n) ELSE Same(n, NoAttr)
EndOfLine(s, x, cleared) == update_line(s, Cur(s), Row(s), x, cleared)

DeleteAtTab(s, w, pos, x, j, i) ==
  IF w + TabLeft(s, i) > Tabs(s.e)
    THEN EndOfLine(OnTerm(s, delete_chars(move_cursor(delete_chars(s.t, w), Row(s), i - w), Tabs(s.e) - w)),
                   s.t.ne_columns - Tabs(s.e), TRUE)
  ELSE OnTerm(s, output_spaces(output_chars(s.t, Chars(s, pos, j), LocalAttrs(s, pos, j - pos)), w,
                               LocalAttrs(s, j, 1)[1]))
DeleteShown(s, w, pos, x) ==
  IF TabsSeen(s, x + w, pos) = {} THEN EndOfLine(OnTerm(s, delete_chars(s.t, w)), s.t.ne_columns - w, TRUE)
  ELSE DeleteAtTab(s, w, pos, x, Min(TabsSeen(s, x + w, pos)), ScreenOf(s, x + w, pos, Min(TabsSeen(s, x + w, pos))))
DeletedNow(s, c, a, pos, x) ==
  IF pos > Len(CurText(s)) \/ (pos = Len(CurText(s)) /\ c \in {Tab, Space} /\ a = Plain) THEN s
  ELSE IF ~char_ins_del_ok(s.t) THEN EndOfLine(OnTerm(s, AtColumnX(s, x)), x, FALSE)
  ELSE DeleteShown(OnTerm(s, AtColumnX(s, x)), WidthAt(s, c, x), pos, x)
(* Slip: the colours on the screen keep that of the deleted character.     *)
BadLocalDeleted(s, pos) == s
LocalDeleted(s, pos) == IF s.syn THEN [s EXCEPT !.b_attr = RemoveAt(@, pos + 1)] ELSE s
DeletedOr(s, c, a, pos, x) ==
  IF s.window_needs_refresh THEN Late(s) ELSE DeletedNow(LocalDeleted(s, pos), c, a, pos, x)
update_deleted_char(s, c, a, pos, x) == DeletedOr(CountLines(s, 1), c, a, pos, x)

(* The new character is given the colour parse() left at its place.        *)
OutNew(s, t, c, w, pos) ==
  output_chars(t, IF c = Tab THEN Same(w, Space) ELSE <<c>>, Same(w, GlobalAttrs(s, pos, 1)[1]))
Inserted(s, t, c, w, pos) ==
  IF c = Tab THEN make_room(t, w, GlobalAttrs(s, pos, 1)[1])
  ELSE insert_chars(t, <<c>>, GlobalAttrs(s, pos, 1))
InsertSpacesAt(s, t, n, pos) == make_room(t, n, GlobalAttrs(s, pos, 1)[1])
InsertAtTab(s, c, w, pos, j, i) ==
  IF TabLeft(s, i - w) > w
    THEN output_chars(OutNew(s, s.t, c, w, pos), Chars(s, pos + 1, j), GlobalAttrs(s, pos, j - pos - 1))
    ELSE InsertSpacesAt(s, move_cursor(Inserted(s, s.t, c, w, pos), Row(s), i), Tabs(s.e) - w, pos)
InsertShown(s, c, w, pos, x) ==
  IF TabsSeen(s, x + w, pos + 1) = {} THEN Inserted(s, s.t, c, w, pos)
  ELSE InsertAtTab(s, c, w, pos, Min(TabsSeen(s, x + w, pos + 1)),
                   ScreenOf(s, x + w, pos + 1, Min(TabsSeen(s, x + w, pos + 1))))
InsertedNow(s, c, pos, x) ==
  IF pos + 1 = Len(CurText(s)) THEN OnTerm(s, OutNew(s, s.t, c, WidthAt(s, c, x), pos))
  ELSE IF ~char_ins_del_ok(s.t) THEN EndOfLine(s, x, FALSE)
  ELSE OnTerm(s, InsertShown(s, c, WidthAt(s, c, x), pos, x))
LocalInserted(s, pos) == IF s.syn THEN [s EXCEPT !.b_attr = InsertAt(@, pos + 1, AttrAt(s, pos))] ELSE s
InsertedOr(s, c, pos, x) ==
  IF s.window_needs_refresh THEN Late(s) ELSE InsertedNow(OnTerm(LocalInserted(s, pos), AtColumnX(s, x)), c, pos, x)
update_inserted_char(s, c, pos, x) == InsertedOr(CountLines(s, 1), c, pos, x)

(* A character takes the place of another one, of another width perhaps.   *)
ShrinkAtTab(s, c, w, d, pos, j, i) ==
  IF d + TabLeft(s, i) <= Tabs(s.e)
    THEN OnTerm(s, output_spaces(output_chars(OutNew(s, s.t, c, w, pos), Chars(s, pos + 1, j), GlobalAttrs(s, pos, j - pos - 1)),
                                 d, LocalAttrs(s, j - 1, 1)[1]))
  ELSE EndOfLine(OnTerm(s, IF d = Tabs(s.e) THEN delete_chars(OutNew(s, s.t, c, w, pos), d)
                           ELSE delete_chars(move_cursor(delete_chars(OutNew(s, s.t, c, w, pos), d), Row(s), i - d),
                                             Tabs(s.e) - d)),
                 s.t.ne_columns - Tabs(s.e), TRUE)
Shrunk(s, c, w, d, pos, tabs, x) ==
  IF tabs = {} THEN EndOfLine(OnTerm(s, OutNew(s, delete_chars(s.t, d), c, w, pos)), s.t.ne_columns - d, TRUE)
  ELSE ShrinkAtTab(s, c, w, d, pos, Min(tabs), ScreenOf(s, x + w + d, pos + 1, Min(tabs)))
EnlargeAtTab(s, c, w, d, pos, j, i) ==
  IF d < TabLeft(s, i)
    THEN output_chars(OutNew(s, s.t, c, w, pos), Chars(s, pos + 1, j), GlobalAttrs(s, pos, j - pos - 1))
  ELSE InsertSpacesAt(s, move_cursor(OutNew(s, InsertSpacesAt(s, s.t, d, pos), c, w, pos), Row(s), i + d),
                      TabLeft(s, i + d) - TabLeft(s, i), pos)
Enlarged(s, c, w, d, pos, tabs, x) ==
  IF tabs = {} THEN OutNew(s, InsertSpacesAt(s, s.t, d, pos), c, w, pos)
  ELSE EnlargeAtTab(s, c, w, d, pos, Min(tabs), ScreenOf(s, x + w - d, pos + 1, Min(tabs)))
Reshaped(s, c, ow, nw, pos, x) ==
  IF nw < ow THEN Shrunk(s, c, nw, ow - nw, pos, TabsSeen(s, x + ow, pos + 1), x)
  ELSE OnTerm(s, Enlarged(s, c, nw, nw - ow, pos, TabsSeen(s, x + ow, pos + 1), x))
OverwrittenNow(s, old, c, pos, x) ==
  IF WidthAt(s, old, x) = WidthAt(s, c, x)
    THEN IF old = c THEN s ELSE OnTerm(s, OutNew(s, s.t, c, WidthAt(s, c, x), pos))
  ELSE IF ~char_ins_del_ok(s.t) THEN EndOfLine(s, x, FALSE)
  ELSE Reshaped(s, c, WidthAt(s, old, x), WidthAt(s, c, x), pos, x)
LocalOverwritten(s, pos) ==
  IF s.syn THEN [s EXCEPT !.b_attr = IF pos = Len(@) THEN Append(@, AttrAt(s, pos)) ELSE [@ EXCEPT ![pos + 1] = AttrAt(s, pos)]]
  ELSE s
OverwrittenOr(s, old, c, pos, x) ==
  IF s.window_needs_refresh THEN Late(s)
  ELSE OverwrittenNow(OnTerm(LocalOverwritten(s, pos), AtColumnX(s, x)), old, c, pos, x)
update_overwritten_char(s, old, c, pos, x) == OverwrittenOr(CountLines(s, 1), old, c, pos, x)
-----------------------------------------------------------------------------
(* The whole window, when the program waits for the user.                  *)
reset_window(s) == [s EXCEPT !.window_needs_refresh = TRUE, !.first_line = 0, !.last_line = s.t.ne_lines - 2]

(* highlight_mark() and automatch_bracket() show the beginning of a block  *)
(* and the bracket that matches the one at the cursor, and hide them.      *)
ToggleFlag(a, f) == [a EXCEPT !.at = IF f \in @ THEN @ \ {f} ELSE @ \cup {f}]
Toggled(a, f, style) == IF f \in style THEN ToggleFlag(a, f) ELSE a
invert_boldness(a) ==
  [a EXCEPT !.bg = IF @ = Default THEN <<"white", TRUE>> ELSE <<@[1], ~@[2]>>,
            !.fg = IF @ = Default THEN <<"black", TRUE>> ELSE <<@[1], ~@[2]>>]
Styled(a, style) ==
  Toggled(Toggled(Toggled(IF "bright" \in style THEN invert_boldness(a) ELSE a, "inverse", style), "bold", style),
          "underline", style)
Styles == {"bright", "inverse", "bold", "underline"}
MarkStyle(s) ==
  IF s.automatch = Styles THEN {"bright", "inverse"}
  ELSE {f \in Styles : (f \in s.automatch) # (f # "underline")}

Hidden == [shown |-> FALSE, y |-> 0, x |-> 0, c |-> Space, attr |-> Plain]
OnScreen(s, y, x) == y \in 0 .. TextRows(s) - 1 /\ x \in 0 .. s.t.ne_columns - 1
PutGlyph(s, g, a) == [s EXCEPT !.t = GlyphAt(@, g.y, g.x, g.c, a)]

(* A character of the text as it is highlighted: where and how it is.      *)
Spotted(s, pt, none) ==
  [shown |-> TRUE, y |-> pt.line - 1 - s.e.win_y,
   x |-> calc_width(s.e.lines[pt.line], pt.pos, Tabs(s.e)) - s.e.win_x,
   c |-> IF pt.pos < Len(s.e.lines[pt.line]) /\ s.e.lines[pt.line][pt.pos + 1] # Tab
           THEN s.e.lines[pt.line][pt.pos + 1] ELSE Space,
   attr |-> IF s.syn /\ pt.pos < Len(s.e.lines[pt.line]) THEN AttrAt(s, pt.pos) ELSE none]
ParsedAt(s, pt) == IF s.syn /\ pt.pos < Len(s.e.lines[pt.line]) THEN Parse(s, pt.line) ELSE s

ShowMark(s, g) ==
  IF OnScreen(s, g.y, g.x) THEN [PutGlyph(s, g, Styled(g.attr, MarkStyle(s))) EXCEPT !.mark = g] ELSE s
MarkAt(s, pt) ==
  IF OnScreen(s, Spotted(s, pt, Plain).y, Spotted(s, pt, Plain).x)
    THEN ShowMark(ParsedAt(s, pt), Spotted(ParsedAt(s, pt), pt, Plain)) ELSE s
show_mark(s) == IF Mark \in DOMAIN s.e.pts /\ s.automatch # {} THEN MarkAt(s, s.e.pts[Mark]) ELSE s
hide_mark(s) ==
  IF ~s.mark.shown THEN s
  ELSE [(IF OnScreen(s, s.mark.y, s.mark.x) THEN PutGlyph(s, s.mark, s.mark.attr) ELSE s) EXCEPT !.mark = Hidden]

(* Only the lines shown are searched.                                      *)
MatchesSeen(s, path) ==
  {i \in Balanced(s.e, path) : path[i].line - 1 - s.e.win_y \in 0 .. TextRows(s) - 1}
FirstMatch(s, path) ==
  IF Balanced(s.e, path) = {} \/ Min(Balanced(s.e, path)) \notin MatchesSeen(s, path) THEN s
  ELSE LET pt == path[Min(Balanced(s.e, path))] IN
       IF Spotted(s, pt, NoAttr).x \notin 0 .. s.t.ne_columns - 1 THEN s
       ELSE LET g == Spotted(ParsedAt(s, pt), pt, NoAttr)
            IN  [PutGlyph(ParsedAt(s, pt), g, Styled(g.attr, s.automatch)) EXCEPT !.match = g]
show_match(s) == IF s.automatch # {} /\ OnBracket(s.e) THEN FirstMatch(s, BracketPath(s.e)) ELSE s
hide_match(s) ==
  IF ~s.match.shown THEN s
  ELSE [(IF OnScreen(s, s.match.y, s.match.x) THEN PutGlyph(s, s.match, s.match.attr) ELSE s) EXCEPT !.match = Hidden]

(* refresh_window() draws the lines that updates have postponed.           *)
Refreshed(s) ==
  IF IsLine(s, s.e.top_line_desc + s.first_line)
    THEN update_window_lines(s, s.e.top_line_desc + s.first_line, s.first_line, s.last_line, TRUE) ELSE s
refresh_window(s) == IF s.window_needs_refresh THEN [show_mark(Refreshed(s)) EXCEPT !.updated_lines = 0] ELSE s
=============================================================================
