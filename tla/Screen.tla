------------------------------- MODULE Screen -------------------------------
(***************************************************************************)
(* What the user sees: the main loop of ne.c, the commands of do_action()  *)
(* with all that they draw on a terminal, and the menus. The program waits *)
(* for a key (phase "key"), runs commands (phase "run": a key runs one, a  *)
(* macro several before anything is refreshed), or waits for a key in the  *)
(* menus (phase "menu").                                                   *)
(*                                                                         *)
(* TLC explores some commands at a time: a scenario is a document opened   *)
(* on some terminal with some options, the groups of commands that are     *)
(* used, how many of them, and how many of them a macro can run; when it   *)
(* is one, they are the commands of keys and not of macros.                *)
(***************************************************************************)
EXTENDS Drawing

CONSTANTS
  Scenarios, \* with text, opt, terminal, ne_lines, ne_columns, syn, turbo, automatch, groups, depth, macro
  Typing,    \* the characters that are typed
  Sizes,     \* the sizes of the terminal, as [lines, cols]
  Garbage    \* what the shell leaves on the screen

VARIABLES s, phase, left, burst, session
vars == <<s, phase, left, burst, session>>

Matching == Styles \ {"bright"}
-----------------------------------------------------------------------------
(* The start: the document is loaded and the terminal prepared; nothing of *)
(* the screen has been drawn.                                              *)
Device(sc) ==
  [has |-> sc.terminal.has, flags |-> sc.terminal.flags, ncv |-> sc.terminal.ncv, cost |-> sc.terminal.cost,
   lines |-> sc.ne_lines, cols |-> sc.ne_columns, y |-> 0, x |-> 0, top |-> 0, bot |-> sc.ne_lines - 1, ins |-> FALSE,
   a |-> Plain,
   cell |-> [y \in 0 .. sc.ne_lines - 1 |-> [x \in 0 .. sc.ne_columns - 1 |-> [c |-> Garbage, a |-> Plain]]],
   ne_lines |-> sc.ne_lines, ne_columns |-> sc.ne_columns, curY |-> -1, curX |-> -1, curr_attr |-> Plain,
   insert_mode |-> FALSE, standout_mode |-> FALSE, standout_wanted |-> FALSE, underline_mode |-> FALSE,
   underline_wanted |-> FALSE, specified_window |-> sc.ne_lines - 1]

Opened(sc) ==
  [lines |-> sc.text, pts |-> <<>>, undo |-> NoUndo, steps |-> <<>>, cur_step |-> 0,
   ne_lines |-> sc.ne_lines, ne_columns |-> sc.ne_columns, win_x |-> 0, win_y |-> 0, cur_x |-> 0, cur_y |-> 0,
   cur_line |-> 0, cur_pos |-> 0, cur_char |-> 0, cur_line_desc |-> 1, top_line_desc |-> 1,
   x_wanted |-> FALSE, wanted_x |-> 0, y_wanted |-> FALSE, wanted_y |-> 0, wanted_cur_y |-> 0,
   last_deleted |-> <<>>, vertical |-> FALSE, opt |-> sc.opt]

NextState(lines, hs) == Append(hs, parse(lines[Len(hs)], Last(hs)).next)
StatesOf(lines) == FoldLeft(LAMBDA hs, l : NextState(lines, hs), <<InitialState>>, Tail(lines))
reset_syntax_states(u) == IF u.syn THEN Forget([u EXCEPT !.hs = StatesOf(u.e.lines)]) ELSE u

Loaded(sc) ==
  [t |-> set_terminal_modes(Device(sc)), e |-> Opened(sc), hs |-> Same(Len(sc.text), Invalid), syn |-> sc.syn,
   attr_buf |-> <<>>, attr_len |-> 0, next |-> Invalid, known |-> FALSE, b_attr |-> <<>>, next_state |-> Invalid,
   need_attr_update |-> FALSE, window_needs_refresh |-> FALSE, first_line |-> 0, last_line |-> 0, updated_lines |-> 0,
   turbo |-> sc.turbo, automatch |-> sc.automatch, match |-> Hidden, mark |-> Hidden, status_bar |-> TRUE,
   bar |-> [fields |-> Same(4, Garbage), gone |-> TRUE, showing |-> FALSE, msg |-> <<>>],
   current_menu |-> 1, cur_item |-> Same(menu_num, 1), info |-> FALSE]
Beginning(sc) == delay_update(WindowGone(reset_syntax_states(Loaded(sc))))
-----------------------------------------------------------------------------
(* The main loop, before and after the program waits for a key.            *)
ShowMarkUnless(u) == IF u.mark.shown THEN u ELSE show_mark(u)
Looked(u) == IF u.info THEN u ELSE show_match(ShowMarkUnless(refresh_window(u)))
CursorBack(u) == OnTerm(u, move_cursor(u.t, u.e.cur_y, u.e.cur_x))
Waiting(u) == CursorBack(draw_status_bar(Looked(u)))
LeaveInfo(u) == IF u.info THEN [refresh_window(u) EXCEPT !.info = FALSE] ELSE u
KeyRead(u) == hide_mark(hide_match(LeaveInfo(u)))

Init ==
  /\ session \in Scenarios
  /\ s = Beginning(session)
  /\ phase = "run" /\ left = session.depth /\ burst = 0

MainLoop ==
  /\ phase = "run"
  /\ s' = Waiting(s)
  /\ phase' = "key" /\ burst' = session.macro
  /\ UNCHANGED <<left, session>>

(* A key is read. The mark, which do_action() hides first, is shown only   *)
(* while the program waits. A key that is bound to nothing does nothing.   *)
KeyPressed ==
  /\ phase = "key" /\ left > 0
  /\ s' = KeyRead(s)
  /\ phase' = "run"
  /\ UNCHANGED <<left, burst, session>>

CanRun(group) == group \in session.groups /\ left > 0 /\ phase = "run" /\ burst > 0
Runs(u) ==
  /\ s' = u
  /\ left' = left - 1 /\ burst' = burst - 1
  /\ UNCHANGED <<phase, session>>
Do(group, u) == CanRun(group) /\ Runs(u)
Edit(group, u, error) ==
  CanRun(group) /\ Runs(print_error(IF s.e.opt.read_only THEN s ELSE u,
                                    IF s.e.opt.read_only THEN <<"read only">> ELSE error))
-----------------------------------------------------------------------------
(* Moves.                                                                  *)
LINEUP_A   == Do("move", LineUp(s))
LINEDOWN_A == Do("move", LineDown(s))
MOVELEFT_A  == Do("move", CharLeft(s))
MOVERIGHT_A == Do("move", CharRight(s))
MOVEEOL_A   == Do("move", ToEol(s))
MOVESOL_A   == Do("page", ToSol(s))
PREVPAGE_A == Do("page", PrevPage(s))
NEXTPAGE_A == Do("page", NextPage(s))
PAGEUP_A   == Do("page", PageUp(s))
PAGEDOWN_A == Do("page", PageDown(s))
MOVETOS_A  == Do("page", ToTos(s))
MOVEBOS_A  == Do("page", ToBos(s))
MOVESOF_A  == Do("move", ToSof(s))
MOVEEOF_A  == Do("move", ToEof(s))
TOGGLESEOF_A  == Do("page", ToggleSeof(s))
TOGGLESEOL_A  == Do("page", ToggleSeol(s))
MOVEINCUP_A   == Do("page", MoveIncUp(s))
MOVEINCDOWN_A == Do("page", MoveIncDown(s))
GOTOCOLUMN_A == \E x \in {0, 3, s.e.ne_columns + 1} : Do("page", GotoColumn(s, x))
ADJUSTVIEW_A == \E d \in {"t", "m", "b", "l", "c", "r"} : Do("page", AdjustView(s, d, 0))

(* goto_line_pos() reaches another line that the window shows without a    *)
(* new look at the lines after the one that was edited: left out.          *)
Reaches(n) == s.need_attr_update => n = s.e.cur_line \/ ~LineSeen(s.e, n)
ToWord(back) ==
  /\ WordSpot(s.e, back, TRUE) # NoSpot => Reaches(WordSpot(s.e, back, TRUE).line - 1)
  /\ Do("page", SearchWord(s, back, TRUE))
NEXTWORD_A == ToWord(FALSE)
PREVWORD_A == ToWord(TRUE)
GOTOLINE_A == \E n \in 0 .. num_lines(s.e) - 1 : Reaches(n) /\ Do("page", GotoLinePos(s, n, -1))
-----------------------------------------------------------------------------
(* Edits.                                                                  *)
(* update_inserted_char() takes the colours that parse() found last for    *)
(* those of the line of the cursor, and draws what is before a TAB again   *)
(* with them; update_overwritten_char() draws each of those characters     *)
(* with the colour of the one before it, and without "ich" does not come   *)
(* back from the room it makes. That is left out.                          *)
HasTab(ln) == Tab \in Range(ln)
ColorsAtHand == s.syn /\ s.known /\ HasTab(CurText(s)) => AttrsFrom(s, 0, Len(s.b_attr)) = s.b_attr
Reshapes(c) == Overwrites(s.e) /\ WidthAt(s, CurText(s)[s.e.cur_pos + 1], s.e.cur_x) # WidthAt(s, c, s.e.cur_x)
CanReshape == Has(s.t, "ich") /\ (s.syn => ~HasTab(SubSeq(CurText(s), s.e.cur_pos + 2, LineLen(s.e))))
Shows(c) == ColorsAtHand /\ (Reshapes(c) => CanReshape)
INSERTCHAR_A == \E c \in Typing : Shows(c) /\ Edit("type", TypeChar(s, c), <<>>)
INSERTTAB_A  == Shows(Tab) /\ Edit("type", TypeTab(s), <<>>)
(* Without a scroll region, InsertLine on the last row of the window blanks *)
(* the new line after update_line() has noted its colours: left out.       *)
INSERTLINE_A ==
  /\ s.syn /\ ~scroll_region_ok(s.t) => Row(s) < Rows(s.e)
  /\ Edit("type", SplitHere(s), <<>>)
BACKSPACE_A  == Edit("edit", EraseBack(s), <<>>)
DELETECHAR_A == Edit("edit", EraseChar(s), <<>>)
DELETELINE_A == Edit("edit", EraseLine(s), <<>>)
UNDELLINE_A  == Edit("edit", RestoreLine(s), IF s.e.last_deleted = <<>> THEN <<"no line">> ELSE <<>>)
DELETEEOL_A  == Edit("edit", EraseEol(s), <<>>)
UNDO_A == Edit("undo", UndoGroup(s), IF s.e.cur_step = 0 THEN <<"no undo">> ELSE <<>>)
REDO_A == Edit("undo", RedoGroup(s), IF s.e.cur_step = Len(s.e.steps) THEN <<"no redo">> ELSE <<>>)
-----------------------------------------------------------------------------
(* Options.                                                                *)
Set(u) == Do("options", u)
INSERT_A    == Set([s EXCEPT !.e.opt.insert = ~@])
READONLY_A  == Set([s EXCEPT !.e.opt.read_only = ~@])
(* Without a status bar and "el", a message goes to the end of its line.   *)
STATUSBAR_A == Has(s.t, "el") /\ Set(reset_status_bar([s EXCEPT !.status_bar = ~@]))
TURBO_A     == \E n \in {0, 2} : Set([s EXCEPT !.turbo = n])
AUTOMATCHBRACKET_A == \E style \in {{}, Matching} : Set([s EXCEPT !.automatch = style])
Retab(u, n, p) == WindowGone(GotoPos([ToSol(u) EXCEPT !.e.opt.tab_size = n], p))
TABSIZE_A == \E n \in 1 .. (s.e.ne_columns \div 2) - 1 : Set(Retab(s, n, s.e.cur_pos))
SYNTAX_A  == Set(WindowGone(reset_syntax_states([s EXCEPT !.syn = ~@])))

(* The beginning of a block.                                               *)
SetMark(u, v) ==
  [u EXCEPT !.e.pts = (Mark :> Point(u.e.cur_line_desc, u.e.cur_pos)) @@ @, !.e.vertical = v]
MARK_A == \E v \in BOOLEAN : Set(SetMark(print_message(s, <<"marked">>), v))
UNMARK_A == Mark \in DOMAIN s.e.pts /\ Set([s EXCEPT !.e.pts = <<>>])
-----------------------------------------------------------------------------
(* The terminal: it is cleared and drawn again, it changes size while the  *)
(* program waits for a key, and the program is suspended.                  *)
OnSize(u) ==
  With(u, keep_cursor_on_screen([u.e EXCEPT !.ne_lines = u.t.ne_lines, !.ne_columns = u.t.ne_columns]))
Refresh(u) == WindowGone(OnSize(OnTerm(u, ttysize(clear_entire_screen(u.t)))))
(* A macro sees the result at once. A message that it has shown before     *)
(* would be cleared: left out.                                             *)
AtOnce(u) == IF session.macro > 1 THEN draw_status_bar(refresh_window(u)) ELSE u
REFRESH_A == ~s.bar.showing /\ Do("device", AtOnce(Refresh(s)))

Unshown(u) == [u EXCEPT !.match = Hidden, !.mark = Hidden, !.info = FALSE]
WindowChangesSize ==
  \E size \in Sizes :
    /\ phase = "key" /\ "device" \in session.groups /\ left > 0 /\ <<size.lines, size.cols>> # <<s.t.lines, s.t.cols>>
    /\ s' = Unshown(Refresh(hide_mark(OnTerm(s, ttysize(Resized(s.t, size.lines, size.cols))))))
    /\ phase' = "run" /\ left' = left - 1 /\ burst' = 0
    /\ UNCHANGED session

(* stop_ne() leaves the terminal to the shell.                             *)
LeaveTerminal(t) ==
  reset_terminal_modes(move_cursor(clear_to_eol(move_cursor(cmat(t, -1, -1), t.ne_lines - 1, 0)), t.ne_lines - 1, 0))
ShellRan(t) ==
  [t EXCEPT !.y = t.lines - 1, !.x = 0, !.cell = [y \in DOMAIN @ |-> [x \in DOMAIN @[y] |-> [c |-> Garbage, a |-> Plain]]]]
Stopped(u) == OnSize(WindowGone(OnTerm(u, set_terminal_modes(ShellRan(LeaveTerminal(u.t))))))
(* set_terminal_modes() turns the attributes off and leaves curr_attr as it *)
(* is, but where "rmso" turns them off too: they are off before, here.     *)
SUSPEND_A ==
  /\ ~s.bar.showing /\ (esm_is_eam(s.t) \/ s.t.curr_attr = Plain)
  /\ Do("device", Stopped(s))

(* The copyright notice stays until the next key.                          *)
Notice(t) == output_string(move_cursor(clear_entire_screen(set_attr(t, Plain)), 0, 0), <<"(c)">>)
About(u) == [print_message(WindowGone(OnTerm(u, Notice(u.t))), <<"about">>) EXCEPT !.info = TRUE]
ABOUT_A == Do("device", About(s))
-----------------------------------------------------------------------------
(* The menus. An item that is below the screen, or a menu that is beyond   *)
(* its right side, can be chosen only by the two keys that go to the last  *)
(* one; that is left out.                                                  *)
ESCAPE_A ==
  /\ CanRun("menus") /\ burst = session.macro
  /\ s' = draw_first_menu(s)
  /\ phase' = "menu" /\ left' = left - 1
  /\ UNCHANGED <<burst, session>>
InMenus(u) ==
  /\ phase = "menu" /\ left > 0
  /\ s' = u
  /\ left' = left - 1 /\ UNCHANGED <<phase, burst, session>>
MenuRight == InMenus(ToMenu(s, NextMenu(s)))
MenuLeft  == InMenus(ToMenu(s, PrevMenu(s)))
MenuDown  == InMenus(ToItem(s, NextItem(s)))
MenuUp    == InMenus(ToItem(s, PrevItem(s)))
MenuPageUp   == InMenus(ToItem(s, 1))
MenuPageDown == ItemFits(s, item_num(s.current_menu)) /\ InMenus(ToItem(s, item_num(s.current_menu)))
MenuFirst == s.current_menu # 1 /\ InMenus(ToMenu(s, 1))
MenuLast  == Fits(s, menu_num) /\ InMenus(ToMenu(s, menu_num))
ItemLetters == {MenuBar[s.current_menu].items[i][1] : i \in 1 .. item_num(s.current_menu)}
MenuItemLetter ==
  \E c \in ItemLetters : search_menu_item(s, c) > 0 /\ InMenus(ToItem(s, search_menu_item(s, c)))
MenuTitleLetter ==
  \E n \in 1 .. menu_num :
    /\ search_menu_title(s, MenuBar[n].text[1]) > 0
    /\ InMenus(ToMenu(s, search_menu_title(s, MenuBar[n].text[1])))

(* Escape, or a command: that of the item, of another key or typed.        *)
LeaveMenus ==
  /\ phase = "menu"
  /\ s' = undraw_last_menu(s)
  /\ phase' = "run" /\ UNCHANGED <<left, burst, session>>
-----------------------------------------------------------------------------
Moves ==
  \/ LINEUP_A \/ LINEDOWN_A \/ MOVELEFT_A \/ MOVERIGHT_A \/ MOVEEOL_A \/ MOVESOL_A \/ PREVPAGE_A \/ NEXTPAGE_A
  \/ PAGEUP_A \/ PAGEDOWN_A \/ MOVETOS_A \/ MOVEBOS_A \/ MOVESOF_A \/ MOVEEOF_A \/ TOGGLESEOF_A \/ TOGGLESEOL_A
  \/ MOVEINCUP_A \/ MOVEINCDOWN_A \/ NEXTWORD_A \/ PREVWORD_A \/ GOTOCOLUMN_A \/ GOTOLINE_A \/ ADJUSTVIEW_A
Edits ==
  \/ INSERTCHAR_A \/ INSERTTAB_A \/ INSERTLINE_A \/ BACKSPACE_A \/ DELETECHAR_A \/ DELETELINE_A \/ UNDELLINE_A
  \/ DELETEEOL_A \/ UNDO_A \/ REDO_A
Settings ==
  \/ INSERT_A \/ READONLY_A \/ STATUSBAR_A \/ TURBO_A \/ AUTOMATCHBRACKET_A \/ TABSIZE_A \/ SYNTAX_A \/ MARK_A
  \/ UNMARK_A \/ REFRESH_A \/ WindowChangesSize \/ SUSPEND_A \/ ABOUT_A
Menus_A ==
  \/ ESCAPE_A \/ MenuRight \/ MenuLeft \/ MenuDown \/ MenuUp \/ MenuPageUp \/ MenuPageDown \/ MenuFirst \/ MenuLast
  \/ MenuItemLetter \/ MenuTitleLetter \/ LeaveMenus
Next == MainLoop \/ KeyPressed \/ Moves \/ Edits \/ Settings \/ Menus_A
Spec == Init /\ [][Next]_vars
-----------------------------------------------------------------------------
(* What a place of the window should show: the character of the line that  *)
(* has this column, with the colour of its state of highlighting. A wide   *)
(* character that is cut by a side of the window is not there.             *)
LineAt(u, y) == u.e.top_line_desc + y
CharAt(ln, col, tab) ==
  {i \in DOMAIN ln : calc_width(ln, i - 1, tab) <= col /\ col < calc_width(ln, i, tab)}
Seen(t, a) ==
  IF color_ok(t)
    THEN [at |-> a.at \cap MAY_USE_WITH_COLORS(t),
          fg |-> IF a.fg = Default THEN Default ELSE <<a.fg[1], FALSE>>,
          bg |-> IF a.bg = Default THEN Default ELSE <<a.bg[1], FALSE>>]
  ELSE Plain
GlyphShown(u, ln, i, x, first) ==
  CASE ln[i] = Tab -> Space
    [] ln[i] \in Wide -> IF first < u.e.win_x \/ first + 2 > u.e.win_x + u.t.ne_columns THEN Space
                         ELSE IF first = u.e.win_x + x THEN ln[i] ELSE Half
    [] OTHER -> GlyphOf(ln[i])
ColorOf(u, l, i) == IF u.syn THEN LET p == parse(u.e.lines[l], u.hs[l]) IN IF p.ok THEN p.attr[i] ELSE Plain ELSE Plain
AttrShown(u, ln, l, i) ==
  IF ln[i] = Tab THEN ColorOf(u, l, i) ELSE AttrOf(ln[i], ColorOf(u, l, i))
PlaceShown(u, ln, l, x, at) ==
  IF at = {} THEN [c |-> Space, a |-> Plain]
  ELSE [c |-> GlyphShown(u, ln, Max(at), x, calc_width(ln, Max(at) - 1, Tabs(u.e))),
        a |-> Seen(u.t, AttrShown(u, ln, l, Max(at)))]
PlaceOf(u, y, x) ==
  IF ~IsLine(u, LineAt(u, y)) THEN [c |-> Space, a |-> Plain]
  ELSE PlaceShown(u, u.e.lines[LineAt(u, y)], LineAt(u, y), x,
                  CharAt(u.e.lines[LineAt(u, y)], u.e.win_x + x, Tabs(u.e)))

(* Of a space only the background is seen.                                 *)
Look(cell) ==
  IF cell.c = Space THEN [cell EXCEPT !.a.fg = Default, !.a.at = @ \cap {"inverse", "underline", "standout"}] ELSE cell
Highlighted(u, y, x) == \E g \in {u.match, u.mark} : g.shown /\ g.y = y /\ x \in g.x .. g.x + output_width(g.c) - 1
ShowsText(u, y, x) == Highlighted(u, y, x) \/ Look(u.t.cell[y][x]) = Look(PlaceOf(u, y, x))

(* Whenever the program waits for a key, the screen shows the text around  *)
(* the cursor as it is now, with the colours of its syntax: whatever       *)
(* shortcuts the updates took (lines scrolled, characters inserted and     *)
(* deleted in place, parts left alone because they would not change,       *)
(* updates postponed), and whatever was shown over it.                     *)
TextShown ==
  phase = "key" /\ ~s.info =>
    \A y \in 0 .. TextRows(s) - 1 : \A x \in Columns(s.t) : ShowsText(s, y, x)

(* And the status bar tells where the cursor is and how the options are    *)
(* set, unless a message is shown in its place.                            *)
BarTells ==
  phase = "key" =>
    IF s.bar.gone THEN s.bar.msg # <<>> => s.t.cell[LastRow(s)][0].c = s.bar.msg[1]
    ELSE s.status_bar => \A i \in 1 .. 4 : s.t.cell[LastRow(s)][FieldAt(s.t, i)].c = BarFields(s.e)[i]

(* The colours that the program believes to be on the screen for the line  *)
(* of the cursor are the right ones, as do_action() asserts, and unless    *)
(* the lines after it are known to need it, each line begins with the      *)
(* state in which the line before ends.                                    *)
Consistent(u, l) == u.hs[l + 1] = parse(u.e.lines[l], u.hs[l]).next
StatesSound ==
  s.syn =>
    /\ s.known => /\ Len(s.b_attr) = LineLen(s.e)
                  /\ \A i \in DOMAIN s.b_attr : s.b_attr[i] = ColorOf(s, Cur(s), i)
                  /\ s.next_state = parse(Line(s.e), s.hs[Cur(s)]).next
    /\ \A l \in 1 .. num_lines(s.e) - 1 : Consistent(s, l) \/ (s.need_attr_update /\ l >= Cur(s))

(* What the program believes of the terminal is true: where the cursor is, *)
(* which attributes and modes are set and that all of the screen scrolls.  *)
DeviceKnown ==
  /\ CursorLost(s.t) \/ Agree(s.t)
  /\ s.t.a = [Seen(s.t, s.t.curr_attr) EXCEPT !.at = @ \cup (IF s.t.standout_mode THEN {"standout"} ELSE {})]
  /\ s.t.ins = s.t.insert_mode /\ s.t.top = 0 /\ s.t.bot = s.t.lines - 1

(* While the menus are shown, the current item is the only one that does   *)
(* not stand out, and what they do not cover is still the text.            *)
InBox(u, n, y, x) ==
  y \in 1 .. ItemsShown(u, n) + PlainRows(u.t) /\ x \in xpos(n) - 1 .. xpos(n) - 2 + FullWidth(u, n)
StandsOut(u, y, x) == "standout" \in u.t.cell[y][x].a.at
MenuShown ==
  phase = "menu" =>
    /\ \A y \in 1 .. TextRows(s) - 1 : \A x \in Columns(s.t) : InBox(s, s.current_menu, y, x) \/ ShowsText(s, y, x)
    /\ \A i \in 1 .. ItemsShown(s, s.current_menu) : \A k \in 1 .. width(s.current_menu) :
         LET x == xpos(s.current_menu) + k - 1 + PlainRows(s.t) IN
         x < s.t.ne_columns - PlainRows(s.t) =>
           /\ s.t.cell[i][x].c = MenuBar[s.current_menu].items[i][k]
           /\ standout_ok(s.t) =>
                (StandsOut(s, i, x) <=> i # CurItem(s) \/ k > Len(Item(s, s.current_menu)))
=============================================================================
