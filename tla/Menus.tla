------------------------------- MODULE Menus --------------------------------
(***************************************************************************)
(* The last line of the screen and the menus (menu.c), on a state s of the *)
(* screen as Display describes it, with                                    *)
(*   s.bar    the status bar: the fields it was last drawn with, if it is  *)
(*            gone and has to be drawn again, and if a message is shown in *)
(*            its place, the last one being msg;                           *)
(*   s.status_bar   is there to be one?                                    *)
(*   s.current_menu, s.cur_item   the menu and, for each, the item that    *)
(*            are, or were last, chosen.                                   *)
(* A field of the bar is one glyph here, and so is a message.              *)
(***************************************************************************)
EXTENDS Display

CONSTANTS
  MenuBar,  \* the menus: a sequence of [text, items], texts being sequences
  FileName  \* the name of the document

standout_ok(t) == Has(t, "smso")
LastRow(s) == s.t.ne_lines - 1
-----------------------------------------------------------------------------
(* draw_status_bar(): the fields that changed, or all of it.               *)
FlagsOf(e) ==
  ToString(<<e.opt.insert, e.opt.read_only, e.opt.free_form, e.opt.word_wrap, Marking(e) /\ ~e.vertical,
             Marking(e) /\ e.vertical, e.cur_step > 0>>)
BarFields(e) ==
  <<ToString(e.cur_line + 1), ToString(Here(e) + 1), ToString(((e.cur_line + 1) * 100) \div num_lines(e)), FlagsOf(e)>>
ArrowIfPlain(t) == IF standout_ok(t) THEN <<>> ELSE <<">">>
FieldAt(t, i) == Len(ArrowIfPlain(t)) + i - 1
reset_status_bar(s) == [s EXCEPT !.bar.gone = TRUE]

ChangedFields(s) == SelectSeq(<<1, 2, 3, 4>>, LAMBDA i : s.bar.fields[i] # BarFields(s.e)[i])
OutField(t, s, i) == output_string(move_cursor(t, LastRow(s), FieldAt(t, i)), <<BarFields(s.e)[i]>>)
OutChanged(t, s) == FoldLeft(LAMBDA u, i : OutField(u, s, i), standout_on(t), ChangedFields(s))
OutBar(t, s) ==
  LET u == output_string(standout_on(move_cursor(t, LastRow(s), 0)), ArrowIfPlain(t) \o BarFields(s.e) \o <<FileName>>)
  IN  IF standout_ok(t) THEN standout_off(output_spaces(u, t.ne_columns, NoAttr)) ELSE clear_to_eol(u)

Drawn(s, t) == [s EXCEPT !.t = t, !.bar.fields = BarFields(s.e), !.bar.gone = FALSE]
BarOn(s, t) ==
  CASE ~s.bar.gone /\ s.status_bar -> Drawn(s, IF ChangedFields(s) = <<>> THEN t ELSE standout_off(OutChanged(t, s)))
    [] s.bar.gone /\ s.status_bar -> Drawn(s, OutBar(t, s))
    [] s.bar.gone /\ ~s.status_bar ->
         [s EXCEPT !.t = clear_to_eol(move_cursor(t, LastRow(s), 0)), !.bar.gone = FALSE]
    [] OTHER -> OnTerm(s, t)
(* Slip: the message is not drawn over.                                    *)
BadDrawStatusBar(s) == IF s.bar.showing THEN [s EXCEPT !.bar.showing = FALSE] ELSE BarOn(s, set_attr(s.t, Plain))
draw_status_bar(s) ==
  IF s.bar.showing THEN [s EXCEPT !.bar.showing = FALSE, !.bar.gone = TRUE] ELSE BarOn(s, set_attr(s.t, Plain))

(* print_message() leaves its message until the bar is drawn twice.        *)
OutMessage(t, m) ==
  output_spaces(output_string(standout_on(t), m), t.ne_columns - Len(m), NoAttr)
MessageOn(s, t, m) ==
  IF ~standout_ok(t) \/ ~s.status_bar THEN output_string(clear_to_eol(t), m) ELSE standout_off(OutMessage(t, m))
print_message(s, m) ==
  [s EXCEPT !.t = MessageOn(s, set_attr(move_cursor(@, LastRow(s), 0), Plain), m),
            !.bar.showing = TRUE, !.bar.msg = m]
print_error(s, error) == IF error = <<>> THEN s ELSE print_message(s, error)
-----------------------------------------------------------------------------
(* Where get_menu_conf() puts a menu: after the titles of those before.    *)
TitlesBefore(n) == FoldLeft(LAMBDA x, i : x + Len(MenuBar[i].text) + 1, 0, [i \in 1 .. n - 1 |-> i])
xpos(n) == 1 + TitlesBefore(n)
item_num(n) == Len(MenuBar[n].items)
width(n) == Len(MenuBar[n].items[1])
menu_num == Len(MenuBar)
PlainRows(t) == IF standout_ok(t) THEN 0 ELSE 1
ItemsShown(s, n) == Min({item_num(n), LastRow(s) - 1 - PlainRows(s.t)})
FullWidth(s, n) == width(n) + (IF standout_ok(s.t) THEN 2 ELSE 4)

(* The current item is the one that does not stand out; a cursor that      *)
(* cannot be hidden ("civis") is left on its last character.               *)
ItemText(t, n, i) == SubSeq(MenuBar[n].items[i], 1, width(n) - (IF Has(t, "civis") THEN 0 ELSE 1))
Item(s, n) == ItemText(s.t, n, s.cur_item[n])
AtItem(s, n) == move_cursor(s.t, s.cur_item[n], xpos(n) - PlainRows(s.t))
draw_cur_item(s, n) ==
  OnTerm(s, IF standout_ok(s.t) THEN output_string(AtItem(s, n), Item(s, n)) ELSE AtItem(s, n))
undraw_cur_item(s, n) ==
  IF ~standout_ok(s.t) THEN s
  ELSE OnTerm(s, standout_off(output_string(
         move_cursor(standout_on(set_attr(s.t, Plain)), s.cur_item[n], xpos(n)), Item(s, n))))

Side(t) == IF standout_ok(t) THEN t ELSE output_string(t, <<"|">>)
ItemRow(t, n, i) ==
  Side(standout_off(output_string(standout_on(Side(move_cursor(t, i, xpos(n) - 1))),
                                  <<Space>> \o MenuBar[n].items[i] \o <<Space>>)))
MenuFoot(s, t, n) ==
  IF standout_ok(t) THEN t
  ELSE output_string(move_cursor(t, ItemsShown(s, n) + 1, xpos(n) - 1), Same(FullWidth(s, n), "-"))
MenuBox(s, n) ==
  MenuFoot(s, FoldLeft(LAMBDA u, i : ItemRow(u, n, i),
                       output_string(set_attr(move_cursor(s.t, 0, xpos(n)), Plain), MenuBar[n].text),
                       [i \in 1 .. ItemsShown(s, n) |-> i]), n)
OnAnItem(s, n) == IF s.cur_item[n] > LastRow(s) - 1 - PlainRows(s.t) THEN [s EXCEPT !.cur_item[n] = 1] ELSE s
draw_menu(s, n) == draw_cur_item(OnTerm(OnAnItem(s, n), MenuBox(OnAnItem(s, n), n)), n)

(* undraw_menu() draws the part of the text that was behind a menu.        *)
TitleAgain(t, n) ==
  standout_off(output_string(move_cursor(standout_on(set_attr(t, Plain)), 0, xpos(n)), MenuBar[n].text))
Behind(s, n, i, l) == OutText(s, TextOf(s, l), i, xpos(n) - 1, FullWidth(s, n), FALSE, <<>>)
UncoverRow(s, n, i) ==
  Behind(ParseIfSyntax(s, s.e.top_line_desc + i), n, i, s.e.top_line_desc + i)
(* Slip: the lower side of the menu is forgotten.                          *)
BadRowsBehind(s, n) == Min({item_num(n), LastRow(s) - 1})
RowsBehind(s, n) == Min({item_num(n) + PlainRows(s.t), LastRow(s) - 1})
undraw_menu(s, n) ==
  FoldLeft(LAMBDA u, i : UncoverRow(u, n, i), OnTerm(s, TitleAgain(s.t, n)), [i \in 1 .. RowsBehind(s, n) |-> i])

(* handle_menus(): the menus appear, the user walks through them, and they *)
(* disappear again.                                                        *)
Titles(t) ==
  FoldLeft(LAMBDA u, n : output_string(output_string(u, <<Space>>), MenuBar[n].text), t,
           SetToSortSeq({n \in 1 .. menu_num : TitlesBefore(n) < t.ne_columns}, <))
FirstTitles(t) ==
  FoldLeft(LAMBDA u, i : output_string(u, <<Space>>), Titles(standout_on(set_attr(move_cursor(t, 0, 0), Plain))),
           [i \in 1 .. Max({0, t.ne_columns - TitlesBefore(menu_num + 1)}) |-> i])
TitleRow(t) == IF standout_ok(t) THEN standout_off(FirstTitles(t)) ELSE FirstTitles(t)
Fits(s, n) == xpos(n) < s.t.ne_columns
ShowMenu(s, n) == draw_menu([s EXCEPT !.current_menu = n], n)
draw_first_menu(s) ==
  ShowMenu(OnTerm(s, TitleRow(s.t)), IF Fits(s, s.current_menu) THEN s.current_menu ELSE 1)
ToMenu(s, n) == ShowMenu(undraw_menu(s, s.current_menu), n)
undraw_last_menu(s) == update_line(Forget(undraw_menu(s, s.current_menu)), s.e.top_line_desc, 0, 0, FALSE)

NextMenu(s) == IF Fits(s, (s.current_menu % menu_num) + 1) THEN (s.current_menu % menu_num) + 1 ELSE 1
PrevMenu(s) ==
  Max({n \in 1 .. IF s.current_menu = 1 THEN menu_num ELSE s.current_menu - 1 : Fits(s, n)})

ItemFits(s, i) == i <= LastRow(s) - 1 - PlainRows(s.t)
ToItem(s, i) == draw_cur_item([undraw_cur_item(s, s.current_menu) EXCEPT !.cur_item[s.current_menu] = i], s.current_menu)
CurItem(s) == s.cur_item[s.current_menu]
NextItem(s) ==
  LET i == (CurItem(s) % item_num(s.current_menu)) + 1 IN IF ItemFits(s, i) THEN i ELSE 1
PrevItem(s) ==
  LET i == IF CurItem(s) = 1 THEN item_num(s.current_menu) ELSE CurItem(s) - 1
  IN  IF ItemFits(s, i) THEN i ELSE LastRow(s) - 1 - PlainRows(s.t)

(* A letter goes to the next menu, or item, it begins.                     *)
After(n, k, size) == ((n + k - 1) % size) + 1
search_menu_title(s, c) ==
  LET found == {k \in 1 .. menu_num - 1 :
                  LET n == After(s.current_menu, k, menu_num) IN Fits(s, n) /\ MenuBar[n].text[1] = c}
  IN  IF found = {} THEN 0 ELSE After(s.current_menu, Min(found), menu_num)
search_menu_item(s, c) ==
  LET m == s.current_menu
      found == {k \in 1 .. item_num(m) - 1 :
                  LET i == After(CurItem(s), k, item_num(m)) IN ItemFits(s, i) /\ MenuBar[m].items[i][1] = c}
  IN  IF found = {} THEN 0 ELSE After(CurItem(s), Min(found), item_num(m))
=============================================================================
