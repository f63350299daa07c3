------------------------------ MODULE Terminal ------------------------------
(***************************************************************************)
(* Output to the terminal (term.c and cm.c): what each function of term.c  *)
(* sends, and what the terminal makes of it.                               *)
(*                                                                         *)
(* A terminal t has a device, of which the program knows nothing but what  *)
(* it sent:                                                                *)
(*   t.cell   what each place of the screen shows: a glyph c and its       *)
(*            attributes a; a character of two columns has Half in the     *)
(*            second one;                                                  *)
(*   t.y, t.x   where the device prints next; a device that wraps late     *)
(*            ("xenl", MagicWrap) has t.x = t.cols after its last column;  *)
(*   t.lines, t.cols   its size; t.top, t.bot its scroll region;           *)
(*   t.ins, t.a   its insert mode, and the attributes of the next glyph;   *)
(* and the variables of the program about it: ne_lines, ne_columns, curY   *)
(* and curX (both -1 when lost), curr_attr, insert_mode, the standout and  *)
(* underline modes that are set and wanted, and specified_window.          *)
(*                                                                         *)
(* t.has is the set of the capabilities of the device, by their terminfo   *)
(* names, t.flags the attributes it can be asked for, t.ncv those it       *)
(* cannot mix with colours, and t.cost the length of each of its ways to   *)
(* move the cursor, BIG where there is none.                               *)
(***************************************************************************)
EXTENDS DocLines

CONSTANTS
  Control, \* a function: what out() shows, inverted, for each character that cannot be printed
  Half     \* the second column of a wide character

BIG == 9999

(* Attributes: a set of flags and two colours, each with its name and if   *)
(* it is the bright one. NoAttr is -1: the attributes are left alone.      *)
Flags   == {"inverse", "bold", "underline", "dim", "blink"}
Default == <<"-", FALSE>>
Plain   == [at |-> {}, fg |-> Default, bg |-> Default]
NoAttr  == [at |-> Flags, fg |-> <<"white", TRUE>>, bg |-> <<"white", TRUE>>]
Inverted(a) == [a EXCEPT !.at = @ \cup {"inverse"}]
Has(t, c) == c \in t.has
-----------------------------------------------------------------------------
(* The device. What is cleared takes the background colour of the moment   *)
(* where the device does so ("bce").                                       *)
Columns(t) == 0 .. t.cols - 1
Now(f) == f @@ <<>> \* f itself: TLC computes it once and for all
Empty(t) == [c |-> Space, a |-> [Plain EXCEPT !.bg = IF Has(t, "bce") THEN t.a.bg ELSE Default]]
EmptyRow(t) == Now([x \in Columns(t) |-> Empty(t)])

(* A wide character that has lost a half is not shown.                     *)
Halved(row, x, cols) ==
  \/ row[x].c = Half /\ (x = 0 \/ row[x - 1].c \notin Wide)
  \/ row[x].c \in Wide /\ (x = cols - 1 \/ row[x + 1].c # Half)
SetRow(t, y, row) ==
  [t EXCEPT !.cell[y] =
     Now([x \in Columns(t) |-> IF Halved(row, x, t.cols) THEN [row[x] EXCEPT !.c = Space] ELSE row[x]])]

(* The lines of the region from line y on move by n, down or up.           *)
Shifted(t, y, n, l) ==
  IF l < y \/ l > t.bot THEN t.cell[l]
  ELSE IF l - n \in y .. t.bot THEN t.cell[l - n] ELSE EmptyRow(t)
Scrolled(t, y, n) == [t EXCEPT !.cell = Now([l \in 0 .. t.lines - 1 |-> Shifted(t, y, n, l)])]
LineFeed(t) == IF t.y = t.bot THEN Scrolled(t, t.top, -1) ELSE [t EXCEPT !.y = Min({@ + 1, t.lines - 1})]
ReverseFeed(t) == IF t.y = t.top THEN Scrolled(t, t.top, 1) ELSE [t EXCEPT !.y = Max({@ - 1, 0})]

(* The places of the line from the cursor on move by n, right or left.     *)
ShiftPlace(t, n, x) ==
  IF x < t.x THEN t.cell[t.y][x]
  ELSE IF x - n \in t.x .. t.cols - 1 THEN t.cell[t.y][x - n] ELSE Empty(t)
ShiftPlaces(t, n) == SetRow(t, t.y, [x \in Columns(t) |-> ShiftPlace(t, n, x)])

(* A glyph is printed; one that does not fit goes to the next line.        *)
output_width(c) == IF c \in Wide THEN 2 ELSE 1
NewRow(t) == [LineFeed(t) EXCEPT !.x = 0]
FitBefore(t, g) ==
  IF t.x + output_width(g) <= t.cols THEN t
  ELSE IF Has(t, "am") THEN NewRow(t) ELSE [t EXCEPT !.x = t.cols - output_width(g)]
Stamp(t, g, x) ==
  CASE x = t.x -> [c |-> g, a |-> t.a]
    [] x = t.x + 1 /\ g \in Wide -> [c |-> Half, a |-> t.a]
    [] OTHER -> t.cell[t.y][x]
Stamped(t, g) == SetRow(t, t.y, [x \in Columns(t) |-> Stamp(t, g, x)])
AtMargin(t) ==
  IF t.x < t.cols \/ (Has(t, "am") /\ Has(t, "xenl")) THEN t
  ELSE IF Has(t, "am") THEN NewRow(t) ELSE [t EXCEPT !.x = t.cols - 1]
MadeSpaceLeft(t, g) == IF t.ins THEN ShiftPlaces(t, output_width(g)) ELSE t
Printed(t, g) == AtMargin([Stamped(MadeSpaceLeft(t, g), g) EXCEPT !.x = @ + output_width(g)])
putchar(t, g) == Printed(FitBefore(t, g), g)

(* The cursor of the device, moved to a place or by some places.           *)
MovedTo(t, y, x) == [t EXCEPT !.y = y, !.x = x]
MovedBy(t, dy, dx) ==
  [t EXCEPT !.y = Max({0, Min({t.lines - 1, @ + dy})}), !.x = Max({0, Min({t.cols - 1, @ + dx})})]
-----------------------------------------------------------------------------
(* term_init().                                                            *)
color_ok(t) == Has(t, "setf")
scroll_region_ok(t) == Has(t, "csr")
line_ins_del_ok(t) ==
  \/ t.has \cap {"il1", "il"} # {} /\ t.has \cap {"dl1", "dl"} # {}
  \/ {"csr", "ind", "ri"} \subseteq t.has
char_ins_del_ok(t) == t.has \cap {"ich1", "smir", "ich"} # {} /\ t.has \cap {"dch1", "dch"} # {}
delete_in_insert_mode(t) == Has(t, "smdc is smir")
esm_is_eam(t) == Has(t, "rmso is sgr0")
-----------------------------------------------------------------------------
(* set_attr(): the flags are set again only when they change or a colour   *)
(* goes back to its default, a colour only when it changes too. A bright   *)
(* colour is sent as the other one.                                        *)
MAY_USE_WITH_COLORS(t) == IF color_ok(t) THEN t.flags \ t.ncv ELSE {}
MustReset(c, a) == c.at # a.at \/ (a.fg = Default /\ c.fg # Default) \/ (a.bg = Default /\ c.bg # Default)
Sent(t, new, old, was, reset) ==
  IF color_ok(t) /\ new # Default /\ (reset \/ new # old) THEN <<new[1], FALSE>> ELSE IF reset THEN Default ELSE was
DeviceAttr(t, a, reset) ==
  [at |-> IF reset THEN a.at \cap MAY_USE_WITH_COLORS(t) ELSE t.a.at,
   fg |-> Sent(t, a.fg, t.curr_attr.fg, t.a.fg, reset),
   bg |-> Sent(t, a.bg, t.curr_attr.bg, t.a.bg, reset)]
set_attr(t, a) == [t EXCEPT !.a = DeviceAttr(t, a, MustReset(t.curr_attr, a)), !.curr_attr = a]

(* Standout is one more flag of the device.                                *)
AskFlag(t, f) == [t EXCEPT !.a.at = @ \cup {f}]
turn_off_standout(t) ==
  IF esm_is_eam(t) THEN [t EXCEPT !.a = Plain, !.curr_attr = Plain, !.standout_mode = FALSE]
  ELSE [t EXCEPT !.a.at = @ \ {"standout"}, !.standout_mode = FALSE]
standout_if_wanted(t) ==
  IF t.standout_mode = t.standout_wanted THEN t
  ELSE IF t.standout_wanted THEN [AskFlag(t, "standout") EXCEPT !.standout_mode = TRUE]
  ELSE turn_off_standout(t)
turn_off_underline(t) == [t EXCEPT !.a.at = @ \ {"underline"}, !.underline_mode = FALSE]
underline_if_wanted(t) ==
  IF t.underline_mode = t.underline_wanted THEN t
  ELSE IF t.underline_wanted THEN [AskFlag(t, "underline") EXCEPT !.underline_mode = TRUE]
  ELSE turn_off_underline(t)
standout_on(t)   == [t EXCEPT !.standout_wanted = @ \/ Has(t, "smso")]
standout_off(t)  == [t EXCEPT !.standout_wanted = FALSE]
underline_on(t)  == [t EXCEPT !.underline_wanted = @ \/ Has(t, "smul")]
underline_off(t) == [t EXCEPT !.underline_wanted = FALSE]

turn_on_insert(t)  == [t EXCEPT !.ins = @ \/ Has(t, "smir"), !.insert_mode = TRUE]
turn_off_insert(t) == IF t.insert_mode THEN [t EXCEPT !.ins = FALSE, !.insert_mode = FALSE] ELSE t
-----------------------------------------------------------------------------
(* cmgoto() moves the cursor the cheapest way: from where it is, from the  *)
(* first or last line or the beginning of this one, or directly.           *)
Both(a, b) == IF a = BIG \/ b = BIG THEN BIG ELSE a + b
Repeated(unit, n) == IF unit = BIG THEN BIG ELSE n * unit
Steps(d, back, forth) == IF d = 0 THEN 0 ELSE Repeated(IF d < 0 THEN back ELSE forth, IF d < 0 THEN -d ELSE d)
calccost(t, sy, sx, y, x) ==
  IF t.curX = t.ne_columns THEN BIG
  ELSE Both(Steps(y - sy, t.cost.up, t.cost.down), Steps(x - sx, t.cost.left, t.cost.right))

Ways == <<"direct", "rel", "home", "ll", "cr">>
Origin(t, way) ==
  CASE way = "home" -> <<0, 0>> [] way = "ll" -> <<t.ne_lines - 1, 0>>
    [] way = "cr" -> <<t.curY, 0>> [] OTHER -> <<t.curY, t.curX>>
DirectWay(t, y, x) ==
  CASE y = t.curY /\ t.cost.habs < BIG -> "habs"
    [] ~(y = t.curY /\ t.cost.habs < BIG) /\ x = t.curX /\ t.cost.vabs < BIG -> "vabs"
    [] OTHER -> "abs"
RelativeCost(t, from, y, x) == calccost(t, from[1], from[2], y, x)
CostOf(t, way, y, x) ==
  IF way = "direct" THEN t.cost[DirectWay(t, y, x)]
  ELSE Both(IF way = "rel" THEN 0 ELSE t.cost[way], RelativeCost(t, Origin(t, way), y, x))
Cheapest(cost) ==
  CHOOSE i \in DOMAIN cost : /\ \A j \in DOMAIN cost : cost[i] <= cost[j]
                             /\ \A j \in 1 .. i - 1 : cost[i] < cost[j]
BestWay(t, y, x) == Ways[Cheapest(Now([i \in DOMAIN Ways |-> CostOf(t, Ways[i], y, x)]))]

(* A direct motion in the line or in the column leaves the other one.      *)
Jump(t, way, y, x) ==
  CASE way = "habs" -> MovedTo(t, t.y, x) [] way = "vabs" -> MovedTo(t, y, Min({t.x, t.cols - 1}))
    [] OTHER -> MovedTo(t, y, x)
Jumped(t, way) ==
  CASE way = "home" -> MovedTo(t, 0, 0) [] way = "ll" -> MovedTo(t, t.lines - 1, 0)
    [] way = "cr" -> MovedTo(t, t.y, 0) [] OTHER -> t
Travel(t, way, from, y, x) == MovedBy(Jumped(t, way), y - from[1], x - from[2])
Go(t, way, y, x) ==
  IF way = "direct" THEN Jump(t, DirectWay(t, y, x), y, x) ELSE Travel(t, way, Origin(t, way), y, x)
CursorLost(t) == t.curY < 0 \/ t.curX < 0
cmat(t, y, x) == [t EXCEPT !.curY = y, !.curX = x]
cmgoto(t, y, x) ==
  cmat(IF CursorLost(t) THEN MovedTo(t, y, x) ELSE Go(t, BestWay(t, y, x), y, x), y, x)

BeforeMove(t) == IF Has(t, "msgr") THEN t ELSE turn_off_standout(t)
InsertForMove(t) == IF Has(t, "mir") THEN t ELSE turn_off_insert(t)
move_cursor(t, y, x) ==
  IF t.curY = y /\ t.curX = x THEN t
  ELSE cmgoto(InsertForMove(BeforeMove(t)), y, x)

(* cmplus(): where the program thinks the cursor is after n columns.       *)
cmplus(t, n) ==
  IF t.curX + n < t.ne_columns \/ Has(t, "xenl") THEN [t EXCEPT !.curX = @ + n]
  ELSE IF Has(t, "am") THEN [t EXCEPT !.curX = 0, !.curY = @ + 1]
  ELSE [t EXCEPT !.curX = @ + n - 1]
-----------------------------------------------------------------------------
(* Clearing.                                                               *)
RightWith(t, blank) == SetRow(t, t.y, [x \in Columns(t) |-> IF x < t.x THEN t.cell[t.y][x] ELSE blank])
ClearRight(t) == RightWith(t, Empty(t))
PutSpaces(t) == AtMargin([RightWith(t, [c |-> Space, a |-> t.a]) EXCEPT !.x = t.cols])
NoBackground(t) == IF t.curr_attr.bg # Default THEN set_attr(t, Plain) ELSE t
ClearWith(t, unused) ==
  IF Has(t, "el") THEN ClearRight(t) ELSE cmplus(PutSpaces(turn_off_insert(t)), unused - t.curX)
clear_end_of_line(t, unused) == IF t.curX >= unused THEN t ELSE ClearWith(NoBackground(t), unused)
clear_to_eol(t) == clear_end_of_line(t, t.ne_columns)

ClearBelow(t) ==
  [ClearRight(t) EXCEPT !.cell = Now([y \in 0 .. t.lines - 1 |-> IF y > t.y THEN EmptyRow(t) ELSE @[y]])]
clear_to_end(t) ==
  IF Has(t, "ed") THEN ClearBelow(t)
  ELSE FoldLeft(LAMBDA u, y : clear_to_eol(move_cursor(u, y, 0)), t,
                [i \in 1 .. t.ne_lines - t.curY |-> t.curY + i - 1])
clear_entire_screen(t) ==
  IF Has(t, "clear") THEN cmat(ClearBelow(MovedTo(t, 0, 0)), 0, 0) ELSE clear_to_end(move_cursor(t, 0, 0))
-----------------------------------------------------------------------------
(* Characters: a sequence s of them, with the attributes as of each one.   *)
(* What does not fit in the line is not sent, nor is the last place of the *)
(* screen written when that would scroll it.                               *)
WidthOf(s) == Len(s) + Cardinality({i \in DOMAIN s : s[i] \in Wide})
Avoided(t) == IF Has(t, "am") /\ ~Has(t, "xenl") /\ t.curY = t.ne_lines - 1 THEN 1 ELSE 0
SpaceLeft(t) == t.ne_columns - t.curX - Avoided(t)
Fitting(t, s) == SubSeq(s, 1, Max({0} \cup {k \in 1 .. Len(s) : WidthOf(SubSeq(s, 1, k)) <= SpaceLeft(t)}))

GlyphOf(c) == IF c \in DOMAIN Control THEN Control[c] ELSE c
AttrOf(c, a) == IF c \in DOMAIN Control THEN Inverted(a) ELSE a
out(t, c, a) == putchar(IF a = NoAttr THEN t ELSE set_attr(t, AttrOf(c, a)), GlyphOf(c))
OutAll(t, s, as) == FoldLeft(LAMBDA u, i : out(u, s[i], as[i]), t, [i \in DOMAIN s |-> i])
InModes(t) == underline_if_wanted(standout_if_wanted(t))
Counted(t, s) == cmplus(t, WidthOf(s))
OutFitting(t, s, as) == OutAll(Counted(t, Fitting(t, s)), Fitting(t, s), as)
output_chars(t, s, as) == IF s = <<>> THEN t ELSE OutFitting(InModes(turn_off_insert(t)), s, as)

Same(n, v) == [i \in 1 .. n |-> v]
output_string(t, s) == output_chars(t, s, Same(Len(s), NoAttr))
output_spaces(t, n, a) == output_chars(t, Same(n, Space), Same(n, a))

(* insert_chars(): the device makes room for all of them, or for each one. *)
RoomForOne(t) == IF Has(t, "ich1") THEN ShiftPlaces(t, 1) ELSE t
InsertGlyph(t, c, a) ==
  out(IF a = NoAttr THEN RoomForOne(t) ELSE set_attr(RoomForOne(t), a), c, a)
InsertAll(t, s, as) == FoldLeft(LAMBDA u, i : InsertGlyph(u, s[i], as[i]), t, [i \in DOMAIN s |-> i])
InsertFitting(t, s, as) == InsertAll(Counted(t, Fitting(t, s)), Fitting(t, s), as)
insert_chars(t, s, as) ==
  IF s = <<>> THEN t
  ELSE IF Has(t, "ich") THEN output_chars(ShiftPlaces(InModes(t), WidthOf(s)), s, as)
  ELSE InsertFitting(turn_on_insert(InModes(t)), s, as)
(* Spaces are not printed in the room the device makes for them at once.   *)
make_room(t, n, a) ==
  IF Has(t, "ich") THEN ShiftPlaces(InModes(t), n) ELSE insert_chars(t, Same(n, Space), Same(n, a))

delete_chars(t, n) ==
  IF n = 0 THEN t
  ELSE IF delete_in_insert_mode(t) THEN ShiftPlaces(turn_on_insert(InModes(t)), -n)
  ELSE ShiftPlaces(turn_off_insert(InModes(t)), -n)
-----------------------------------------------------------------------------
(* Lines: ins_del_lines() inserts n of them at line vpos, or deletes -n,   *)
(* and leaves the lines after the window alone: with a scroll region, or   *)
(* with an insertion that makes up for the deletion.                       *)
(* Slip: the cursor is not lost.                                           *)
BadScrollRegion(t, start, stop) == [t EXCEPT !.top = start, !.bot = stop, !.y = 0, !.x = 0]
set_scroll_region(t, start, stop) ==
  [t EXCEPT !.top = start, !.bot = stop, !.y = 0, !.x = 0, !.curY = -1, !.curX = -1]
Distance(n) == IF n < 0 THEN -n ELSE n
ins_del_ok(t, vpos, n) ==
  /\ scroll_region_ok(t) => vpos + Distance(n) < t.specified_window
  /\ vpos + Distance(n) < t.ne_lines

Feeds(t, n) ==
  FoldLeft(LAMBDA u, i : IF n < 0 THEN LineFeed(u) ELSE ReverseFeed(u), t, [i \in 1 .. Distance(n) |-> i])
ByRegion(t, vpos, n) ==
  set_scroll_region(
    Feeds(move_cursor(set_scroll_region(t, vpos, t.specified_window - 1),
                      IF n < 0 THEN t.specified_window - 1 ELSE vpos, 0), n),
    0, t.ne_lines - 1)
MovedLines(t, y, n) == Scrolled(move_cursor(t, y, 0), y, n)
ByLines(t, vpos, n) ==
  IF n > 0 THEN MovedLines(MovedLines(t, t.specified_window - n, -n), vpos, n)
  ELSE MovedLines(MovedLines(t, vpos, n), t.specified_window + n, -n)
ins_del_lines(t, vpos, n) ==
  IF scroll_region_ok(t) THEN ByRegion(InModes(t), vpos, n) ELSE ByLines(InModes(t), vpos, n)
-----------------------------------------------------------------------------
(* The terminal is prepared, left, or found to have changed size.          *)
Unset(t) == turn_off_underline(turn_off_standout([t EXCEPT !.a = Plain]))
set_terminal_modes(t) == cmat(Unset(t), -1, -1)
reset_terminal_modes(t) == Unset(t)
set_terminal_window(t, size) == [t EXCEPT !.specified_window = IF size > 0 THEN size ELSE t.ne_lines]

Sized(t) == set_terminal_window([t EXCEPT !.ne_lines = t.lines, !.ne_columns = t.cols], t.lines - 1)
ttysize(t) ==
  IF t.ne_lines = t.lines /\ t.ne_columns = t.cols THEN t
  ELSE IF scroll_region_ok(t) THEN set_scroll_region(Sized(t), 0, t.lines - 1) ELSE Sized(t)

(* The device takes a new size, and keeps what still fits.                 *)
Resized(t, lines, cols) ==
  [t EXCEPT !.lines = lines, !.cols = cols, !.top = 0, !.bot = lines - 1,
            !.y = Min({@, lines - 1}), !.x = Min({@, cols - 1}),
            !.cell = Now([y \in 0 .. lines - 1 |-> Now([x \in 0 .. cols - 1 |->
                            IF y < t.lines /\ x < t.cols THEN t.cell[y][x] ELSE Empty(t)])])]

(* When nothing is being sent, the program knows where the cursor is.      *)
Agree(t) == t.curY = t.y /\ t.curX = t.x
=============================================================================
