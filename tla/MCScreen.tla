------------------------------ MODULE MCScreen ------------------------------
(***************************************************************************)
(* Screen for TLC.                                                         *)
(***************************************************************************)
EXTENDS Screen

MCBrackets == {<<"(", ")">>}
MCUpper == "a" :> "A"
MCLowered == "A" :> "a"
MCControl == "^A" :> "A^"
MCClosing == "[" :> "]"

(* A syntax: a word, a comment that may go over several lines, a string    *)
(* that its own bracket closes and in which another syntax is called.      *)
Yellow == [Plain EXCEPT !.fg = <<"yellow", FALSE>>]
Red    == [Plain EXCEPT !.fg = <<"red", TRUE>>]
Bold   == [Plain EXCEPT !.at = {"bold"}]
Green  == [Plain EXCEPT !.fg = <<"green", FALSE>>]

State(color, on, else) == [color |-> color, on |-> on, else |-> else, delim |-> <<>>]
Again(n) == [Goto(n) EXCEPT !.noeat = TRUE]
Idle == State(Plain,
  ("{" :> [Goto(1) EXCEPT !.recolor = -1]) @@ ("a" :> [Goto(2) EXCEPT !.buffer = "start"])
  @@ ("b" :> [Goto(2) EXCEPT !.buffer = "start"]) @@ ("[" :> [Goto(4) EXCEPT !.save_c = TRUE, !.recolor = -1]), Goto(0))
Comment == State(Yellow, "}" :> Goto(0), Goto(1))
Ident == State(Plain, [c \in {"a", "b"} |-> Goto(2)],
  [Again(0) EXCEPT !.keywords = << << <<"a", "b">>, Again(3)>> >>])
Keyword == State(Bold, [c \in {} |-> Goto(0)], Again(0))
String == [State(Green, "$" :> [Goto(4) EXCEPT !.call = "sub"], Goto(4)) EXCEPT !.delim = <<Goto(0)>>]
InSub == State(Red, "b" :> [Goto(0) EXCEPT !.rtn = TRUE], Goto(0))
MCSyntaxes ==
  ("main" :> [n \in 0 .. 4 |-> <<Idle, Comment, Ident, Keyword, String>>[n + 1]])
  @@ ("sub" :> [n \in 0 .. 0 |-> InSub])

(* Terminals.                                                              *)
NoWay == [habs |-> BIG, vabs |-> BIG, abs |-> BIG, home |-> BIG, ll |-> BIG, cr |-> BIG,
          up |-> BIG, down |-> BIG, left |-> BIG, right |-> BIG]
AnsiCost == [NoWay EXCEPT !.abs = 5, !.home = 3, !.cr = 1, !.up = 3, !.down = 1, !.left = 1, !.right = 3]
XtermCost == [AnsiCost EXCEPT !.habs = 4, !.vabs = 4]
Xterm ==
  [has |-> {"setf", "am", "xenl", "msgr", "mir", "bce", "clear", "el", "ed", "csr", "ind", "ri", "il", "il1", "dl", "dl1",
            "ich", "dch", "dch1", "smir", "smso", "civis"},
   flags |-> Flags, ncv |-> {}, cost |-> XtermCost]
Ansi ==
  [has |-> {"setf", "am", "msgr", "mir", "clear", "el", "ed", "il", "il1", "dl", "dl1", "ich", "dch", "dch1", "smso"},
   flags |-> Flags, ncv |-> {"dim", "underline"}, cost |-> AnsiCost]
Vt102 ==
  [has |-> {"am", "xenl", "msgr", "mir", "clear", "el", "ed", "csr", "ind", "ri", "il1", "dl1", "smir", "dch1", "smso",
            "rmso is sgr0"},
   flags |-> Flags, ncv |-> {}, cost |-> [AnsiCost EXCEPT !.abs = 6]]
Vt52 == \* nothing stands out
  [has |-> {"clear", "el", "ed"}, flags |-> {}, ncv |-> {},
   cost |-> [NoWay EXCEPT !.abs = 4, !.home = 2, !.cr = 1, !.up = 2, !.down = 1, !.left = 1, !.right = 2]]
Dumb == \* nothing is cleared
  [has |-> {"clear", "smso"}, flags |-> {}, ncv |-> {},
   cost |-> [NoWay EXCEPT !.abs = 4, !.cr = 1, !.down = 1, !.left = 1]]

MCOpt ==
  [tab_size |-> 2, free_form |-> FALSE, insert |-> TRUE, tabs |-> TRUE, del_tabs |-> FALSE,
   auto_indent |-> FALSE, word_wrap |-> FALSE, right_margin |-> 0, read_only |-> FALSE,
   search_back |-> FALSE, case_search |-> FALSE, shift_tabs |-> TRUE]
Wrapping == [MCOpt EXCEPT !.word_wrap = TRUE, !.right_margin = 4, !.auto_indent = TRUE]
Overwriting == [MCOpt EXCEPT !.insert = FALSE]
Untabbing == [MCOpt EXCEPT !.tabs = FALSE, !.del_tabs = TRUE, !.free_form = TRUE]

MCMenuBar ==
  <<[text |-> <<"F">>, items |-> <<<<"n">>, <<"s">>>>],
    [text |-> <<"E", "d">>, items |-> <<<<"c", "p">>, <<"x", "y">>, <<"c", "z">>>>]>>

Scenario(text, opt, terminal, syn, groups, depth, macro) ==
  [text |-> text, opt |-> opt, terminal |-> terminal, ne_lines |-> 4, ne_columns |-> 6, syn |-> syn, turbo |-> 0,
   automatch |-> {}, groups |-> groups, depth |-> depth, macro |-> macro]

Code == << <<"a", "{", "TAB", "b">>, <<"a", "b", "}">>, <<>>, <<"[", "$", "b", "]", "a", "W", "a", "b">>, <<"(", "a", ")">> >>

Prog == << <<"a", "{", "TAB", "b">>, <<"a", "b", "}">>, <<>>, <<"[", "$", "b", "]", "a", "a", "b">>, <<"(", "W", ")">> >>

MCScenarios ==
  {Scenario(Code, MCOpt, t, y, {"move", "page"}, 2, 2) : t \in {Xterm, Ansi, Dumb}, y \in BOOLEAN}
  \cup {Scenario(Prog, MCOpt, t, TRUE, {"edit", "type", "undo"}, 3, 2) : t \in {Xterm}}
  \cup {Scenario(Prog, MCOpt, t, y, {"move", "type", "edit"}, 3, 1) : t \in {Ansi, Vt102}, y \in BOOLEAN}
  \cup {Scenario(Prog, MCOpt, t, FALSE, {"move", "type", "edit"}, 3, 1) : t \in {Vt52, Dumb}}
  \cup {[Scenario(Prog, MCOpt, Ansi, y, {"move", "type", "edit"}, 3, 2) EXCEPT !.turbo = 2] : y \in BOOLEAN}
  \cup {Scenario(Prog, Wrapping, t, y, {"move", "type"}, 3, 1) : t \in {Xterm, Vt102}, y \in BOOLEAN}
  \cup {Scenario(Prog, Overwriting, t, y, {"move", "type"}, 3, 1) : t \in {Xterm, Vt102}, y \in BOOLEAN}
  \cup {Scenario(Prog, Untabbing, Ansi, FALSE, {"type", "edit"}, 3, 1)}
  \cup {[Scenario(Code, MCOpt, t, y, {"move", "options"}, 3, 1) EXCEPT !.automatch = Matching] : t \in {Xterm, Dumb}, y \in BOOLEAN}
  \cup {Scenario(Code, MCOpt, t, y, {"device", "move"}, 2, 1) : t \in {Xterm, Ansi, Vt102, Dumb}, y \in BOOLEAN}
  \cup {Scenario(Code, MCOpt, t, TRUE, {"device", "edit", "move"}, 2, 2) : t \in {Xterm, Ansi}}
  \cup {[Scenario(Code, MCOpt, t, y, {"menus"}, 4, 1) EXCEPT !.ne_lines = 5] : t \in {Ansi, Vt102, Vt52}, y \in BOOLEAN}
  \cup {Scenario(SubSeq(Prog, 1, 4), MCOpt, Xterm, TRUE, {"edit", "menus"}, 3, 1)}
MCSizes == {[lines |-> 3, cols |-> 5], [lines |-> 5, cols |-> 7]}
=============================================================================
