------------------------------ MODULE MCEditing -----------------------------
(***************************************************************************)
(* Editing for TLC.                                                        *)
(***************************************************************************)
EXTENDS Editing

MCUpper == "a" :> "A"
MCPatterns == {<<"a", "b">>, <<"a", "*">>}
MCReplacements == {<<"b", "ALL">>}
MCBrackets == {<<"(", ")">>}
MCScreens == {[ne_lines |-> 3, ne_columns |-> 6], [ne_lines |-> 4, ne_columns |-> 9]}
Small == [ne_lines |-> 3, ne_columns |-> 6]

Plain ==
  [tab_size |-> 2, free_form |-> FALSE, insert |-> TRUE, tabs |-> TRUE, del_tabs |-> FALSE,
   auto_indent |-> FALSE, word_wrap |-> FALSE, right_margin |-> 0, read_only |-> FALSE,
   search_back |-> FALSE, case_search |-> FALSE, shift_tabs |-> TRUE]
Free == [Plain EXCEPT !.free_form = TRUE]

Scenario(text, opt, commands, edits) ==
  [text |-> text, screen |-> Small, opt |-> opt, commands |-> commands, edits |-> edits]

(* Lines longer and shorter than the screen, with tabs and wide characters.*)
Ragged == << <<"a", "TAB", "a", " ", "W", "a", "b", "a">>, <<>>, <<"(", "TAB", ")">>, <<"a">> >>

(* Words to search, and to lay out.                                        *)
Words == << <<"b", "a", "b">>, <<"A", "b">> >>
Prose == << <<" ", "a", "A", "a", " ", " ", "b">>, <<" ", "a", "b">>, <<>>, <<"b", "TAB", "a", ".">> >>

(* Indented lines.                                                         *)
Code == << <<" ", "a">>, <<"TAB", "b">> >>
Indenting == [Plain EXCEPT !.auto_indent = TRUE, !.word_wrap = TRUE, !.right_margin = 4]
Spaces == [Plain EXCEPT !.tabs = FALSE, !.del_tabs = TRUE, !.insert = FALSE]

MCScenarios ==
  {Scenario(Ragged, o, {"move", "view"}, 0) : o \in {Plain, Free}}
  \cup {Scenario(Code, Plain, {"move", "options", "prefs"}, 0)}
  \cup {Scenario(Code, Plain, {"move", "bookmarks"}, 0)}
  \cup {Scenario(Prose, o, {"edit", "type"}, 2) : o \in {Plain, Indenting}}
  \cup {Scenario(Code, o, {"edit", "type"}, 2) : o \in {Free, Spaces}}
  \cup {Scenario(Code, Indenting, {"type", "paste"}, 2)}
  \cup {Scenario(Prose, o, {"layout"}, 2) : o \in {Plain, Indenting}}
  \cup {Scenario(Words, Plain, {"find"}, 1)}
=============================================================================
