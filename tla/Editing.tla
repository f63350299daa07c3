-------------------------------- MODULE Editing -----------------------------
(***************************************************************************)
(* The commands of do_action() that move the cursor, edit, search and      *)
(* replace in one document (actions.c), with the operators of Cursor,      *)
(* Search and EditLines. A command is one step, but for those              *)
(* that loop until something is reached or nothing is found, InsertTab and *)
(* Replace: each round of theirs is a step, and the user answers between   *)
(* the rounds of Replace.                                                  *)
(*                                                                         *)
(* TLC explores some commands at a time: a scenario is a document that is  *)
(* opened with some options on some screen, and the groups of commands     *)
(* that are used.                                                          *)
(***************************************************************************)
EXTENDS EditLines

CONSTANTS
  Scenarios,  \* with text, screen, opt, commands and edits
  Screens,    \* the sizes of terminals, with ne_lines and ne_columns
  Typing,     \* the characters typed
  Patterns, Replacements,
  Bookmarks, Auto, PasteStart, PasteEnd, \* names of bookmarks
  AnyOption,  \* are options set in states where the code goes wrong?
  MaxSteps,   \* bound: undo steps before a command that edits
  MaxRounds,  \* bound: rounds of a loop, where one that would not end is cut off
  MaxBeyond   \* bound: columns beyond the end of a line in free form

VARIABLES e,        \* the editor state
          doing,    \* the command that loops, or Idle
          scenario  \* the scenario
vars == <<e, doing, scenario>>
original == scenario.text
session  == scenario.commands
MaxEdits == scenario.edits    \* bound: groups of undo steps

(* The loop of a command: how it replaces and what the user answered last, *)
(* if it is its first round, and the rounds of one that asks nothing.      *)
Loop(kind, how) == [kind |-> kind, how |-> how, first |-> TRUE, answer |-> "none", rounds |-> 0]
Idle == Loop("idle", "none")
Loops == [kind : {"idle", "tab", "replace"}, how : {"none", "ask", "all", "once"}, first : BOOLEAN,
          answer : {"none", "yes", "no", "last", "all", "once", "quit", "turn"}, rounds : 0 .. MaxRounds]

Opened(ls, screen, opt) ==
  [lines |-> ls, pts |-> <<>>, rows |-> <<>>, undo |-> NoUndo, steps |-> <<>>, cur_step |-> 0,
   ne_lines |-> screen.ne_lines, ne_columns |-> screen.ne_columns,
   win_x |-> 0, win_y |-> 0, cur_x |-> 0, cur_y |-> 0, cur_line |-> 0, cur_pos |-> 0, cur_char |-> 0,
   cur_line_desc |-> 1, top_line_desc |-> 1,
   x_wanted |-> FALSE, wanted_x |-> 0, y_wanted |-> FALSE, wanted_y |-> 0, wanted_cur_y |-> 0,
   find_string |-> <<>>, find_string_changed |-> FALSE, last_was_regexp |-> FALSE,
   compiled |-> NoTable,
   replace_string |-> <<>>, last_was_replace |-> FALSE, perform_wrap |-> FALSE,
   last_deleted |-> <<>>, vertical |-> FALSE, prefs |-> <<>>, pasting |-> <<>>, opt |-> opt]

(* A document that the cursor has been moved in.                           *)
Init ==
  /\ scenario \in Scenarios
  /\ doing = Idle
  /\ \E l \in DOMAIN original : \E p \in 0 .. Len(original[l]) :
       e = goto_line_pos(Opened(original, scenario.screen, scenario.opt), l - 1, p)
-----------------------------------------------------------------------------
(* What every command does: a search that failed lets the next command     *)
(* wrap, and only the next one.                                            *)
Command(group, f) ==
  /\ doing = Idle /\ group \in session
  /\ e' = [f EXCEPT !.perform_wrap = FALSE]
  /\ UNCHANGED <<doing, scenario>>

Move(f) == Command("move", f)
View(f) == Command("view", f)
EditIn(group, f) == e.undo.groups < MaxEdits /\ Len(e.steps) < MaxSteps /\ Command(group, f)
Edit(f) == EditIn("edit", f)
Layout(f) == e.undo.groups < MaxEdits /\ Command("layout", f)

LINEUP_A   == Move(line_up(e))
LINEDOWN_A == Move(line_down(e))
PREVPAGE_A == Move(prev_page(e))
NEXTPAGE_A == Move(next_page(e))
MOVELEFT_A == Move(char_left(e))
(* Bound: a cursor that may go beyond its line forever.                    *)
MOVERIGHT_A == e.cur_pos < LineLen(e) + MaxBeyond /\ Move(char_right(e))
MOVESOL_A  == Move(move_to_sol(e))
MOVEEOL_A  == Move(move_to_eol(e))
MOVESOF_A  == Move(move_to_sof(e))
MOVEEOF_A  == Move(move_to_eol(move_to_bof(e)))
PAGEUP_A   == Move(page_up(e))
PAGEDOWN_A == Move(page_down(e))
MOVETOS_A  == Move(move_tos(e))
MOVEBOS_A  == Move(move_bos(e))
TOGGLESEOF_A == Move(toggle_sof_eof(e))
TOGGLESEOL_A == Move(toggle_sol_eol(e))
PREVWORD_A == Move(search_word(e, TRUE, TRUE))
NEXTWORD_A == \E start \in BOOLEAN : Move(search_word(e, FALSE, start))
MOVEEOW_A  == Move(move_to_eow(e))
MOVEINCUP_A   == Move(move_inc_up(e))
MOVEINCDOWN_A == Move(move_inc_down(e))
MATCHBRACKET_A == Move(match_bracket(e))
GOTOLINE_A == \E n \in 0 .. num_lines(e) - 1 : View(goto_line(e, n))
GOTOCOLUMN_A ==
  \E x \in 0 .. calc_width(Line(e), LineLen(e), Tabs(e)) + MaxBeyond : View(goto_column(e, x))
ADJUSTVIEW_A ==
  \E d \in {"t", "m", "b", "l", "c", "r"} : \E mag \in IF d \in {"m", "c"} THEN {0} ELSE 0 .. 2 :
    View(adjust_view(e, d, mag))

(* The terminal has another size.                                          *)
REFRESH_A ==
  \E screen \in Screens :
    View(keep_cursor_on_screen([e EXCEPT !.ne_lines = screen.ne_lines,
                                         !.ne_columns = screen.ne_columns]))
-----------------------------------------------------------------------------
(* Bookmarks: each has a line, a position and a row of the screen.         *)
SetPoint(f, c, ld, p, y) ==
  [f EXCEPT !.pts = (c :> Point(ld, p)) @@ @, !.rows = (c :> y) @@ @]
SETBOOKMARK_A ==
  \E c \in Bookmarks : Command("bookmarks", SetPoint(e, c, e.cur_line_desc, e.cur_pos, e.cur_y))
UNSETBOOKMARK_A ==
  \E c \in DOMAIN e.rows :
    Command("bookmarks", [e EXCEPT !.pts = Restrict(@, DOMAIN @ \ {c}), !.rows = Restrict(@, DOMAIN @ \ {c})])
GoTo(f, c) == BackToRow(goto_line_pos(f, f.pts[c].line - 1, f.pts[c].pos), f.rows[c])
GotoBookmark(f, c) == SetPoint(GoTo(f, c), Auto, f.cur_line_desc, f.cur_pos, f.cur_y)
GOTOBOOKMARK_A == \E c \in DOMAIN e.rows : Command("bookmarks", GotoBookmark(e, c))
-----------------------------------------------------------------------------
(* Options.                                                                *)
Set(f) == Command("options", f)
TABSIZE_A ==
  /\ e.cur_pos <= LineLen(e) + MaxBeyond
  /\ \E n \in 1 .. (e.ne_columns \div 2) - 1 :
       Set(goto_pos([move_to_sol(e) EXCEPT !.opt.tab_size = n], e.cur_pos))
(* With a column that the cursor wants to go back to, or beyond the end of *)
(* its line, the cursor and the screen do not follow the option.           *)
FREEFORM_A ==
  /\ AnyOption \/ ~e.x_wanted
  /\ Set([e EXCEPT !.opt.free_form = ~@])
INSERT_A     == Set([e EXCEPT !.opt.insert = ~@])
READONLY_A   == Set([e EXCEPT !.opt.read_only = ~@])
WORDWRAP_A   == Set([e EXCEPT !.opt.word_wrap = ~@])
CASESEARCH_A == Command("find", Changed([e EXCEPT !.opt.case_search = ~@]))
SEARCHBACK_A == Command("find", Changed([e EXCEPT !.opt.search_back = ~@]))

(* PushPrefs and PopPrefs: the options come back, and nothing else.        *)
PUSHPREFS_A == e.prefs = <<>> /\ Command("prefs", [e EXCEPT !.prefs = <<e.opt>>])
POPPREFS_A ==
  /\ e.prefs # <<>>
  /\ AnyOption \/ \A o \in {"tab_size", "free_form", "search_back", "case_search"} : e.prefs[1][o] = e.opt[o]
  /\ Command("prefs", [e EXCEPT !.prefs = <<>>, !.opt = e.prefs[1]])
-----------------------------------------------------------------------------
(* Editing.                                                                *)
INSERTCHAR_A == \E c \in Typing : EditIn("type", InsertChar(e, c))
BACKSPACE_A  == Edit(Backspace(e))
DELETECHAR_A == Edit(DeleteChar(e))
INSERTLINE_A == EditIn("type", InsertLine(e))
DELETELINE_A == Edit(DeleteLine(e))
UNDELLINE_A  == Edit(UndelLine(e))
DELETEEOL_A  == Edit(DeleteEol(e))
DELETEPREVWORD_A == Edit(DeletePrevWord(e))
DELETENEXTWORD_A == Edit(DeleteNextWord(e))
TOUPPER_A    == \E how \in {"upper", "lower", "capital"} : ~e.opt.read_only /\ Edit(to_something(e, how))
UNDO_A == Command("edit", undo(e))
REDO_A == Command("edit", redo(e))

MARK_A == \E v \in BOOLEAN :
  Command("layout", [e EXCEPT !.pts = (Mark :> Point(e.cur_line_desc, e.cur_pos)) @@ @, !.vertical = v])
CENTER_A    == Layout(Center(e))
PARAGRAPH_A == Layout(Paragraph(e))
SHIFT_A     == \E n \in {-2, -1, 1, 2} : Layout(ShiftBy(e, n))

(* InsertTab: a tab, or spaces up to a tab stop, each with a command.      *)
INSERTTAB_A ==
  /\ doing = Idle /\ "edit" \in session /\ e.undo.groups < MaxEdits
  /\ AnyOption \/ ~e.opt.read_only
  /\ IF e.opt.tabs
       THEN e' = Finish(InsertChar(Begin(e), Tab)) /\ UNCHANGED doing
       ELSE e' = Begin(e) /\ doing' = Loop("tab", "none")
  /\ UNCHANGED scenario
InsertTabRound ==
  /\ doing.kind = "tab" /\ doing.rounds < MaxRounds
  /\ LET f == InsertChar(e, Space)
     IN  IF Here(f) % Tabs(f) = 0
           THEN e' = [Finish(f) EXCEPT !.perform_wrap = FALSE] /\ doing' = Idle
           ELSE e' = f /\ doing' = [doing EXCEPT !.rounds = @ + 1]
  /\ UNCHANGED scenario
-----------------------------------------------------------------------------
(* A bracketed paste: the terminal says where what it types begins and     *)
(* ends. What was pasted in the middle of a line is indented to there.     *)
PasteBegin ==
  /\ e.pasting = <<>>
  /\ Command("paste", [Begin(e) EXCEPT
       !.opt.auto_indent = FALSE,
       !.pasting = <<[opt |-> e.opt, line |-> e.cur_line_desc, pos |-> e.cur_pos, cur_y |-> e.cur_y]>>])

Pasted(f, b) ==
  Finish(SetPoint(SetPoint([f EXCEPT !.pasting = <<>>, !.opt = b.opt],
                           PasteStart, b.line, b.pos, b.cur_y),
                  PasteEnd, f.cur_line_desc, f.cur_pos, f.cur_y))
(* The lines after the first one, as a block, and the mark as it was.      *)
ShiftPasted(f, b) ==
  [ShiftBy([f EXCEPT !.pts = (Mark :> Point(b.line + 1, 0)) @@ @, !.vertical = FALSE], b.pos)
     EXCEPT !.vertical = f.vertical,
            !.pts = [x \in DOMAIN f.pts |-> IF x = Mark THEN f.pts[x] ELSE @[x]]]
Indents(f, b) == f.opt.auto_indent /\ b.line < f.cur_line_desc /\ b.pos > 0
EndOfPaste(f, b) == GotoBookmark(IF Indents(f, b) THEN ShiftPasted(f, b) ELSE f, PasteStart)
PasteFinished ==
  /\ e.pasting # <<>>
  /\ Command("paste", EndOfPaste(Pasted(e, e.pasting[1]), e.pasting[1]))
-----------------------------------------------------------------------------
(* Find and FindRegExp, and Replace, ReplaceAll and ReplaceOnce.           *)
Searched(f, skip, wrap) ==
  [find(f, skip, wrap) EXCEPT !.perform_wrap = ~Found(f, skip, wrap)]
Looking(pat) == Changed([e EXCEPT !.find_string = pat])
FIND_A ==
  /\ doing = Idle /\ "find" \in session
  /\ \E pat \in Patterns, regexp \in BOOLEAN :
       /\ IsStar(pat) => regexp
       /\ e' = [Searched([Looking(pat) EXCEPT !.last_was_regexp = regexp], FALSE, FALSE)
                  EXCEPT !.last_was_replace = FALSE]
  /\ UNCHANGED <<doing, scenario>>

REPLACE_A ==
  /\ doing = Idle /\ "find" \in session /\ e.undo.groups < MaxEdits
  /\ e.find_string # <<>> /\ ~e.opt.read_only
  /\ \E how \in {"ask", "all", "once"}, s \in Replacements :
       /\ doing' = Loop("replace", how)
       /\ e' = [IF how = "all" THEN Begin(e) ELSE e EXCEPT
                 !.replace_string = s, !.last_was_replace = TRUE, !.perform_wrap = FALSE]
  /\ UNCHANGED scenario

(* The chain of a replacement of all.                                      *)
ForAll == doing.kind = "replace" /\ (doing.how = "all" \/ doing.answer = "all")
(* The chain of a replacement of all stays open.                           *)
BadEnded(f, all) == f
Ended(f, all) == IF all THEN Finish(f) ELSE f
Skip == ~doing.first /\ doing.how # "all" /\ doing.answer \notin {"all", "yes"}

ReplaceNotFound ==
  /\ doing.kind = "replace" /\ ~Found(e, Skip, FALSE)
  /\ e' = [Ended(Recompile(e), ForAll) EXCEPT !.perform_wrap = TRUE]
  /\ doing' = Idle
  /\ UNCHANGED scenario

(* What is asked, once something has been found.                           *)
Answers == IF doing.how = "ask" /\ doing.answer # "all" THEN {"yes", "no", "last", "all", "quit", "turn"}
           ELSE {IF doing.how = "ask" THEN "all" ELSE doing.how}
AtHit(a) == LET f == find(e, Skip, FALSE) IN IF a = "all" /\ ~ForAll THEN Begin(f) ELSE f
Stay(f, a) ==
  e' = f /\ doing' = [doing EXCEPT !.first = FALSE, !.answer = a, !.rounds = IF ForAll THEN @ + 1 ELSE 0]
Leave(f)   == e' = f /\ doing' = Idle

(* One occurrence is replaced; there may be no place to search on from.    *)
ReplaceHit(f, a) ==
  IF ~CanReplaceMore(f) THEN Leave([Ended(ReplaceOne(f), a = "all") EXCEPT !.perform_wrap = TRUE])
  ELSE IF a \in {"last", "once"} THEN Leave(ReplaceOne(f))
  ELSE Stay(ReplaceOne(f), a)

ReplaceRound ==
  /\ doing.kind = "replace" /\ Found(e, Skip, FALSE)
  /\ IF ForAll THEN doing.rounds < MaxRounds ELSE e.undo.groups < MaxEdits
  /\ \E a \in Answers :
       CASE a = "quit" -> Leave(AtHit(a))
         [] a = "no"   -> Stay(AtHit(a), a)
         [] a = "turn" -> Stay(Changed([AtHit(a) EXCEPT !.opt.search_back = ~@]), a)
         [] OTHER      -> ReplaceHit(AtHit(a), a)
  /\ UNCHANGED scenario

(* The user interrupts a replacement.                                      *)
ReplaceStopped ==
  /\ doing.kind = "replace"
  /\ Leave(Ended(e, ForAll))
  /\ UNCHANGED scenario

(* RepeatLast: one more round of Find or of Replace, which may wrap.       *)
SkipRepeated ==
  ~e.last_was_replace \/ (e.opt.search_back /\ e.cur_pos = 0 /\ e.cur_line = 0)
Repeated(f) == IF ~e.last_was_replace THEN f ELSE ReplaceOne(f)
RepeatFails(f) == e.last_was_replace /\ ~CanReplaceMore(f)
REPEATLAST_A ==
  /\ doing = Idle /\ "find" \in session /\ e.find_string # <<>>
  /\ e.last_was_replace => ~e.opt.read_only /\ e.undo.groups < MaxEdits
  /\ e' = IF ~Found(e, SkipRepeated, e.perform_wrap) THEN [Recompile(e) EXCEPT !.perform_wrap = TRUE]
          ELSE LET f == find(Begin(e), SkipRepeated, e.perform_wrap)
               IN  [Finish(Repeated(f)) EXCEPT !.perform_wrap = RepeatFails(f)]
  /\ UNCHANGED <<doing, scenario>>
-----------------------------------------------------------------------------
Moves ==
  \/ LINEUP_A \/ LINEDOWN_A \/ PREVPAGE_A \/ NEXTPAGE_A \/ MOVELEFT_A \/ MOVERIGHT_A
  \/ MOVESOL_A \/ MOVEEOL_A \/ MOVESOF_A \/ MOVEEOF_A \/ PAGEUP_A \/ PAGEDOWN_A
  \/ MOVETOS_A \/ MOVEBOS_A \/ TOGGLESEOF_A \/ TOGGLESEOL_A \/ PREVWORD_A \/ NEXTWORD_A
  \/ MOVEEOW_A \/ MOVEINCUP_A \/ MOVEINCDOWN_A \/ MATCHBRACKET_A
  \/ GOTOLINE_A \/ GOTOCOLUMN_A \/ ADJUSTVIEW_A \/ REFRESH_A
Settings ==
  \/ SETBOOKMARK_A \/ UNSETBOOKMARK_A \/ GOTOBOOKMARK_A
  \/ TABSIZE_A \/ FREEFORM_A \/ INSERT_A \/ READONLY_A \/ WORDWRAP_A \/ CASESEARCH_A \/ SEARCHBACK_A
  \/ PUSHPREFS_A \/ POPPREFS_A \/ MARK_A \/ PasteBegin \/ PasteFinished
Edits ==
  \/ INSERTCHAR_A \/ BACKSPACE_A \/ DELETECHAR_A \/ INSERTLINE_A \/ DELETELINE_A \/ UNDELLINE_A
  \/ DELETEEOL_A \/ DELETEPREVWORD_A \/ DELETENEXTWORD_A \/ TOUPPER_A \/ UNDO_A \/ REDO_A \/ INSERTTAB_A
Layouts == CENTER_A \/ PARAGRAPH_A \/ SHIFT_A
Searches == FIND_A \/ REPLACE_A \/ REPEATLAST_A
Rounds == InsertTabRound \/ ReplaceNotFound \/ ReplaceRound \/ ReplaceStopped
Next == Moves \/ Settings \/ Edits \/ Layouts \/ Searches \/ Rounds

(* A command that loops without asking goes on by itself; in such a loop   *)
(* only a round, or its end, changes doing.                                *)
Goes == doing.kind = "tab" \/ ForAll
GoOn == Goes /\ doing.rounds < MaxRounds /\ doing' \in Loops
Spec == Init /\ [][Next]_vars /\ WF_doing(GoOn)
-----------------------------------------------------------------------------
OnTheScreen == e.cur_x \in 0 .. e.ne_columns - 1 /\ e.cur_y \in 0 .. Rows(e)
(* The state of a document is the same whatever led to it: the columns and *)
(* the lines of the cursor agree with the text, as assert_buffer() says,   *)
(* and the left of the screen is at a tab stop; and the cursor is on the   *)
(* screen whenever a command begins, as do_action() asserts.               *)
CursorSound ==
  /\ OnTheScreen
  /\ e.cur_line_desc = e.cur_line + 1 /\ e.cur_line = e.win_y + e.cur_y
  /\ e.top_line_desc = e.win_y + 1 /\ e.cur_line \in 0 .. num_lines(e) - 1
  /\ e.cur_pos >= 0 /\ e.cur_char = e.cur_pos
  /\ Here(e) = Col(e, e.cur_pos)
  /\ e.cur_pos <= LineLen(e) => calc_pos(Line(e), Here(e), Tabs(e)) = e.cur_pos
  /\ e.win_x % Tabs(e) = 0

(* Between the commands no chain of undo steps is open, whatever ended the *)
(* last one, and Undo, as often as it does something, gives back the text  *)
(* that was opened: nothing that commands do to it escapes the undo steps. *)
UndoAll(f) == FoldLeft(LAMBDA g, i : undo(g), f, [i \in 1 .. f.cur_step |-> i])
UndoRestores ==
  doing = Idle =>
    /\ e.undo.level = Len(e.pasting)
    /\ UndoAll(e).lines = original

(* Paragraph, Center, Shift and the end of a paste move text by white      *)
(* space only: no character that shows is lost, changed or swapped.        *)
Ink(f) == SelectSeq(Join(f.lines, 1, num_lines(f)), LAMBDA c : c \notin {NL, Space, Tab})
OnlySpaceMoves == [][Layouts \/ PasteFinished => Ink(e') = Ink(e)]_vars

(* Find and RepeatLast go to the next place, in their direction, where the *)
(* pattern is in the text, however the shift table skips characters; after *)
(* a search that failed, RepeatLast goes on from the other end.            *)
MatchesAt(f, l, p) ==
  IF f.last_was_regexp THEN Matches(f, f.lines[l], p) ELSE OccursAt(f, f.lines[l], f.find_string, p)
Occurrences(f) ==
  UNION {{Point(l, p) : p \in {q \in 0 .. Len(f.lines[l]) : MatchesAt(f, l, q)}} : l \in DOMAIN f.lines}
InOrder(f, p, q) == IF f.opt.search_back THEN Before(q, p) ELSE Before(p, q)
Nearest(f, P) == CHOOSE p \in P : \A q \in P \ {p} : InOrder(f, p, q)
Ahead(f, from, skip) == {p \in Occurrences(f) : InOrder(f, from, p) \/ (~skip /\ p = from)}
Target(f, from, skip, wrap) ==
  IF Ahead(f, from, skip) # {} THEN Nearest(f, Ahead(f, from, skip))
  ELSE IF wrap /\ Occurrences(f) # {} THEN Nearest(f, Occurrences(f))
  ELSE from
FindNext ==
  [][/\ FIND_A => Spot(e') = Target(e', Spot(e), FALSE, FALSE)
     /\ REPEATLAST_A /\ ~e.last_was_replace =>
          Spot(e') = Target(e', Spot(e), TRUE, e.perform_wrap)]_vars

(* InsertTab and a replacement of all occurrences come to an end, also     *)
(* with matches that are empty or that the replacement contains.           *)
CommandEnds == Goes ~> doing = Idle

(* Moves that undo each other: over lines that are too short or that have  *)
(* a tab or a wide character at its column, the cursor comes back to where *)
(* it was, a page later too, unless move_to_eol() made it forget the line  *)
(* it wants; and a bracket is the match of its match.                      *)
ComesBack(f) == f.cur_line = e.cur_line /\ f.cur_pos = e.cur_pos
Settled == doing = Idle /\ ComesBack(resync_pos(e))
MovesComeBack ==
  Settled =>
    /\ CanLineDown(e) => ComesBack(line_up(line_down(e)))
    /\ CanLineUp(e) => ComesBack(line_down(line_up(e)))
    /\ e.cur_line < num_lines(e) - 1 /\ page_down(e).y_wanted => ComesBack(page_up(page_down(e)))
    /\ OnBracket(e) => ComesBack(match_bracket(match_bracket(e)))
=============================================================================
