------------------------------- MODULE Commands -----------------------------
(***************************************************************************)
(* Command lines and macros as text (command.c).  A line is its first word *)
(* and the rest, a sequence of characters; an action a has a number c,     *)
(* NoNumber for none, and a string p, NoString for none.  Macros are       *)
(* sequences of lines.  Short names are not told from the long ones.       *)
(***************************************************************************)
EXTENDS Integers, Sequences, SequencesExt

CONSTANTS Blank, Quote, \* two characters
          Digits,       \* the characters for 0, 1, 2...
          CharOf        \* the printable ASCII characters, by their codes

NoNumber == -1
NoString == <<"none">>
Action(a, c, p) == [a |-> a, c |-> c, p |-> p]
Plain(a) == Action(a, NoNumber, NoString)
Line(word, rest) == [word |-> word, rest |-> rest]

(* The flags of the command table.                                         *)
NO_ARGS ==
  {"About", "Alert", "Beep", "Clear", "CloseDoc", "DeleteEOL", "Exit", "Flags", "Flash", "GotoMark",
   "LoadAutoPrefs", "MatchBracket", "MoveBOS", "MoveEOF", "MoveEOL", "MoveIncDown", "MoveIncUp",
   "MoveSOF", "MoveSOL", "MoveTOS", "NewDoc", "NextDoc", "NOP", "PrevDoc", "Refresh", "Save", "SaveAll",
   "SaveAutoPrefs", "SaveDefPrefs", "Suspend", "ToggleSEOF", "ToggleSEOL", "UnloadMacros"}
EMPTY_STRING_OK ==
  {"AtomicUndo", "AutoComplete", "BracketedPaste", "GotoBookmark", "MoveEOW", "NextWord", "PrevWord",
   "RepeatLast", "Replace", "ReplaceAll", "ReplaceOnce", "SetBookmark", "Shift", "UnsetBookmark"}
ARG_IS_STRING ==
  EMPTY_STRING_OK \cup
  {"AdjustView", "Exec", "Find", "FindRegExp", "Help", "InsertString", "LoadPrefs", "Macro", "Open",
   "OpenClip", "OpenMacro", "OpenNew", "SaveAs", "SaveClip", "SaveMacro", "SavePrefs", "Syntax",
   "System", "Through"}
IS_OPTION ==
  {"AutoIndent", "AutoMatchBracket", "AutoPrefs", "Binary", "BracketedPaste", "CaseSearch", "ClipNumber",
   "CRLF", "DelTabs", "DoUndo", "EscapeTime", "FastGUI", "FreeForm", "HexCode", "Insert", "Mark",
   "MarkVert", "Modified", "NameConvert", "NoFileReq", "PreserveCR", "PushPrefs", "ReadOnly", "Record",
   "RequestOrder", "RightMargin", "SearchBack", "ShiftTabs", "StatusBar", "Syntax", "Tabs", "TabSize",
   "Turbo", "UTF8", "UTF8Auto", "UTF8IO", "VerboseMacros", "VisualBell", "WordWrap"}
DO_NOT_RECORD == {"Escape", "Exec", "Flags", "Help", "KeyCode", "Macro", "Play", "Quit", "Record"}
commands ==
  NO_ARGS \cup ARG_IS_STRING \cup IS_OPTION \cup DO_NOT_RECORD \cup
  {"Backspace", "Capitalize", "Center", "Copy", "Cut", "DeleteChar", "DeleteLine", "DeleteNextWord",
   "DeletePrevWord", "Erase", "GotoColumn", "GotoLine", "InsertChar", "InsertLine", "InsertTab",
   "LineDown", "LineUp", "MoveLeft", "MoveRight", "NextPage", "PageDown", "PageUp", "Paragraph",
   "Paste", "PasteVert", "PopPrefs", "PrevPage", "Redo", "SelectDoc", "ToLower", "ToUpper",
   "UndelLine", "Undo"}
-----------------------------------------------------------------------------
(* Numbers in decimal.                                                     *)
Base == Cardinality(DOMAIN Digits)
ASSUME DigitsAssumption == Base \in Nat \ {0} /\ DOMAIN Digits = 0 .. Base - 1
DigitOf(ch) == CHOOSE n \in DOMAIN Digits : Digits[n] = ch
IsDigit(ch) == \E n \in DOMAIN Digits : Digits[n] = ch
Number(text) == FoldLeft(LAMBDA n, ch : n * Base + DigitOf(ch), 0, text)
IsNumber(text) == text # <<>> /\ \A i \in DOMAIN text : IsDigit(text[i])
Decimal(n) == IF n < Base THEN <<Digits[n]>> ELSE <<Digits[n \div Base], Digits[n % Base]>>

Spaced(p) == p = <<>> \/ Head(p) = Blank
BadQuoted(p) == p
Quoted(p) == IF Spaced(p) THEN <<Quote>> \o p \o <<Quote>> ELSE p
(* Blanks before the argument do not count.                                *)
Argument(rest) ==
  IF rest = <<>> \/ Head(rest) # Blank THEN rest
  ELSE LET from == CHOOSE i \in 1 .. Len(rest) + 1 :
                     /\ \A j \in 1 .. i - 1 : rest[j] = Blank
                     /\ i <= Len(rest) => rest[i] # Blank
       IN  SubSeq(rest, from, Len(rest))
Unquoted(text) ==
  IF Len(text) > 1 /\ Head(text) = Quote /\ Last(text) = Quote THEN Tail(Front(text)) ELSE text

(* parse_command_line(): an action, or an error.  A comment or an empty    *)
(* line, whose word is NOP, keeps its text.                                *)
Parsed(x) == [error |-> "none", act |-> x]
Error(e) == [error |-> e, act |-> Plain("NOP")]
parse(line, exec_only_options) ==
  LET a == line.word
      text == Argument(line.rest)
      string == Unquoted(text)
  IN  IF a = "NOP" THEN Parsed(Action("NOP", NoNumber, line.rest))
      ELSE IF a \notin commands THEN Error("NO_SUCH_COMMAND")
      ELSE IF text # <<>> /\ a \in NO_ARGS THEN Error("HAS_NO_ARGUMENT")
      ELSE IF text # <<>> /\ a \notin ARG_IS_STRING /\ ~IsDigit(Head(text)) THEN Error("HAS_NUMERIC_ARGUMENT")
      ELSE IF exec_only_options /\ a \notin IS_OPTION THEN Error("CAN_EXECUTE_ONLY_OPTIONS")
      ELSE IF text = <<>> THEN Parsed(Plain(a))
      ELSE IF a \notin ARG_IS_STRING
             THEN IF IsNumber(text) THEN Parsed(Action(a, Number(text), NoString)) ELSE Error("NOT_A_NUMBER")
      ELSE IF string = <<>> /\ a \notin EMPTY_STRING_OK THEN Error("STRING_IS_EMPTY")
      ELSE Parsed(Action(a, NoNumber, string))

(* record_action(): the lines that an action adds to a recording.          *)
record_action(x) ==
  IF x.a \in DO_NOT_RECORD THEN <<>>
  ELSE IF x.a = "NOP" THEN <<Line("NOP", IF x.p = NoString THEN <<>> ELSE x.p)>>
  ELSE IF x.c >= 0 THEN <<Line(x.a, Decimal(x.c))>>
  ELSE <<Line(x.a, IF x.p = NoString THEN <<>> ELSE Quoted(x.p))>>
-----------------------------------------------------------------------------
(* SaveMacro joins the characters inserted one after the other in strings. *)
insertchar_val(line) ==
  IF line.word = "InsertChar" /\ IsNumber(line.rest) THEN Number(line.rest) ELSE 0
BadUndoes(line) == parse(line, FALSE).error = "NO_SUCH_COMMAND"
Undoes(line) ==
  \/ line.word = "Undo" /\ parse(line, FALSE).error = "none"
  \/ parse(line, FALSE).error = "NO_SUCH_COMMAND"
vet_optimize_macro_stream(lines) == \A i \in DOMAIN lines : ~Undoes(lines[i])

AddChar(line, ch) == [line EXCEPT !.rest = Append(Front(@), ch) \o <<Quote>>]
optimize_macro(lines) ==
  FoldLeft(LAMBDA st, i :
             LET chr == insertchar_val(lines[i]) IN
             IF chr \in DOMAIN CharOf /\ vet_optimize_macro_stream(SubSeq(lines, i, Len(lines)))
               THEN [out |-> IF st.building
                               THEN Append(Front(st.out), AddChar(Last(st.out), CharOf[chr]))
                               ELSE Append(st.out, Line("InsertString", <<Quote, CharOf[chr], Quote>>)),
                     building |-> TRUE]
               ELSE [out |-> Append(st.out, lines[i]), building |-> FALSE],
           [out |-> <<>>, building |-> FALSE],
           [i \in DOMAIN lines |-> i]).out
-----------------------------------------------------------------------------
(* What lines that insert, undo and comment do to a text with its undo     *)
(* steps; a macro called by name undoes once.                              *)
Effect(t, line) ==
  LET x == parse(line, FALSE) IN
  IF t.failed THEN t
  ELSE IF x.error = "NO_SUCH_COMMAND" \/ x.act.a \in {"Undo", "Macro"}
    THEN IF t.steps = <<>> THEN [t EXCEPT !.failed = TRUE]
         ELSE [t EXCEPT !.text = Last(t.steps), !.steps = Front(@)]
  ELSE IF x.error # "none" THEN [t EXCEPT !.failed = TRUE]
  ELSE CASE x.act.a = "InsertChar"   -> [t EXCEPT !.text = Append(@, CharOf[x.act.c]), !.steps = Append(@, t.text)]
         [] x.act.a = "InsertString" -> [t EXCEPT !.text = @ \o x.act.p, !.steps = Append(@, t.text)]
         [] OTHER -> t
After(lines, text) == FoldLeft(Effect, [text |-> text, steps |-> <<>>, failed |-> FALSE], lines)
=============================================================================
