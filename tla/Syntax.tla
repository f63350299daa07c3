------------------------------- MODULE Syntax -------------------------------
(***************************************************************************)
(* Syntax highlighting (syntax.c): parse() runs an automaton over a line   *)
(* and its end, and gives each character the colour of a state.            *)
(*                                                                         *)
(* A state of highlighting (HIGHLIGHT_STATE) has the number of the state   *)
(* in the syntax at the top of the stack, -1 after an error, the stack of  *)
(* subroutines, and the saved delimiter. A frame of the stack is a syntax  *)
(* and where it returns to; frames are shared, so that two stacks are the  *)
(* same pointer when they hold the same frames.                            *)
(*                                                                         *)
(* A state of the automaton has a color, a command for each character      *)
(* (else is the one of those without), and one, delim, for the saved       *)
(* delimiter. The `reset' of a syntax, which takes the stack back to its   *)
(* first frame, is not here.                                               *)
(***************************************************************************)
EXTENDS Terminal

CONSTANTS
  Syntaxes, \* the automata, by name: a function from the numbers of the states
  MainSyntax, \* the one of the documents, or "none"
  ClosingOf,  \* a function: the bracket that closes each opening one
  Lowered,  \* a function: the lower case of the letters that have one
  MaxTurns  \* how many transitions without eating the character there can be

Invalid == [state |-> -1, stack |-> <<>>, saved |-> <<>>]
InitialState == [state |-> 0, stack |-> <<>>, saved |-> <<>>]

Goto(n) ==
  [new_state |-> n, noeat |-> FALSE, recolor |-> 0, buffer |-> "as is", mark |-> "as is",
   recolor_mark |-> FALSE, save_c |-> FALSE, save_s |-> FALSE, ignore |-> FALSE,
   delim |-> <<>>, keywords |-> <<>>, call |-> "none", rtn |-> FALSE]

highlight_cmp(x, y) == x = y
-----------------------------------------------------------------------------
(* p is where parse() is: the syntax and the number of its state, the      *)
(* stack, the saved delimiter, the word being collected and how long ago   *)
(* it ended, the marked part, and the colours so far.                      *)
Started(hs) ==
  [syntax |-> IF hs.stack = <<>> THEN MainSyntax ELSE Last(hs.stack)[1], no |-> hs.state,
   stack |-> hs.stack, saved |-> hs.saved, buf |-> <<>>, buf_en |-> FALSE, ofst |-> 0,
   mark1 |-> 0, mark2 |-> 0, mark_en |-> FALSE, attr |-> <<>>, turns |-> 0, eaten |-> FALSE]
StateOf(p) == Syntaxes[p.syntax][p.no]

CommandFor(p, h, c) ==
  IF h.delim # <<>> /\ p.saved = <<c>> THEN Head(h.delim)
  ELSE IF c \in DOMAIN h.on THEN h.on[c] ELSE h.else
Folded(cmd, s) == IF cmd.ignore THEN [i \in DOMAIN s |-> IF s[i] \in DOMAIN Lowered THEN Lowered[s[i]] ELSE s[i]] ELSE s
Delimits(p, cmd) == cmd.delim # <<>> /\ Folded(cmd, p.saved) = Folded(cmd, p.buf)
IsKeyword(p, cmd) == \E k \in DOMAIN cmd.keywords : cmd.keywords[k][1] = Folded(cmd, p.buf)
KeywordCommand(p, cmd) == cmd.keywords[CHOOSE k \in DOMAIN cmd.keywords : cmd.keywords[k][1] = Folded(cmd, p.buf)][2]
Recognized(p, cmd) == Delimits(p, cmd) \/ IsKeyword(p, cmd)
Chosen(p, cmd) ==
  IF Delimits(p, cmd) THEN Head(cmd.delim) ELSE IF IsKeyword(p, cmd) THEN KeywordCommand(p, cmd) ELSE cmd

(* The new state.                                                          *)
Went(p, cmd) ==
  CASE cmd.call # "none" ->
         [p EXCEPT !.stack = Append(@, <<cmd.call, <<p.syntax, cmd.new_state>> >>), !.syntax = cmd.call, !.no = 0]
    [] cmd.call = "none" /\ cmd.rtn /\ p.stack # <<>> ->
         [p EXCEPT !.syntax = Last(p.stack)[2][1], !.no = Last(p.stack)[2][2], !.stack = Front(@)]
    [] OTHER -> [p EXCEPT !.no = cmd.new_state]

(* Colours given again: to the word, to some characters back, to the       *)
(* marked part. Offsets count back from the character after this one.      *)
Painted(p, from, to) ==
  [p EXCEPT !.attr = [i \in DOMAIN @ |-> IF i - Len(@) - 1 \in from .. to THEN StateOf(p).color ELSE @[i]]]
PaintWord(p, known) == IF known THEN Painted(p, -(Len(p.buf) + 1) - p.ofst, -2 - p.ofst) ELSE p
PaintBack(p, cmd) == Painted(p, cmd.recolor, -1)
PaintMark(p, cmd) == IF cmd.recolor_mark THEN Painted(p, -p.mark1, -p.mark2 - 1) ELSE p

Saved(p, cmd, c) ==
  [p EXCEPT !.saved = CASE cmd.save_c -> <<IF c \in DOMAIN ClosingOf THEN ClosingOf[c] ELSE c>>
                        [] ~cmd.save_c /\ cmd.save_s -> p.buf [] OTHER -> @]
Buffering(p, cmd) ==
  CASE cmd.buffer = "start" -> [p EXCEPT !.buf = <<>>, !.buf_en = TRUE, !.ofst = 0]
    [] cmd.buffer = "stop" -> [p EXCEPT !.buf_en = FALSE]
    [] OTHER -> p
MarkingOf(p, cmd) ==
  CASE cmd.mark = "start" -> [p EXCEPT !.mark1 = 1, !.mark2 = 1, !.mark_en = TRUE]
    [] cmd.mark = "stop" -> [p EXCEPT !.mark2 = 1, !.mark_en = FALSE]
    [] OTHER -> p

Done(p, cmd, c, known) ==
  [MarkingOf(Buffering(Saved(PaintMark(PaintBack(PaintWord(Went(p, cmd), known), cmd), cmd), cmd, c), cmd), cmd)
     EXCEPT !.eaten = ~cmd.noeat, !.turns = @ + 1]
TurnWith(p, cmd, c) == Done(p, Chosen(p, cmd), c, Recognized(p, cmd))
ColoredNow(p) == [p EXCEPT !.attr[Len(p.attr)] = StateOf(p).color]
Turn(p, c) == TurnWith(ColoredNow(p), CommandFor(p, StateOf(p), c), c)

RECURSIVE Eat(_, _)
Eat(p, c) == IF p.eaten \/ p.turns > MaxTurns THEN p ELSE Eat(Turn(p, c), c)

(* After a character: it is added to the word.                             *)
Collected(p, c) ==
  [p EXCEPT !.buf = IF p.buf_en /\ Len(@) < 23 THEN Append(@, c) ELSE @, !.ofst = IF p.buf_en THEN @ ELSE @ + 1,
            !.mark1 = @ + 1, !.mark2 = IF p.mark_en THEN @ ELSE @ + 1]
WasEaten(p, c) == IF p.eaten THEN Collected(p, c) ELSE [p EXCEPT !.no = -1]
AtNext(p) == [p EXCEPT !.eaten = FALSE, !.turns = 0, !.attr = Append(@, Plain)]
ReadOne(p, c) == IF p.no < 0 THEN p ELSE WasEaten(Eat(AtNext(p), c), c)
Read(ln, hs) == FoldLeft(ReadOne, Started(hs), Append(ln, NL))

(* parse(): the state at the beginning of the next line, and the colours   *)
(* of the line and of its end. After an error the next line has none.      *)
ReadState(p, hs) ==
  IF p.no < 0 THEN [hs EXCEPT !.state = -1] ELSE [state |-> p.no, stack |-> p.stack, saved |-> p.saved]
Parsed(p, hs) == [next |-> ReadState(p, hs), attr |-> p.attr, ok |-> p.no >= 0]
parse(ln, hs) ==
  IF hs.state < 0 THEN [next |-> hs, attr |-> <<>>, ok |-> FALSE] ELSE Parsed(Read(ln, hs), hs)
=============================================================================
