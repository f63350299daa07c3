---------------------------- MODULE MCInteraction ---------------------------
(***************************************************************************)
(* Keyboard, and so Interaction, for TLC. Characters are ASCII codes: a is *)
(* 97, é is 233 and 195 169 in UTF-8, and 19968 takes two columns.         *)
(***************************************************************************)
EXTENDS Keyboard

MCEmpty == <<>>
MCDot == <<46>>
MCUp == <<46, 46>>
MCTilde == <<126>>
MCHome == <<<<104>>>>
MCUnnamed == <<60, 117, 62>>
a == <<97>>
ab == <<97, 98>>
abc == <<97, 98, 99>>
ac == <<97, 99>>
b == <<98>>
ba == <<98, 97>>
e8 == <<195, 169>>

(* /h is the home, with the directories a and ab and the file abc; the file*)
(* ac is alone in /h/a.                                                    *)
Item(name, dir) == [name |-> name, dir |-> dir]
MCTree ==
  (<<>> :> {Item(<<104>>, TRUE)}) @@ (<<<<104>>>> :> {Item(a, TRUE), Item(abc, FALSE), Item(ba, FALSE)})
  @@ (<<<<104>>, a>> :> {Item(ac, FALSE)})
MCSyntaxNames == {[name |-> a, own |-> TRUE], [name |-> ab, own |-> FALSE], [name |-> a, own |-> FALSE]}

Doc(id, name, modified, lines, enc) ==
  [id |-> id, name |-> name, modified |-> modified, lines |-> lines, enc |-> enc, cur_line |-> 1,
   cur_pos |-> Len(lines[1])]
Plain(id, name, modified) == Doc(id, name, modified, <<<<>>>>, "ascii")
Screen(lines, columns) == [lines |-> lines, columns |-> columns]
MCSizes == {Screen(3, 9), Screen(4, 12)}
Line_(default, complete, utf8) ==
  [len |-> 1, default |-> default, alpha |-> TRUE, complete |-> complete, prefer_utf8 |-> utf8, accept_null |-> FALSE]
NumberLine(default) == [Line_(default, "none", TRUE) EXCEPT !.alpha = FALSE]

(* Keys: the arrows as the terminal has them and as they are tried, with   *)
(* one of eight bits, META, and keys that the user asked for.              *)
LEFT == 259
RIGHT == 260
DELETE == 271
META(c) == 384 + c
MCKeyBinding == (27 :> "Escape") @@ (8 :> "Backspace") @@ (LEFT :> "MoveLeft") @@ (RIGHT :> "MoveRight") @@ (DELETE :> "DeleteChar")
Caps == <<Binding(<<27, 79, 68>>, LEFT), Binding(<<27, 79, 67>>, RIGHT), Binding(<<127>>, DELETE)>>
Tried == <<Binding(<<27, 91, 68>>, LEFT), Binding(<<155, 68>>, LEFT), Binding(<<27, 91, 67>>, RIGHT)>>
           \o [i \in 1 .. 2 |-> Binding(<<27, <<79, 97>>[i]>>, META(<<79, 97>>[i]))]
Stroke(bytes, means) == [bytes |-> bytes, means |-> means]
KeyOf(bytes, code) == Stroke(bytes, -code - 1)
KeySet(seqs, utf8, time, strokes) ==
  [caps |-> Caps, tried |-> Tried, seqs |-> seqs, io_utf8 |-> utf8, escape_time |-> time, strokes |-> strokes]
NoKeys == KeySet(<<>>, TRUE, 1, {})
Strokes == {Stroke(a, 97), Stroke(<<8>>, 8), Stroke(<<27>>, 27), KeyOf(<<27, 91, 68>>, LEFT)}
Utf8Strokes == Strokes \cup {Stroke(<<195, 169>>, 233), Stroke(<<195>>, INVALID_CHAR)}
Latin1Strokes == (Strokes \ {KeyOf(<<27, 91, 68>>, LEFT)})
  \cup {Stroke(<<13>>, 13), Stroke(<<233>>, 233), KeyOf(<<155, 68>>, LEFT), KeyOf(<<27, 91, 68>>, DELETE), KeyOf(<<27, 97>>, META(97)),
        KeyOf(<<127>>, DELETE), KeyOf(<<27, 91, 49, 126>>, RIGHT)}
MCSeqs == <<Binding(<<27, 91, 68>>, DELETE), Binding(<<27, 91, 49, 126>>, RIGHT)>>

Scene(ds, commands, n) ==
  [docs |-> ds, history |-> <<<<>>>>, clip |-> b, size |-> Screen(3, 9), typed |-> {97}, prompts |-> {},
   commands |-> commands, cwd |-> MCHome, case_search |-> FALSE, left |-> n, keys |-> NoKeys]
FourDocs == <<Plain(1, ab, FALSE), Plain(2, <<>>, TRUE), Plain(3, b, TRUE), Plain(4, ba, FALSE)>>
Prefixed == <<Plain(1, ab, FALSE), Plain(2, abc, TRUE), Plain(3, b, TRUE), Plain(4, ac, FALSE)>>
OneDoc == <<Plain(1, ab, FALSE)>>
Wordy ==
  <<Doc(1, ab, FALSE, <<a, abc \o <<32>> \o ac \o <<39>> \o b>>, "ascii"),
    Doc(2, b, FALSE, <<<<65, 98>> \o <<32>> \o ba \o <<32>> \o e8>>, "utf8")>>

Documents == {"documents", "choose", "end"}
MCScenarios ==
  {Scene(FourDocs, Documents \cup {"reorder", "save", "close", "resize"}, 7)}
  \cup {[Scene(Prefixed, Documents \cup {"prefix", "prune", "save", "close"}, 7) EXCEPT !.typed = {97, 98, 99}]}
  \cup {[Scene(OneDoc, {"prompt", "type", "move", "edit", "resize", "return"}, 7) EXCEPT
           !.typed = {32, 97, 233, 19968}, !.prompts = {Line_(ab, "none", TRUE)}],
        [Scene(OneDoc, {"prompt", "type", "edit", "move", "return"}, 4) EXCEPT
           !.typed = {97, 233}, !.prompts = {Line_(ab, "none", TRUE)}, !.clip = e8],
        [Scene(OneDoc, {"prompt", "type", "tab", "return", "char"}, 7) EXCEPT
           !.typed = {48, 49, 97, 120, 233}, !.prompts = {NumberLine(<<49>>), Line_(<<>>, "none", FALSE)}]}
  \cup {[Scene(OneDoc, {"prompt", "history", "find", "return", "exit", "edit", "end", "prefix"}, 9) EXCEPT
           !.prompts = {Line_(ab, "none", TRUE)}, !.history = <<b, ab, a>>, !.typed = {97}]}
  \cup {[Scene(OneDoc, {"prompt", "open", "type", "tab", "end", "choose", "return"}, 10) EXCEPT
           !.prompts = {Line_(a, "file", TRUE)}, !.typed = {97}],
        [Scene(OneDoc, {"prompt", "tab", "end", "choose", "type"}, 7) EXCEPT
           !.prompts = {Line_(<<>>, "syntax", TRUE), Line_(<<34>> \o a \o <<34>>, "file", TRUE)}, !.typed = {32, 98}]}
  \cup {[Scene(OneDoc, {"prompt", "keys"}, 4) EXCEPT !.prompts = {Line_(ab, "none", TRUE)}, !.keys = k] :
           k \in {KeySet(<<>>, TRUE, 1, Utf8Strokes), KeySet(<<>>, TRUE, 0, Utf8Strokes), KeySet(MCSeqs, FALSE, 1, Latin1Strokes)}}
  \cup {[Scene(Wordy, {"prompt", "words", "type", "move", "end", "choose", "prune"}, 6) EXCEPT
           !.prompts = {Line_(<<>>, "none", TRUE)}, !.typed = {97}, !.case_search = c] : c \in BOOLEAN}
=============================================================================
