------------------------------- MODULE MCSession ----------------------------
(***************************************************************************)
(* Scenarios for Session: which files there are, what the user does and    *)
(* how often.                                                              *)
(***************************************************************************)
EXTENDS Session

MCDocs == 1 .. 3
MCCwd == <<"d", "e">>
MCHome == <<"h">>
FileA == <<"d", "e", "a">>
FileB == <<"d", "b">>
Name(root, parts) == [root |-> root, parts |-> parts]
NameA == Name(FALSE, <<"a">>)
NameNew == Name(FALSE, <<"n.t">>)
MCPathOf == "a" :> NameA @@ "b" :> Name(TRUE, <<"d", "b">>) @@ "n.t" :> NameNew @@ "upA" :> Name(FALSE, <<"up", "e", "a">>)
MCExtension == "n.t" :> "t"
MCSyntaxFor == "c" :> "c" @@ "t" :> "c" \* a syntax by its name, and by an extension
MCHash == "a" :> "#a" @@ "b" :> "#b" @@ "n.t" :> "#n.t"
MCUnnamed == <<"1.1", "2.1", "3.1">>
MCDigits == [n \in 0 .. 9 |-> <<"0", "1", "2", "3", "4", "5", "6", "7", "8", "9">>[n + 1]]
MCCharOf == 1 :> "x" @@ 2 :> "y"
MCGlobalVirt == <<[ext |-> "sh", max_line |-> 1, char |-> "y"], [ext |-> "v", max_line |-> 2, char |-> "x"]>>
MCUserVirt == <<[ext |-> "sh", max_line |-> 2, char |-> "y"]>>

File(bytes, time, writable) ==
  [bytes |-> bytes, whole |-> TRUE, mtime |-> time, version |-> -time, writable |-> writable]
Do(names) == {Plain(x) : x \in names}
Count(name, counts) == {Action(name, c, NoString) : c \in counts}
With(name, strings) == {Action(name, NoNumber, <<p>>) : p \in strings}
InsertX == Count("InsertChar", {1})

Scenario(args, cmds, steps) ==
  [disk |-> FileA :> File(<<"x", "LF">>, 2, TRUE) @@ FileB :> File(<<"y">>, 3, FALSE),
   scripts |-> <<>>, args |-> args, commands |-> cmds, steps |-> steps, names |-> {None}, writes |-> {Whole},
   typed |-> {}, lines |-> "+9" :> 9, written |-> {}, contents |-> {}, fatal |-> {}]

Lists ==
  Scenario(<<"a", "b">>, InsertX \cup Do({"NewDoc", "NextDoc", "PrevDoc", "CloseDoc", "SelectDoc", "Clear", "Quit"}), 4)
Saves ==
  [Scenario(<<"a">>, InsertX \cup Do({"Save", "SaveAs", "SaveAll", "NewDoc", "Exit", "CloseDoc"}), 4)
     EXCEPT !.names = {None, NameA, NameNew}, !.writes = {0, Whole}, !.written = {FileA}, !.contents = {<<"z">>}]
Opens ==
  [Scenario(<<"a">>, InsertX \cup Do({"NewDoc"}) \cup With("Open", {"a", "b", "n.t", "upA"}) \cup With("OpenNew", {"n.t"}), 3)
     EXCEPT !.scripts = <<"user", "t">> :> <<Line("Binary", <<"1">>), Line("Find", <<>>)>>]
Crashes ==
  [Scenario(<<"a">>, InsertX \cup Do({"NewDoc", "NextDoc", "SelectDoc"}) \cup With("OpenNew", {"n.t"}), 4)
     EXCEPT !.fatal = {"editing", "selecting"}]

(* A macro that calls itself twice; macros that are recorded while they    *)
(* play, and call others, in the three places where they are looked for.   *)
Loops ==
  [Scenario(<<"a">>, With("Macro", {"r"}), 1)
     EXCEPT !.scripts = <<"user", "r">> :> <<Line("InsertChar", <<"1">>), Line("Macro", <<"r">>), Line("r", <<>>)>>]
Small ==
  <<"here", "m">> :> <<Line("InsertChar", <<"2">>), Line("NOP", <<"hm">>), Line("g", <<>>)>>
  @@ <<"global", "g">> :> <<Line("Record", <<"1">>), Line("InsertString", <<"q", "y", "q">>), Line("UnloadMacros", <<>>)>>
Recordings ==
  [Scenario(<<>>, InsertX \cup Count("Record", -1 .. 1) \cup Count("Play", {2}) \cup With("Macro", {"m"}), 3)
     EXCEPT !.scripts = Small,
            !.typed = {Line("g", <<>>), Line("Find", <<>>), Line("AutoPrefs", <<>>), Line("InsertString", <<"q", "sp", "x", "q">>),
                       Line("Nothing", <<>>), Line("System", <<"x">>)}]
Undoing ==
  <<"here", "u">> :> <<Line("InsertChar", <<"1">>), Line("InsertChar", <<"2">>), Line("Undo", <<>>), Line("InsertChar", <<"1">>)>>
Kept_ ==
  [Scenario(<<>>, InsertX \cup Do({"UnloadMacros", "Undo", "System"}) \cup Count("Record", {-1}) \cup Count("Play", {1})
                    \cup With("SaveMacro", {"k"}) \cup With("OpenMacro", {"m", "k", "u"}), 4)
     EXCEPT !.scripts = Small @@ Undoing]

Preferences ==
  [Scenario(<<"a">>, InsertX \cup Do({"LoadAutoPrefs", "SaveAutoPrefs", "SaveDefPrefs", "Save"})
                       \cup With("Syntax", {"c", "x", "*"}) \cup With("LoadPrefs", {"p"}) \cup With("SavePrefs", {"p"})
                       \cup Count("ReadOnly", {-1}) \cup Count("NameConvert", {0, 1}) \cup Count("PushPrefs", {-1, 2}) \cup Count("PopPrefs", {-1, 2}), 4)
     EXCEPT !.names = {NameNew}]

(* Files and names of every kind.                                          *)
Contents ==
  [Scenario(<<>>, {}, 1) EXCEPT !.written = {FileA},
                                !.contents = UNION {[1 .. n -> {"x", "LF", "CR", "NUL"}] : n \in 0 .. 5}]
Parts == {"empty", "dot", "up", "d", "e"}
Paths_ ==
  [Scenario(<<>>, Do({"SaveAs"}), 1)
     EXCEPT !.names = {name \in {Name(root, Append(dirs, last)) :
                                   root \in BOOLEAN, dirs \in UNION {[1 .. n -> Parts] : n \in 0 .. 3}, last \in {"e", "a"}} :
                         ~name.root => name.parts[1] # "empty"}]
Starts ==
  {[Scenario(args, {}, 0) EXCEPT !.scripts = <<"user", "t">> :> <<Line("Binary", <<"1">>)>>] :
     args \in {<<"+9", "a", "b", "a">>, <<"--read-only", "b", "n.t">>, <<"--binary", "upA", "+9", "a">>, <<"a", "a">>}}
MCScenarios ==
  {Lists, Saves, Opens, Crashes, Loops, Recordings, Kept_, Preferences, Contents, Paths_} \cup Starts
=============================================================================
