-------------------------------- MODULE Session -----------------------------
(***************************************************************************)
(* A session of ne: the documents and their files, the commands that work  *)
(* on them, macros that are recorded and played, options and preferences,  *)
(* the command line of ne, other programs that write the files, and the    *)
(* signals that interrupt it or kill it.  The text of a document changes   *)
(* by typing at its end; Editing models how text is edited.                *)
(*                                                                         *)
(* A command of the user is a step, and so is each line of a macro; the    *)
(* requester of SelectDoc goes on over several steps.                      *)
(***************************************************************************)
EXTENDS Documents

CONSTANTS
  Scenarios,    \* with group, disk, scripts, args, commands and the limits of each scenario
  PathOf,       \* the names of files that arguments stand for
  ModelDepth    \* bound of the model: macros that call each other deeper than this do not go on
ASSUME DepthAssumption == ModelDepth > MaxDepth

(* Files, macros, names and what is typed are sequences, and numbers are   *)
(* numbers.                                                                *)
IsSequence(q) == q \in Seq(ToSet(q))
IsLine(line) == line = Line(line.word, line.rest) /\ IsSequence(line.rest)
AreLines(lines) == IsSequence(lines) /\ \A i \in DOMAIN lines : IsLine(lines[i])
ASSUME ScenarioAssumption ==
  \A c \in Scenarios :
    /\ IsSequence(c.args) /\ c.writes \subseteq Nat /\ c.fatal \subseteq {"editing", "selecting", "moving"}
    /\ \A f \in DOMAIN c.disk : IsSequence(c.disk[f].bytes)
    /\ \A bytes \in c.contents : IsSequence(bytes)
    /\ \A file \in DOMAIN c.scripts : AreLines(c.scripts[file])
    /\ \A line \in c.typed : IsLine(line)
    /\ \A x \in c.commands : x.c \in Int /\ IsSequence(x.p)

VARIABLES s,        \* the session
          scenario
vars == <<s, scenario>>

Replies == [agree : BOOLEAN, second : BOOLEAN, name : scenario.names, writes : scenario.writes]
Start ==
  [order |-> <<>>, cur |-> NoDoc, recent |-> <<>>, doc |-> <<>>,
   disk |-> scenario.disk, writes |-> 0, clock |-> 10, scripts |-> scenario.scripts, pstack |-> <<>>,
   recording |-> NoStream, frames |-> <<>>, macros |-> <<>>, stop |-> FALSE, error |-> OK, dprompt |-> FALSE,
   mode |-> "editing", moving |-> <<>>, agreed |-> {}, done |-> <<>>, left |-> scenario.steps]
-----------------------------------------------------------------------------
(* PrevDoc and NextDoc go around the list.                                 *)
PREVDOC(t) ==
  LET at == PlaceIn(t.order, t.cur)
      b == t.order[IF at = 1 THEN Len(t.order) ELSE at - 1]
  IN  Actuate([t EXCEPT !.cur = b], b)
NEXTDOC(t) ==
  LET at == PlaceIn(t.order, t.cur)
      b == t.order[IF at = Len(t.order) THEN 1 ELSE at + 1]
  IN  Actuate([t EXCEPT !.cur = b], b)

(* Closing the last document is the end.                                   *)
CLOSEDOC(t, u) ==
  IF CurDoc(t).is_modified /\ ~u.agree THEN Err(t, "ERROR")
  ELSE LET a == IF CurDoc(t).is_modified THEN Agreed(t, "lose") ELSE t
       IN  IF Len(t.order) = 1 THEN [delete_buffer(a) EXCEPT !.mode = "exited"]
           ELSE Actuate(delete_buffer(a), delete_buffer(a).cur)
CLEAR(t, u) ==
  IF CurDoc(t).is_modified /\ ~u.agree THEN Err(t, "ERROR")
  ELSE Agreed([t EXCEPT !.doc[t.cur] = clear_buffer(@)], "lose")

(* Open and OpenNew.  A new document takes the file; with Open the old one *)
(* goes away, by PrevDoc, which is recorded, and delete_buffer().          *)
Created(loaded, new, empty, u) ==
  IF loaded.error = "FILE_DOES_NOT_EXIST" /\ ~new /\ (empty \/ u.second) THEN Err(loaded, OK) ELSE loaded
Named_(t, name) == [t EXCEPT !.doc[t.cur] = [@ EXCEPT !.name = name, !.syn = NoSyntax]]
OrDefPrefs(t, loaded) == IF loaded.error = "HAS_NO_EXTENSION" THEN load_auto_prefs(t, DefPrefs) ELSE loaded
WithAutoPrefs(t) ==
  IF CurDoc(t).opt.auto_prefs THEN OrDefPrefs(t, load_auto_prefs(t, ExtensionOf(CurDoc(t)))) ELSE t
FromOld(t) == [t EXCEPT !.doc[t.cur].cur_macro = t.doc[t.order[PlaceIn(t.order, t.cur) - 1]].cur_macro]
GoBack(t) == PREVDOC(Recorded(t, Action("PrevDoc", 1, NoString)))
Kept(t, name, new) ==
  LET k == Err(FromOld(WithAutoPrefs(Named_(t, name))), t.error)
  IN  IF new THEN k ELSE delete_buffer(GoBack(k))
NotKept(t) == Err(GoBack(delete_buffer(t)), t.error)
KeptIfLoaded(t, name, new) ==
  IF t.error = OK \/ (new /\ t.error = "FILE_DOES_NOT_EXIST") THEN Kept(t, name, new) ELSE NotKept(t)

(* A file that is open already is opened again only if the user agrees;    *)
(* with 0, on the command line, that is asked once.                        *)
OpenFresh(t, name, c, new, empty, u) ==
  LET asks == Named(t, name) # {} /\ ~(t.dprompt /\ c = 0)
      told == IF asks THEN [t EXCEPT !.dprompt = u.second] ELSE t
  IN  IF asks /\ ~u.second THEN NotKept(Err(told, OK))
      ELSE KeptIfLoaded(Created(load_file_in_buffer(told, name), new, empty, u), name, new)
OPEN(t, name, c, new, u) ==
  LET lose == ~new /\ CurDoc(t).is_modified
      a == IF lose THEN Agreed(t, "lose") ELSE t
  IN  IF (lose /\ ~u.agree) \/ name = None THEN Err(t, "ERROR")
      ELSE IF Free(t) = {} THEN Err(t, "OUT_OF_MEMORY")
      ELSE OpenFresh(new_buffer(a), name, c, new, is_buffer_empty(CurDoc(t)), u)

(* Save and SaveAs.  A document that is read only can be saved, if the     *)
(* user agrees.  Another extension means other options.                    *)
ReadOnly(t, on) == [t EXCEPT !.doc[t.cur].opt.read_only = on]
Renamed(t, name) ==
  LET other == CurDoc(t).name = None \/ extension(CurDoc(t).name) # extension(name)
      named == [t EXCEPT !.doc[t.cur].name = name, !.doc[t.cur].syn = IF other THEN NoSyntax ELSE @]
  IN  IF other THEN load_auto_prefs(named, ExtensionOf([CurDoc(t) EXCEPT !.name = name])) ELSE named
SavedAs(t, name) == IF t.error # OK THEN Err(t, "ERROR") ELSE Err(Renamed(t, name), OK)
SAVEAS(t, name, u) ==
  LET ro == CurDoc(t).opt.read_only
      changed == buffer_file_modified(t, t.cur, name)
      a == IF changed THEN Agreed(t, "overwrite") ELSE t
  IN  IF ro /\ ~u.agree THEN Err(t, "DOCUMENT_NOT_SAVED")
      ELSE IF name = None THEN t
      ELSE IF changed /\ ~u.second THEN Err(t, "DOCUMENT_NOT_SAVED")
      ELSE SavedAs(ReadOnly(save_buffer_to_file(ReadOnly(a, FALSE), t.cur, name, u), ro), name)
SAVE(t, u) == SAVEAS(t, IF CurDoc(t).name = None THEN u.name ELSE CurDoc(t).name, u)

ExitedIf(t) == IF t.error = OK THEN [t EXCEPT !.mode = "exited"] ELSE t
EXIT(t, u) == ExitedIf(save_all_modified_buffers(t, u))
QUIT(t, u) ==
  IF modified_buffers(t) /\ ~u.agree THEN Err(t, "ERROR")
  ELSE [Agreed(t, "lose") EXCEPT !.mode = "exited"]

(* Typing at the end of the text.                                          *)
Type(t, text) ==
  IF CurDoc(t).opt.read_only THEN Err(t, "DOCUMENT_IS_READ_ONLY")
  ELSE [t EXCEPT !.doc[t.cur].lines[Len(CurDoc(t).lines)] = @ \o text, !.doc[t.cur].is_modified = TRUE]
-----------------------------------------------------------------------------
(* do_action(): it is recorded before it is done.  done is what the user,  *)
(* or a macro, asked for since the recording began.                        *)
Counted(t, x) ==
  IF t.recording = NoStream \/ x.a \in DO_NOT_RECORD \cup {"NOP"} THEN t ELSE [t EXCEPT !.done = Append(@, x)]
Begun(t, x) == [Counted(Recorded(t, x), x) EXCEPT !.stop = FALSE, !.error = OK]
Path(x, u) == IF x.p = NoString THEN u.name ELSE PathOf[x.p[1]]
Text(x) == IF x.a = "InsertChar" THEN <<CharOf[x.c]>> ELSE x.p
OfSystem(t, x, u) == IF u.agree THEN t ELSE Err(t, "EXTERNAL_COMMAND_ERROR")

(* What a recording would do again.                                        *)
Asked(lines) ==
  LET all == [i \in DOMAIN lines |-> parse(lines[i], FALSE).act]
  IN  SelectSeq(all, LAMBDA x : x.a # "NOP")
RECORD(t, c) ==
  [Record(t, c) EXCEPT !.done = IF t.recording # NoStream THEN @
                                ELSE IF c = 1 THEN Asked(CurDoc(t).cur_macro) ELSE <<>>]
SAVEMACRO(t, file) == [t EXCEPT !.scripts = Updated(@, <<"here", file>>, CurDoc(t).cur_macro)]
OPENMACRO(t, file) ==
  IF file \in DOMAIN t.scripts THEN [t EXCEPT !.doc[t.cur].cur_macro = t.scripts[file]] ELSE Err(t, "ERROR")
Perform(t, x, u) ==
  CASE x.a = "Exit"    -> EXIT(t, u)
    [] x.a = "Quit"    -> QUIT(t, u)
    [] x.a = "SaveAll" -> save_all_modified_buffers(t, u)
    [] x.a = "Save"    -> SAVE(t, u)
    [] x.a = "SaveAs"  -> SAVEAS(t, Path(x, u), u)
    [] x.a = "Clear"   -> CLEAR(t, u)
    [] x.a \in {"Open", "OpenNew"} -> OPEN(t, Path(x, u), x.c, x.a = "OpenNew", u)
    [] x.a = "NewDoc"  -> new_buffer(t)
    [] x.a = "CloseDoc" -> CLOSEDOC(t, u)
    [] x.a = "NextDoc" -> NEXTDOC(t)
    [] x.a = "PrevDoc" -> PREVDOC(t)
    [] x.a = "SelectDoc" -> [t EXCEPT !.mode = "selecting"]
    [] x.a \in IS_OPTION \ {"Record"} -> SetOption(t, x)
    [] x.a = "PopPrefs" -> Popped(t, x.c)
    [] x.a = "LoadPrefs" -> load_prefs(t, <<"here", x.p[1]>>)
    [] x.a = "SavePrefs" -> save_prefs(t, <<"here", x.p[1]>>, FALSE)
    [] x.a = "LoadAutoPrefs" -> load_auto_prefs(t, ExtensionOf(CurDoc(t)))
    [] x.a = "SaveAutoPrefs" -> save_auto_prefs(t, ExtensionOf(CurDoc(t)))
    [] x.a = "SaveDefPrefs"  -> save_auto_prefs(t, DefPrefs)
    [] x.a = "Record"  -> RECORD(t, x.c)
    [] x.a = "Play"    -> play_macro(t, CurDoc(t).cur_macro, x.c, Unnamed)
    [] x.a = "Macro"   -> execute_macro(t, x.p[1])
    [] x.a = "SaveMacro" ->
         SAVEMACRO([t EXCEPT !.doc[t.cur].cur_macro = optimize_macro(@)], x.p[1])
    [] x.a = "OpenMacro" -> OPENMACRO(t, <<"here", x.p[1]>>)
    [] x.a = "UnloadMacros" -> unload_macros(t)
    [] x.a \in {"InsertChar", "InsertString"} -> Type(t, Text(x))
    [] x.a = "System"  -> OfSystem(t, x, u)
    [] OTHER -> t
do_action(t, x, u) == Perform(Begun(t, x), x, u)

(* A line that is no command is the name of a macro.                       *)
OrNoCommand(t) == IF t.error = "CANT_OPEN_MACRO" THEN Err(t, "NO_SUCH_COMMAND") ELSE t
Executed(t, x, name, u) ==
  IF x.error = "none" THEN do_action(t, x.act, u)
  ELSE IF x.error = "NO_SUCH_COMMAND" THEN OrNoCommand(execute_macro(t, name))
  ELSE Err(t, x.error)
execute_command_line(t, line, u) == Executed(t, parse(line, CurDoc(t).exec_only_options), line.word, u)
-----------------------------------------------------------------------------
(* The command line of ne: files, each after options of its own.  Every    *)
(* file but the first is opened in a new document.                         *)
NoOptions == [line |-> 0, binary |-> FALSE, ro |-> FALSE]
AtLine(t, line) ==
  IF line = 0 THEN t
  ELSE [t EXCEPT !.doc[t.cur].at = IF line > Len(CurDoc(t).lines) THEN Len(CurDoc(t).lines) ELSE line]
Prepared(t, first_file, binary) ==
  LET fresh == IF first_file THEN t ELSE new_buffer(t)
  IN  [fresh EXCEPT !.doc[fresh.cur].opt.binary = binary]
OpenedWith(t, opt) == AtLine(IF opt.ro THEN ReadOnly(t, TRUE) ELSE t, opt.line)
Words(st, word, u) ==
  CASE word \in DOMAIN scenario.lines -> [st EXCEPT !.opt.line = scenario.lines[word]]
    [] word = "--binary"    -> [st EXCEPT !.opt.binary = TRUE]
    [] word = "--read-only" -> [st EXCEPT !.opt.ro = TRUE]
    [] OTHER -> [s |-> OpenedWith(OPEN(Prepared(st.s, st.first_file, st.opt.binary), PathOf[word], 0, FALSE, u), st.opt),
                 first_file |-> FALSE, opt |-> NoOptions]
AllOpened(t, args, u) ==
  LET opened[k \in 0 .. Len(args)] ==
        IF k = 0 THEN [s |-> t, first_file |-> TRUE, opt |-> NoOptions] ELSE Words(opened[k - 1], args[k], u)
  IN  opened[Len(args)].s
FirstShown(t) == Err(IF Len(t.order) > 1 THEN NEXTDOC(t) ELSE t, OK)
Opened(t, args, u) == FirstShown(AllOpened(t, args, u))
main(u) == Opened(load_auto_prefs(new_buffer(Start), DefPrefs), scenario.args, u)

Init == scenario \in Scenarios /\ \E u \in Replies : s = main(u)
-----------------------------------------------------------------------------
(* What the user does: a command, when no macro is played and no list is   *)
(* shown.  The scenario says which, and how many.                          *)
Settled(t) == IF t.frames = <<>> THEN [t EXCEPT !.error = OK] ELSE t
Ready == s.mode = "editing" /\ s.frames = <<>> /\ s.left > 0
Now == [s EXCEPT !.left = @ - 1, !.agreed = {}]
Of(names) == {x \in scenario.commands : x.a \in names}
Done(t) == s' = Settled(t) /\ UNCHANGED scenario

EXIT_A    == Ready /\ \E x \in Of({"Exit"}), u \in Replies : Done(EXIT(Begun(Now, x), u))
QUIT_A    == Ready /\ \E x \in Of({"Quit"}), u \in Replies : Done(QUIT(Begun(Now, x), u))
SAVEALL_A == Ready /\ \E x \in Of({"SaveAll"}), u \in Replies : Done(save_all_modified_buffers(Begun(Now, x), u))
SAVE_A    == Ready /\ \E x \in Of({"Save"}), u \in Replies : Done(SAVE(Begun(Now, x), u))
SAVEAS_A  == Ready /\ \E x \in Of({"SaveAs"}), u \in Replies : Done(SAVEAS(Begun(Now, x), Path(x, u), u))
CLEAR_A   == Ready /\ \E x \in Of({"Clear"}), u \in Replies : Done(CLEAR(Begun(Now, x), u))
OPEN_A    ==
  Ready /\ \E x \in Of({"Open", "OpenNew"}), u \in Replies :
             Done(OPEN(Begun(Now, x), Path(x, u), x.c, x.a = "OpenNew", u))
NEWDOC_A   == Ready /\ \E x \in Of({"NewDoc"}) : Done(new_buffer(Begun(Now, x)))
CLOSEDOC_A == Ready /\ \E x \in Of({"CloseDoc"}), u \in Replies : Done(CLOSEDOC(Begun(Now, x), u))
NEXTDOC_A  == Ready /\ \E x \in Of({"NextDoc"}) : Done(NEXTDOC(Begun(Now, x)))
PREVDOC_A  == Ready /\ \E x \in Of({"PrevDoc"}) : Done(PREVDOC(Begun(Now, x)))
SELECTDOC_A == Ready /\ \E x \in Of({"SelectDoc"}) : Done([Begun(Now, x) EXCEPT !.mode = "selecting"])
Options_A   == Ready /\ \E x \in Of(IS_OPTION \ {"Record"}) : Done(SetOption(Begun(Now, x), x))
POPPREFS_A  == Ready /\ \E x \in Of({"PopPrefs"}) : Done(Popped(Begun(Now, x), x.c))
LOADPREFS_A == Ready /\ \E x \in Of({"LoadPrefs"}) : Done(load_prefs(Begun(Now, x), <<"here", x.p[1]>>))
SAVEPREFS_A == Ready /\ \E x \in Of({"SavePrefs"}) : Done(save_prefs(Begun(Now, x), <<"here", x.p[1]>>, FALSE))
LOADAUTOPREFS_A ==
  Ready /\ \E x \in Of({"LoadAutoPrefs"}) : Done(load_auto_prefs(Begun(Now, x), ExtensionOf(CurDoc(s))))
SAVEAUTOPREFS_A ==
  Ready /\ \E x \in Of({"SaveAutoPrefs"}) : Done(save_auto_prefs(Begun(Now, x), ExtensionOf(CurDoc(s))))
SAVEDEFPREFS_A == Ready /\ \E x \in Of({"SaveDefPrefs"}) : Done(save_auto_prefs(Begun(Now, x), DefPrefs))
RECORD_A    == Ready /\ \E x \in Of({"Record"}) : Done(RECORD(Begun(Now, x), x.c))
PLAY_A      == Ready /\ \E x \in Of({"Play"}) : Done(play_macro(Begun(Now, x), CurDoc(s).cur_macro, x.c, Unnamed))
SAVEMACRO_A ==
  Ready /\ \E x \in Of({"SaveMacro"}) :
             Done(SAVEMACRO([Begun(Now, x) EXCEPT !.doc[s.cur].cur_macro = optimize_macro(@)], x.p[1]))
OPENMACRO_A == Ready /\ \E x \in Of({"OpenMacro"}) : Done(OPENMACRO(Begun(Now, x), <<"here", x.p[1]>>))
MACRO_A     == Ready /\ \E x \in Of({"Macro"}) : Done(execute_macro(Begun(Now, x), x.p[1]))
UNLOADMACROS_A == Ready /\ \E x \in Of({"UnloadMacros"}) : Done(unload_macros(Begun(Now, x)))
INSERT_A    == Ready /\ \E x \in Of({"InsertChar", "InsertString"}) : Done(Type(Begun(Now, x), Text(x)))
SYSTEM_A    == Ready /\ \E x \in Of({"System"}), u \in Replies : Done(OfSystem(Begun(Now, x), x, u))

(* Exec: a line that the user types, and the keys, which have lines too.   *)
EXEC_A ==
  Ready /\ \E line \in scenario.typed, u \in Replies : Done(execute_command_line(Now, line, u))
-----------------------------------------------------------------------------
(* The macro that is played: its next line, the end of a round, the end.   *)
(* An error or the user stops all of them; an interrupt that comes just    *)
(* before a command begins is forgotten.                                   *)
Playing == s.mode = "editing" /\ s.frames # <<>>
Top == Last(s.frames)
MacroStep ==
  /\ Playing /\ s.error = OK /\ Top.at <= Len(Top.lines) /\ Len(s.frames) < ModelDepth
  /\ \E u \in Replies :
       s' = execute_command_line([s EXCEPT !.frames[Len(s.frames)].at = @ + 1, !.agreed = {}], Top.lines[Top.at], u)
  /\ UNCHANGED scenario
Conclude(t) == Note([t EXCEPT !.frames = Front(@)], "conclude", Last(t.frames).name)
MacroReturn ==
  /\ Playing /\ s.error = OK /\ ~s.stop /\ Top.at > Len(Top.lines)
  /\ s' = IF Top.times > 1 THEN [s EXCEPT !.frames[Len(s.frames)] = [@ EXCEPT !.at = 1, !.times = Top.times - 1]]
          ELSE Conclude(s)
  /\ UNCHANGED scenario
MacroStops ==
  /\ Playing /\ (s.error # OK \/ s.stop)
  /\ s' = Settled(Conclude(s))
  /\ UNCHANGED scenario
Interrupt ==
  /\ Playing /\ ~s.stop
  /\ s' = [s EXCEPT !.stop = TRUE, !.agreed = {}]
  /\ UNCHANGED scenario
-----------------------------------------------------------------------------
(* The list of SelectDoc: documents are saved and closed while it is       *)
(* shown; the user puts them in another order, and chooses one or none.    *)
Selecting == s.mode = "selecting"
SelectSave ==
  /\ Selecting /\ s.left > 0
  /\ \E b \in ToSet(s.order), u \in Replies : s' = Err(save_buffer_to_file(Now, b, None, u), OK)
  /\ UNCHANGED scenario
BadNext_(t, b) == t.order[PlaceIn(t.order, b)]
Next_(t, b) == LET at == PlaceIn(t.order, b) IN t.order[IF at = Len(t.order) THEN 1 ELSE at + 1]
SelectClose ==
  /\ Selecting /\ s.left > 0 /\ Len(s.order) > 1
  /\ \E b \in ToSet(s.order) :
       /\ ~s.doc[b].is_modified
       /\ s' = [Removed(Now, b) EXCEPT !.cur = IF b = s.cur THEN Next_(s, b) ELSE @]
  /\ UNCHANGED scenario
(* All of the documents leave the list and are put in the new order.       *)
SelectTake ==
  /\ Selecting
  /\ \E order \in SetToSeqs(ToSet(s.order)), b \in ToSet(s.order) :
       s' = IF order = s.order THEN Actuate([s EXCEPT !.mode = "editing", !.cur = b], b)
            ELSE [s EXCEPT !.mode = "moving", !.order = <<>>, !.moving = <<order, b>>]
  /\ UNCHANGED scenario
SelectPut ==
  /\ s.mode = "moving"
  /\ s' = Actuate([s EXCEPT !.mode = "editing", !.order = s.moving[1], !.cur = s.moving[2], !.moving = <<>>],
                  s.moving[2])
  /\ UNCHANGED scenario
SelectEscape ==
  /\ Selecting
  /\ s' = Settled(Err([s EXCEPT !.mode = "editing"], "ERROR"))
  /\ UNCHANGED scenario
-----------------------------------------------------------------------------
(* Another program writes a file.                                          *)
ExternalWrite ==
  /\ s.mode \in {"editing", "selecting"} /\ s.left > 0
  /\ \E f \in scenario.written : \E bytes \in scenario.contents : s' = PutFile(Now, f, bytes, TRUE)
  /\ UNCHANGED scenario

(* A fatal signal: the documents of the list are saved one by one.         *)
AllAutoSaved(t) ==
  LET saved[k \in 0 .. Len(t.order)] == IF k = 0 THEN t ELSE auto_save(saved[k - 1], t.order[k])
  IN  saved[Len(t.order)]
FatalSignal ==
  /\ s.mode \in scenario.fatal
  /\ s' = [AllAutoSaved([s EXCEPT !.agreed = {}]) EXCEPT !.mode = "killed"]
  /\ UNCHANGED scenario
-----------------------------------------------------------------------------
Documents_ ==
  \/ EXIT_A \/ QUIT_A \/ SAVEALL_A \/ SAVE_A \/ SAVEAS_A \/ CLEAR_A \/ OPEN_A \/ NEWDOC_A
  \/ CLOSEDOC_A \/ NEXTDOC_A \/ PREVDOC_A \/ SELECTDOC_A \/ INSERT_A \/ SYSTEM_A
Options_ ==
  \/ Options_A \/ POPPREFS_A \/ LOADPREFS_A \/ SAVEPREFS_A
  \/ LOADAUTOPREFS_A \/ SAVEAUTOPREFS_A \/ SAVEDEFPREFS_A
Macros_ ==
  \/ RECORD_A \/ PLAY_A \/ SAVEMACRO_A \/ OPENMACRO_A \/ MACRO_A \/ UNLOADMACROS_A \/ EXEC_A
  \/ MacroStep \/ MacroReturn \/ MacroStops \/ Interrupt
Selects_ == SelectSave \/ SelectClose \/ SelectTake \/ SelectPut \/ SelectEscape
Next == Documents_ \/ Options_ \/ Macros_ \/ Selects_ \/ ExternalWrite \/ FatalSignal

(* ne goes on with the macro that it plays.                                *)
Spec == Init /\ [][Next]_vars /\ WF_vars(MacroStep \/ MacroReturn \/ MacroStops)
-----------------------------------------------------------------------------
(* The list of documents and the order in which they were used are the     *)
(* same documents, the current one is among them, macros and options stay  *)
(* within their limits, and options are all that is executed only while    *)
(* preferences are loaded.                                                 *)
SessionSound ==
  /\ s.mode \in {"editing", "selecting"} =>
       /\ s.cur \in ToSet(s.order) /\ ToSet(s.order) = ToSet(s.recent) /\ ToSet(s.order) = DOMAIN s.doc
       /\ IsInjective(s.order) /\ IsInjective(s.recent)
       /\ \A b \in DOMAIN s.doc : s.doc[b].lines # <<>> /\ ~s.doc[b].exec_only_options
  /\ s.mode \in {"editing", "selecting", "moving"} =>
       /\ Len(s.frames) <= MaxDepth /\ Len(s.pstack) <= MaxPrefs
       /\ s.frames = <<>> => s.error = OK

(* A text that was modified leaves the memory, or is no longer marked,     *)
(* only when it is in the file of its document, or of its emergency save,  *)
(* or the user agreed; and a file that another program wrote after it was  *)
(* loaded or saved is written over only if the user agreed.                *)
Bytes(d) == FlattenSeq(SaveBlocks(d.lines, d.opt, d.is_CRLF).writes)
FilesOf(b) ==
  {FileOf(name, Cwd) : name \in {s.doc[b].name, AutoName(s, b)}
                                   \cup (IF b \in DOMAIN s'.doc THEN {s'.doc[b].name} ELSE {})}
IsSaved(b) == \E f \in FilesOf(b) \cap DOMAIN s'.disk : s'.disk[f].bytes = Bytes(s.doc[b])
Leaves(b) == b \notin DOMAIN s'.doc \/ ~s'.doc[b].is_modified \/ s'.mode \in {"exited", "killed"}
Seen(f) == \E b \in DOMAIN s.doc : s.doc[b].seen = s.disk[f].version
NothingLost ==
  [][/\ \A b \in DOMAIN s.doc : s.doc[b].is_modified /\ Leaves(b) => IsSaved(b) \/ "lose" \in s'.agreed
     /\ \A f \in DOMAIN s.disk :
          s'.disk[f] # s.disk[f] => Seen(f) \/ "overwrite" \in s'.agreed \/ ExternalWrite]_vars

Formats == [binary : BOOLEAN, preserve_cr : BOOLEAN]

(* A document that is not marked as modified has the text of its file, as  *)
(* long as nobody else writes it and its last write got through; options   *)
(* that the user changes afterwards may make it read in another way.       *)
MarkTells ==
  \A b \in DOMAIN s.doc :
    LET d == s.doc[b]
        f == FileOf(d.name, Cwd)
    IN  d.name # None /\ ~d.is_modified /\ Exists(s, f) /\ d.seen = s.disk[f].version /\ s.disk[f].whole
          => \E format \in Formats :
                 LoadInMemory(s.disk[f].bytes, format).lines = d.lines

(* What is recorded is what was asked for, by the user and by the macros   *)
(* that were played, in that order and with the same arguments.            *)
RecordsWhatIsDone == s.recording # NoStream => Asked(s.recording) = s.done

(* SaveMacro joins characters into strings, and the macro still does the   *)
(* same to a text, also when it undoes some of it.                         *)
MacroTextSound ==
  \A b \in DOMAIN s.doc :
    LET plain == After(s.doc[b].cur_macro, <<>>)
        joined == After(optimize_macro(s.doc[b].cur_macro), <<>>)
    IN  plain.text = joined.text /\ plain.failed = joined.failed

(* Every macro ends, also one that calls itself or others that call it, or *)
(* waits for the user.                                                     *)
MacrosEnd == s.frames # <<>> ~> (s.frames = <<>> \/ s.mode # "editing")

NamesKept ==
  \A b \in DOMAIN s.doc :
    LET name == s.doc[b].name
    IN  name # None =>
          /\ \A c \in {-1, 0, 1} : FileOf(NameConvert(name, Cwd, c), Cwd) = FileOf(name, Cwd)
          /\ absolute_file_path(name, Cwd) = [root |-> TRUE, parts |-> FileOf(name, Cwd)]
BytesKept ==
  \A f \in DOMAIN s.disk : \A format \in Formats :
    LET bytes == s.disk[f].bytes
        read == LoadInMemory(bytes, format)
        blocks == SaveBlocks(read.lines, format, read.crlf)
        stream == LoadStream(bytes, format)
    IN  /\ read = LoadMapped(bytes, format)
        /\ blocks.fits /\ FlattenSeq(blocks.writes) = FlattenSeq(SaveLines(read.lines, format, read.crlf))
        /\ LoadInMemory(FlattenSeq(blocks.writes), format).lines = read.lines
        /\ LoadStream(SaveStream(stream, format, read.crlf /\ ~format.preserve_cr), format) = stream
(* Both loaders make the same lines of a file, both ways of saving write   *)
(* the same bytes and never beyond the block, and what is written reads as *)
(* the same lines; and so do the streams of clips and macros.  With        *)
(* preserve_cr the CR of a pair stays in a stream. Whatever NameConvert    *)
(* makes of the name of a document, it is the name of the same file, and   *)
(* two names are told to be of one file when they are.                     *)
FilesSound == BytesKept /\ NamesKept
=============================================================================
