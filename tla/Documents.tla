------------------------------ MODULE Documents -----------------------------
(***************************************************************************)
(* The documents of a session, their files and their options (ne.c,        *)
(* buffer.c), preferences and macros (prefs.c, command.c), as a record s   *)
(* that the operators below change:                                        *)
(*   s.order, s.cur   the list of documents and the current one;           *)
(*   s.recent         the documents, the one made current last at the end; *)
(*   s.doc            for each document, its lines, its name, its options; *)
(*   s.disk           for each file its bytes, its time of modification,   *)
(*                    which of all the writes wrote it, and whether all of *)
(*                    that write got through;                              *)
(*   s.pstack         the stack of options;                                *)
(*   s.scripts        the files of macros and preferences, by place and    *)
(*                    name;                                                *)
(*   s.recording      the lines recorded, or NoStream;                     *)
(*   s.frames, s.stop the macros that are played, the innermost last: its  *)
(*                    lines, the next one, how many times more, its name;  *)
(*   s.macros         the macros that were loaded, by name;                *)
(*   s.error          what the last operation returned;                    *)
(*   s.agreed, s.done what the user agreed to in this command, and the     *)
(*                    actions since a recording began: for the properties. *)
(* u is what the user and the system answer to a command: two questions, a *)
(* name, and how many of the writes of a save get through.                 *)
(***************************************************************************)
EXTENDS Commands, Paths, Files, FiniteSets, TLC

CONSTANTS
  Docs,       \* the documents there may be; there is no memory for more
  Cwd,        \* the current directory
  Dirs,       \* the directories
  Extension,  \* the extensions of the file names that have one
  DefPrefs,   \* stands for an extension
  SyntaxFor,  \* the syntax of each name and each extension for which there is one
  HashPart, UnnamedPart, \* the names of emergency saves, for a file name and for a document
  Tick,       \* the seconds between two writes, 0 or 1
  MaxDepth,   \* how deep macros may call each other
  MaxPrefs,   \* the size of the stack of options
  GlobalVirtExt, UserVirtExt, \* virtual extensions, with ext, max_line and the char looked for
  ExtraExt                    \* the extensions of names that they may override
ASSUME LimitsAssumption == MaxDepth \in Nat /\ MaxPrefs \in Nat

OK == "OK"
NoDoc == 0
ASSUME DocsAssumption == Docs # {} /\ NoDoc \notin Docs
NoStream == <<Line("none", <<>>)>>
NoSyntax == "none"
Whole == 99         \* every write of a save gets through

Err(s, e) == [s EXCEPT !.error = e]
Agreed(s, what) == [s EXCEPT !.agreed = @ \cup {what}]
CurDoc(s) == s.doc[s.cur]
PlaceIn(seq, b) == CHOOSE i \in DOMAIN seq : seq[i] = b
Without(seq, b) == IF b \in ToSet(seq) THEN RemoveAt(seq, PlaceIn(seq, b)) ELSE seq
Updated(f, x, v) == [y \in DOMAIN f \cup {x} |-> IF y = x THEN v ELSE f[y]]

(* cur_buffer->act = ++buffer_actuations.                                  *)
Actuate(s, b) == [s EXCEPT !.recent = Append(Without(@, b), b)]
Newer(s, a, b) == PlaceIn(s.recent, a) > PlaceIn(s.recent, b)
-----------------------------------------------------------------------------
(* alloc_buffer(), clear_buffer(), new_buffer() and delete_buffer().       *)
FreshOptions == [read_only |-> FALSE, search_back |-> FALSE, insert |-> TRUE, auto_prefs |-> TRUE,
                 binary |-> FALSE, preserve_cr |-> FALSE]
Inherited(opt) == [opt EXCEPT !.read_only = FALSE, !.search_back = FALSE, !.insert = TRUE]
EmptyDoc(opt) ==
  [name |-> None, lines |-> << <<>> >>, at |-> 1, is_CRLF |-> FALSE, is_modified |-> FALSE, mtime |-> 0,
   seen |-> 0, opt |-> opt, syn |-> NoSyntax, cur_macro |-> <<>>, exec_only_options |-> FALSE]

BadFree(d) == [d EXCEPT !.lines = <<>>, !.is_CRLF = FALSE, !.is_modified = FALSE]
free_buffer_contents(d) ==
  [d EXCEPT !.name = None, !.lines = <<>>, !.is_CRLF = FALSE, !.is_modified = FALSE, !.mtime = 0, !.seen = 0]
clear_buffer(d) == [free_buffer_contents(d) EXCEPT !.lines = << <<>> >>, !.at = 1]
is_buffer_empty(d) == d.lines = <<>> \/ d.lines = << <<>> >>

Free(s) == Docs \ ToSet(s.order)
alloc_buffer(s) ==
  LET b == CHOOSE x \in Free(s) : TRUE
      opt == IF s.cur = NoDoc THEN FreshOptions ELSE Inherited(CurDoc(s).opt)
  IN  Actuate([s EXCEPT !.doc = Updated(@, b, EmptyDoc(opt))], b)
new_buffer(s) ==
  LET b == CHOOSE x \in Free(s) : TRUE
      at == IF s.cur = NoDoc THEN 0 ELSE PlaceIn(s.order, s.cur)
  IN  IF Free(s) = {} THEN Err(s, "OUT_OF_MEMORY")
      ELSE [alloc_buffer(s) EXCEPT !.order = InsertAt(@, at + 1, b), !.cur = b]

Removed(s, b) ==
  [s EXCEPT !.order = Without(@, b), !.recent = Without(@, b), !.doc = [x \in DOMAIN @ \ {b} |-> @[x]]]
Heir(s) ==
  LET at == PlaceIn(s.order, s.cur)
  IN  IF at = 1 THEN s.order[2]
      ELSE IF at = Len(s.order) \/ ~Newer(s, s.order[at + 1], s.order[at - 1]) THEN s.order[at - 1]
      ELSE s.order[at + 1]
delete_buffer(s) ==
  Removed([s EXCEPT !.cur = IF Len(s.order) = 1 THEN NoDoc ELSE Heir(s)], s.cur)

get_nth_buffer(s, n) == s.order[n + 1]
Named(s, name) ==
  {i \in DOMAIN s.order :
     /\ s.doc[s.order[i]].name # None
     /\ absolute_file_path(s.doc[s.order[i]].name, Cwd) = absolute_file_path(name, Cwd)}
modified_buffers(s) == \E b \in DOMAIN s.doc : s.doc[b].is_modified
-----------------------------------------------------------------------------
(* Files.  A write gives a file the time of the clock.                     *)
Exists(s, f) == f \in DOMAIN s.disk
file_mod_time(s, f) == IF Exists(s, f) THEN s.disk[f].mtime ELSE 0
buffer_file_modified(s, b, name) ==
  LET path == IF name = None THEN s.doc[b].name ELSE name
      time == file_mod_time(s, FileOf(path, Cwd))
  IN  path # None /\ time # 0 /\ time # s.doc[b].mtime

PutFile(s, f, bytes, whole) ==
  [s EXCEPT !.disk = Updated(@, f, [bytes |-> bytes, whole |-> whole, mtime |-> s.clock,
                                    version |-> s.writes + 1, writable |-> TRUE]),
            !.writes = @ + 1, !.clock = @ + Tick]

(* A file that is empty leaves what clear_buffer() makes; loading anything *)
(* else also frees what was there.                                         *)
load_fd_in_buffer(d, bytes) ==
  IF bytes = <<>> THEN clear_buffer(d)
  ELSE LET loaded == LoadInMemory(bytes, d.opt)
       IN  [free_buffer_contents(d) EXCEPT !.lines = loaded.lines, !.is_CRLF = loaded.crlf, !.at = 1]
load_file_in_buffer(s, name) ==
  LET f == FileOf(name, Cwd)
      d == load_fd_in_buffer(CurDoc(s), s.disk[f].bytes)
  IN  IF f \in Dirs THEN Err(s, "FILE_IS_DIRECTORY")
      ELSE IF ~Exists(s, f) THEN Err(s, "FILE_DOES_NOT_EXIST")
      ELSE [s EXCEPT !.error = OK,
                     !.doc[s.cur] = [d EXCEPT !.mtime = s.disk[f].mtime, !.seen = s.disk[f].version,
                                              !.opt.read_only = ~s.disk[f].writable]]

BadForgets(d, whole) == FALSE
StaysModified(d, whole) == d.is_modified /\ ~whole
Saved(s, b, whole, time) ==
  [s EXCEPT !.error = IF whole THEN OK ELSE "IO_ERROR",
            !.doc[b] = [@ EXCEPT !.is_modified = StaysModified(s.doc[b], whole), !.mtime = time, !.seen = s.writes]]
SaveWrites(s, b, f, writes, n) ==
  LET whole == n >= Len(writes)
  IN  Saved(PutFile(s, f, FlattenSeq(SubSeq(writes, 1, IF whole THEN Len(writes) ELSE n)), whole), b, whole, s.clock)
SaveIn(s, b, f, u) ==
  LET d == s.doc[b]
  IN  IF f \in Dirs THEN Err(s, "FILE_IS_DIRECTORY")
      ELSE IF Exists(s, f) /\ ~s.disk[f].writable THEN Err(s, "CANT_OPEN_FILE")
      ELSE SaveWrites(s, b, f, SaveBlocks(d.lines, d.opt, d.is_CRLF).writes, u.writes)
save_buffer_to_file(s, b, name, u) ==
  LET path == IF name = None THEN s.doc[b].name ELSE name
  IN  IF s.doc[b].opt.read_only THEN Err(s, "DOCUMENT_IS_READ_ONLY")
      ELSE IF path = None THEN Err(s, "ERROR")
      ELSE SaveIn(s, b, FileOf(path, Cwd), u)

(* One that fails does not keep the others from being saved.               *)
Tally(rc, t) == [s |-> t, rc |-> IF t.error = OK THEN rc ELSE "ERROR"]
SaveOne(st, b, u) ==
  IF ~st.s.doc[b].is_modified THEN st
  ELSE IF buffer_file_modified(st.s, b, None) THEN [st EXCEPT !.rc = "ERROR"]
  ELSE Tally(st.rc, save_buffer_to_file(st.s, b, None, u))
AllSaved(st) == Err(st.s, st.rc)
save_all_modified_buffers(s, u) ==
  LET saved[k \in 0 .. Len(s.order)] ==
        IF k = 0 THEN [s |-> s, rc |-> OK] ELSE SaveOne(saved[k - 1], s.order[k], u)
  IN  AllSaved(saved[Len(s.order)])

(* An emergency: under another name, in the current directory.  A document *)
(* without a name gets one of its own.                                     *)
AutoName(s, b) ==
  [root |-> FALSE, parts |-> <<IF s.doc[b].name = None THEN UnnamedPart[b] ELSE HashPart[file_part(s.doc[b].name)]>>]
auto_save(s, b) ==
  IF s.doc[b].is_modified THEN save_buffer_to_file(s, b, AutoName(s, b), [writes |-> Whole]) ELSE s
-----------------------------------------------------------------------------
Unnamed == "<unnamed>"
Freed   == "<freed>"       \* what is read where a name has been freed
Comment(what, name) == Line("NOP", <<what, name>>)

(* While a macro is recorded, comments tell which others are played.       *)
Note(s, what, name) ==
  IF s.recording = NoStream THEN s ELSE [s EXCEPT !.recording = Append(@, Comment(what, name))]
Recorded(s, x) ==
  IF s.recording = NoStream THEN s ELSE [s EXCEPT !.recording = @ \o record_action(x)]
-----------------------------------------------------------------------------
(* Options: with no number they are turned over.                           *)
Flag(c, old) == IF c < 0 THEN ~old ELSE c # 0
OptionField == "ReadOnly" :> "read_only" @@ "SearchBack" :> "search_back" @@ "Insert" :> "insert"
               @@ "AutoPrefs" :> "auto_prefs" @@ "Binary" :> "binary" @@ "PreserveCR" :> "preserve_cr"
SavedOptions == <<"PreserveCR", "Insert", "AutoPrefs", "Binary">>   \* in this order

push_prefs(s) ==
  IF Len(s.pstack) >= MaxPrefs THEN Err(s, "PREFS_STACK_FULL")
  ELSE [s EXCEPT !.pstack = Append(@, CurDoc(s).opt), !.error = OK]
pop_prefs(s) ==
  IF s.pstack = <<>> THEN Err(s, "PREFS_STACK_EMPTY")
  ELSE [s EXCEPT !.doc[s.cur].opt = Last(s.pstack), !.pstack = Front(@), !.error = OK]
(* c times, or once; an error ends it.                                     *)
Times(c) == IF c < 0 THEN 1 ELSE c
OnceMore(s, pop) == IF s.error # OK THEN s ELSE IF pop THEN pop_prefs(s) ELSE push_prefs(s)
Repeated(s, c, pop) ==
  LET after[k \in 0 .. Times(c)] == IF k = 0 THEN s ELSE OnceMore(after[k - 1], pop)
  IN  after[Times(c)]
Pushed(s, c) == Repeated(s, c, FALSE)
Popped(s, c) == Repeated(s, c, TRUE)

(* load_syntax_by_name(): the syntax is as it was if there is none.        *)
WithSyntaxFor(s, name) == [s EXCEPT !.doc[s.cur].syn = SyntaxFor[name]]
load_syntax_by_name(s, name) ==
  IF name \in DOMAIN SyntaxFor THEN WithSyntaxFor(s, name) ELSE Err(s, "NO_SYNTAX_FOR_EXT")
SetSyntax(s, p) ==
  IF p = <<>> THEN Err(s, "ERROR")
  ELSE IF p[1] = "*" THEN [s EXCEPT !.doc[s.cur].syn = NoSyntax]
  ELSE load_syntax_by_name(s, p[1])

SetOption(s, x) ==
  CASE x.a \in DOMAIN OptionField -> [s EXCEPT !.doc[s.cur].opt[OptionField[x.a]] = Flag(x.c, @)]
    [] x.a = "Modified"    -> [s EXCEPT !.doc[s.cur].is_modified = Flag(x.c, @)]
    [] x.a = "CRLF"        -> [s EXCEPT !.doc[s.cur].is_CRLF = Flag(x.c, @)]
    [] x.a = "NameConvert" -> [s EXCEPT !.doc[s.cur].name = NameConvert(@, Cwd, x.c)]
    [] x.a = "PushPrefs"   -> Pushed(s, x.c)
    [] x.a = "Syntax"      -> SetSyntax(s, x.p)
    [] OTHER -> s
-----------------------------------------------------------------------------
(* Preferences are a macro of options that is played at once.  Options are *)
(* recorded too, like everything that is played.                           *)
PlayOption(s, line) ==
  LET x == parse(line, TRUE)
  IN  IF s.error # OK THEN s
      ELSE IF x.error # "none" THEN Err(s, x.error)
      ELSE IF x.act.a = "NOP" THEN Recorded(s, x.act)
      ELSE SetOption(Recorded(s, x.act), x.act)
PlayOptions(s, lines) ==
  LET played[k \in 0 .. Len(lines)] == IF k = 0 THEN s ELSE PlayOption(played[k - 1], lines[k])
  IN  played[Len(lines)]
OnlyOptions(s, on) == [s EXCEPT !.doc[s.cur].exec_only_options = on]
load_prefs(s, file) ==
  IF file \notin DOMAIN s.scripts THEN Err(s, "CANT_OPEN_FILE")
  ELSE IF s.scripts[file] # <<>> /\ Len(s.frames) >= MaxDepth THEN Err(s, "MAX_MACRO_DEPTH_EXCEEDED")
  ELSE OnlyOptions(PlayOptions(Err(OnlyOptions(s, TRUE), OK), s.scripts[file]), FALSE)

(* save_prefs(): a line for each option, whatever it is.  The defaults     *)
(* leave the syntax out.                                                   *)
OptionLine(opt, a) == record_action(Action(a, IF opt[OptionField[a]] THEN 1 ELSE 0, NoString))[1]
SyntaxLine(d) == IF d.syn = NoSyntax THEN <<>> ELSE record_action(Action("Syntax", NoNumber, <<d.syn>>))
save_prefs(s, file, defaults) ==
  LET d == CurDoc(s)
      lines == (IF defaults THEN <<>> ELSE SyntaxLine(d))
                 \o [i \in DOMAIN SavedOptions |-> OptionLine(d.opt, SavedOptions[i])]
  IN  [s EXCEPT !.error = OK, !.scripts = Updated(@, file, lines)]

extension(name) ==
  IF name # None /\ file_part(name) \in DOMAIN Extension THEN Extension[file_part(name)] ELSE NoSyntax

(* Virtual extensions: what is in the first lines of a document tells its  *)
(* extension.  Those of the user take the place of the global ones.        *)
PutEntry(entries, entry) ==
  IF \E i \in DOMAIN entries : entries[i].ext = entry.ext
    THEN [i \in DOMAIN entries |-> IF entries[i].ext = entry.ext THEN entry ELSE entries[i]]
  ELSE Append(entries, entry)
load_virtual_extensions == FoldLeft(PutEntry, <<>>, GlobalVirtExt \o UserVirtExt)

FoundAt(d, entry) == {l \in DOMAIN d.lines : l <= entry.max_line /\ entry.char \in ToSet(d.lines[l])}
virtual_extension(d) ==
  IF extension(d.name) # NoSyntax /\ extension(d.name) \notin ExtraExt THEN NoSyntax
  ELSE FoldLeft(LAMBDA best, entry :
                  IF \E l \in FoundAt(d, entry) : l < best.line
                    THEN [line |-> CHOOSE l \in FoundAt(d, entry) : \A k \in FoundAt(d, entry) : l <= k,
                          ext |-> entry.ext]
                  ELSE best,
                [line |-> Len(d.lines) + 1, ext |-> NoSyntax], load_virtual_extensions).ext

(* do_auto_prefs(): the global ones, then those of the user, whose result  *)
(* counts; the syntax for the extension, if there is one and none was set. *)
ExtensionOf(d) == IF virtual_extension(d) # NoSyntax THEN virtual_extension(d) ELSE extension(d.name)
WithSyntax(s, ext) ==
  IF CurDoc(s).syn = NoSyntax /\ ext \in DOMAIN SyntaxFor THEN WithSyntaxFor(s, ext) ELSE s
load_auto_prefs(s, ext) ==
  IF ext = NoSyntax THEN Err(s, "HAS_NO_EXTENSION")
  ELSE WithSyntax(load_prefs(load_prefs(s, <<"global", ext>>), <<"user", ext>>), ext)
save_auto_prefs(s, ext) ==
  IF ext = NoSyntax THEN Err(s, "HAS_NO_EXTENSION")
  ELSE save_prefs(s, <<"user", ext>>, ext = DefPrefs)
-----------------------------------------------------------------------------
(* play_macro() begins: the lines are copied, so that what is played does  *)
(* not change.                                                             *)
BadDeep(s) == FALSE
TooDeep(s) == Len(s.frames) >= MaxDepth
play_macro(s, lines, times, name) ==
  LET noted == Note(s, "include", name)
  IN  IF lines = <<>> \/ times < 1 THEN Note(Err(noted, OK), "conclude", name)
      ELSE IF TooDeep(s) THEN Note(Err(noted, "MAX_MACRO_DEPTH_EXCEEDED"), "conclude", name)
      ELSE [noted EXCEPT !.error = OK, !.stop = FALSE,
                         !.frames = Append(@, [lines |-> lines, at |-> 1, times |-> times, name |-> name])]

(* A macro that is not loaded is looked for where the user says, then in   *)
(* the directory of preferences and in the global one.                     *)
Places(s, name) == {i \in 1 .. 3 : <<(<<"here", "user", "global">>)[i], name>> \in DOMAIN s.scripts}
FirstPlace(s, name) == <<"here", "user", "global">>[CHOOSE i \in Places(s, name) : \A j \in Places(s, name) : i <= j]
load_macro(s, name) == [s EXCEPT !.macros = Updated(@, name, s.scripts[<<FirstPlace(s, name), name>>])]
execute_macro(s, name) ==
  IF name \in DOMAIN s.macros THEN play_macro(s, s.macros[name], 1, name)
  ELSE IF Places(s, name) # {} THEN play_macro(load_macro(s, name), load_macro(s, name).macros[name], 1, name)
  ELSE Err(s, "CANT_OPEN_MACRO")

(* The names of the macros that are played go with the table.              *)
unload_macros(s) ==
  [s EXCEPT !.macros = <<>>,
            !.frames = [i \in DOMAIN @ |-> IF @[i].name = Unnamed THEN @[i] ELSE [@[i] EXCEPT !.name = Freed]]]

(* Record: with no number it begins and ends, 0 drops what was recorded,   *)
(* and 1 goes on with the current macro.                                   *)
Record(s, c) ==
  IF s.recording # NoStream
    THEN IF c < 0 THEN [s EXCEPT !.doc[s.cur].cur_macro = s.recording, !.recording = NoStream]
         ELSE IF c = 0 THEN [s EXCEPT !.recording = NoStream]
         ELSE Err(s, "ERROR")
  ELSE IF c = 1 THEN [s EXCEPT !.recording = CurDoc(s).cur_macro]
  ELSE IF c < 0 THEN [s EXCEPT !.recording = <<>>]
  ELSE Err(s, "ERROR")
=============================================================================
