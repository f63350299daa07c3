----------------------------- MODULE Interaction ----------------------------
(***************************************************************************)
(* The user in front of ne: prompts and their input line, the history of   *)
(* the inputs, the requesters, completion, and a terminal that changes its *)
(* size.  A step is a key that the user presses; what a prompt is for, and *)
(* the commands that use the answer, are left out.                         *)
(***************************************************************************)
EXTENDS InputLine, Completion

CONSTANTS
  Scenarios,     \* documents, history, clip and size to begin with, what is typed, and the commands
  Sizes,         \* of the terminal
  HelpLen,       \* the length of LONG_INPUT_HELP, that the first prompt shows
  MAX_HISTORY    \* the lines of a history that are saved

VARIABLES
  docs, cur,     \* the documents, and which is current
  statics,       \* rd_prune, ac_prune and help_shown
  cwd, size,     \* the current directory, and ne_lines and ne_columns
  hist, file,    \* the buffer of the history, and the lines of its file
  line, t,       \* the prompt, and its input line
  req, q,        \* the requester: what it is for, and its state
  answer,        \* what the last prompt or requester gave
  last_input,    \* the last input that was accepted (not in the code)
  scenario, left
docvars == <<docs, cur>>
histvars == <<hist, file, last_input>>
linevars == <<line, t>>
reqvars == <<req, q>>
vars == <<docvars, statics, cwd, size, histvars, linevars, reqvars, answer, scenario, left>>

H == INSTANCE Cursor WITH NL <- 10, Space <- 32, Tab <- 9, Wide <- {}
NoBuffer == [lines |-> <<>>]
NoLine == [first |-> FALSE]
NoText == [buf |-> <<>>]
NoReq == [kind |-> "none"]
NoRequester == [rl |-> <<>>]
NoAnswer == [how |-> "none", text |-> <<>>]
Given(how, text) == [how |-> how, text |-> text]
Command(c) == left > 0 /\ c \in scenario.commands /\ left' = left - 1 /\ UNCHANGED scenario
Editing == line = NoLine /\ req = NoReq
(* A cursor that is lost may go beyond its line, where it is not followed. *)
Reading == line # NoLine /\ req = NoReq /\ t.pos <= len(t)
Choosing == req # NoReq

Init ==
  /\ scenario \in Scenarios
  /\ docs = scenario.docs /\ cur = 1
  /\ statics = [rd_prune |-> FALSE, ac_prune |-> TRUE, help_shown |-> FALSE]
  /\ cwd = scenario.cwd /\ size = scenario.size
  /\ hist = NoBuffer /\ file = scenario.history /\ last_input = <<>>
  /\ line = NoLine /\ t = NoText /\ req = NoReq /\ q = NoRequester
  /\ answer = NoAnswer /\ left = scenario.left
-----------------------------------------------------------------------------
(* The history: a document whose last line is empty.                       *)
Loaded(lines) ==
  [lines |-> IF Last(lines) # <<>> THEN Append(lines, <<>>) ELSE lines, pts |-> <<>>, undo |-> H!NoUndo,
   ne_lines |-> 0, ne_columns |-> 0, win_x |-> 0, win_y |-> 0, cur_x |-> 0, cur_y |-> 0, cur_line |-> 0,
   cur_pos |-> 0, cur_char |-> 0, cur_line_desc |-> 1, top_line_desc |-> 1, x_wanted |-> FALSE, wanted_x |-> 0,
   y_wanted |-> FALSE, wanted_y |-> 0, wanted_cur_y |-> 0, is_modified |-> Last(lines) # <<>>,
   opt |-> [tab_size |-> 8, free_form |-> FALSE]]
OnScreen(h) == [h EXCEPT !.ne_lines = size.lines, !.ne_columns = size.columns]
init_history(h) == H!move_to_sol(H!move_to_bof(OnScreen(IF h = NoBuffer THEN Loaded(file) ELSE h)))
add_to_history(h, bytes) ==
  IF bytes = <<>> THEN h
  ELSE LET e == H!move_to_bof(h)
       IN  [H!insert_stream(e, H!num_lines(e), Len(Last(e.lines)), Append(bytes, 10)) EXCEPT !.is_modified = TRUE]

(* The line before the last; a history of one line has none, and the code  *)
(* reads what it finds in its place.                                       *)
BadIsLastInput(h, bytes) == Last(h.lines) = bytes
IsLastInput(h, bytes) == Len(h.lines) > 1 /\ h.lines[Len(h.lines) - 1] = bytes
Remembered(h, bytes) == IF IsLastInput(h, bytes) THEN h ELSE add_to_history(h, bytes)

(* close_history(), when ne ends: only so many lines are saved.            *)
Newest(lines) == SubSeq(lines, Max({1, Len(lines) - MAX_HISTORY + 1}), Len(lines))
close_history ==
  /\ Editing /\ hist # NoBuffer /\ Command("exit")
  /\ hist' = NoBuffer
  /\ file' = IF hist.is_modified THEN Newest(hist.lines) ELSE file
  /\ UNCHANGED <<docvars, statics, cwd, size, last_input, linevars, reqvars, answer>>
-----------------------------------------------------------------------------
(* request(): a prompt is printed, and a line edited.                      *)
StartX(prompt) == prompt.len + 2 + (IF statics.help_shown THEN 0 ELSE HelpLen)
Empty_(x) == [buf |-> <<>>, enc |-> "ascii", pos |-> 0, offset |-> 0, x |-> x, start_x |-> x,
              columns |-> size.columns, lost |-> FALSE]
Asked(prompt, default) ==
  /\ line' = [prompt |-> prompt, first |-> TRUE, tabbed |-> FALSE]
  /\ t' = SetLine(Empty_(StartX(prompt)), default)
  /\ hist' = init_history(hist)
  /\ statics' = [statics EXCEPT !.help_shown = TRUE]
  /\ UNCHANGED <<file, last_input>>
Prompt ==
  /\ Editing /\ Command("prompt")
  /\ \E prompt \in scenario.prompts : Asked(prompt, prompt.default)
  /\ UNCHANGED <<docvars, cwd, size, reqvars, answer>>

Typed(tabbed) == line' = [line EXCEPT !.first = FALSE, !.tabbed = tabbed]
Line(new) ==
  /\ t' = new /\ Typed(FALSE)
  /\ UNCHANGED <<docvars, statics, cwd, size, histvars, reqvars, answer>>
LineType ==
  /\ Reading /\ Command("type")
  /\ \E c \in scenario.typed : Line(type(t, c, line.first, line.prompt.alpha, line.prompt.prefer_utf8))
TabType ==
  /\ Reading /\ line.prompt.complete = "none" /\ Command("tab")
  /\ Line(type(t, 9, line.first, line.prompt.alpha, line.prompt.prefer_utf8))
LineMove ==
  /\ Reading /\ Command("move")
  /\ \/ Line(input_move_left(t))
     \/ Line(input_move_right(t, TRUE))
     \/ Line(input_move_to_sol(t))
     \/ Line(input_move_to_eol(t))
     \/ Line(toggle(t))
     \/ Line(input_next_word(t))
     \/ Line(input_prev_word(t))
     \/ Line(MoveIncUp(t))
     \/ Line(MoveIncDown(t))
     \/ Line(input_refresh(t))
LineEdit ==
  /\ Reading /\ Command("edit")
  /\ \/ Line(backspace(t))
     \/ Line(delete_char(t))
     \/ Line(delete_line(t))
     \/ Line(delete_to_eol(t))
     \/ Line(input_paste(t, scenario.clip, detect_encoding(scenario.clip)))

(* The history: a line that begins what is proposed is skipped.            *)
SkipSame(h) ==
  IF line.first /\ H!Line(h) # <<>> /\ is_prefix(H!Line(h), t.buf) THEN H!line_up(h) ELSE h
Recalled(h) ==
  /\ hist' = h
  /\ t' = input_refresh(SetLine(t, H!Line(h)))
  /\ Typed(FALSE)
  /\ UNCHANGED <<docvars, statics, cwd, size, file, last_input, reqvars, answer>>
HistoryMove ==
  /\ Reading /\ Command("history")
  /\ \/ Recalled(SkipSame(H!line_up(hist)))
     \/ Recalled(H!line_down(hist))
     \/ Recalled(H!prev_page(hist))
     \/ Recalled(H!next_page(hist))
     \/ Recalled(H!move_to_sof(hist))
     \/ Recalled(H!move_to_bof(hist))

(* The end of an input.                                                    *)
Number(bytes) ==
  LET value(c) == IF c \in 48 .. 57 THEN c - 48 ELSE IF c \in 65 .. 70 THEN c - 55 ELSE c - 87
      hex == Len(bytes) > 2 /\ bytes[1] = 48 /\ bytes[2] \in {88, 120}
      base == IF hex THEN 16 ELSE IF bytes # <<>> /\ bytes[1] = 48 THEN 8 ELSE 10
      digits == IF hex THEN SubSeq(bytes, 3, Len(bytes)) ELSE bytes
  IN  IF bytes = <<>> \/ \E i \in DOMAIN digits : digits[i] \in {88, 120} \/ value(digits[i]) >= base THEN -1
      ELSE FoldLeft(LAMBDA n, c : n * base + value(c), 0, digits)
CString(bytes) == SubSeq(bytes, 1, FirstAt(bytes, 0) - 1)
Answer(prompt, bytes) ==
  IF ~prompt.alpha THEN Given("number", <<Number(bytes)>>)
  ELSE IF bytes = <<>> /\ ~prompt.accept_null THEN Given("none", <<>>)
  ELSE Given("string", bytes)
Selected_(bytes) ==
  /\ hist' = Remembered(hist, bytes)
  /\ last_input' = IF bytes = <<>> THEN last_input ELSE bytes
  /\ answer' = Answer(line.prompt, bytes)
  /\ line' = NoLine /\ t' = NoText
Return ==
  /\ Reading /\ Command("return")
  /\ Selected_(CString(t.buf))
  /\ UNCHANGED <<docvars, statics, cwd, size, file, reqvars>>
Escape ==
  /\ Reading /\ Command("return")
  /\ line' = NoLine /\ t' = NoText /\ answer' = NoAnswer
  /\ UNCHANGED <<docvars, statics, cwd, size, histvars, reqvars>>

(* request_char(): the first key that is a character is the answer, and    *)
(* RETURN is the default.                                                  *)
AskChar ==
  /\ Editing /\ Command("char")
  /\ \E c \in scenario.typed : answer' = Given("char", <<localised_up_case(c)>>)
  /\ UNCHANGED <<docvars, statics, cwd, size, histvars, linevars, reqvars>>
-----------------------------------------------------------------------------
(* A requester begins, if there is something to show.                      *)
Show(what, l, n) ==
  /\ req' = what
  /\ q' = request_strings(l, n, size.lines, size.columns)
Gone == req' = NoReq /\ q' = NoRequester

(* After a requester over the input line the prompt is printed again.      *)
Prompted(u) == input_refresh([u EXCEPT !.start_x = line.prompt.len + 2])
ToLine(u) == t' = u /\ Typed(line.tabbed)

SelectDoc ==
  /\ Editing /\ Command("documents")
  /\ Show([kind |-> "documents"], DocList(docs, statics.rd_prune), cur - 1)
  /\ UNCHANGED <<docvars, statics, cwd, size, histvars, linevars, answer>>

(* FIND: the lines of the history, the last one first.                     *)
HistoryList ==
  LET lines == SelectSeq(Reverse(hist.lines), LAMBDA s : s # <<>>)
  IN  [req_list_finalize(FoldLeft(LAMBDA l, s : req_list_add(l, s, FALSE), req_list_init("none", TRUE, FALSE, NULchar),
                                  lines)) EXCEPT !.prune = TRUE]
HistoryFind ==
  /\ Reading /\ Command("find")
  /\ IF HistoryList.entries = <<>>
       THEN t' = Prompted(Emptied(t, line.first)) /\ UNCHANGED reqvars
       ELSE t' = Emptied(t, line.first) /\ Show([kind |-> "history"], HistoryList, 0)
  /\ Typed(FALSE)
  /\ UNCHANGED <<docvars, statics, cwd, size, histvars, answer>>

(* Open: the requester of files comes first, then the prompt.              *)
Open ==
  /\ Editing /\ Command("open")
  /\ \E prompt \in scenario.prompts :
       LET f == FilesFrom(PathOf(prompt.default), cwd, FALSE)
       IN  /\ prompt.complete = "file" /\ CanOpen(f)
           /\ Show([kind |-> "files", files |-> f, prompt |-> prompt], FileList(f), 0)
           /\ cwd' = f.at
  /\ UNCHANGED <<docvars, statics, size, histvars, linevars, answer>>

(* TAB completes; again, it shows what there is to choose from.            *)
TabComplete ==
  /\ Reading /\ line.prompt.complete = "file" /\ ~line.tabbed /\ Command("tab")
  /\ t' = IF complete_filename(Prefix(t), cwd) = Nothing THEN t ELSE completed(t, complete_filename(Prefix(t), cwd))
  /\ Typed(TRUE)
  /\ UNCHANGED <<docvars, statics, cwd, size, histvars, reqvars, answer>>
TabFiles ==
  /\ Reading /\ line.prompt.complete = "file" /\ line.tabbed /\ Command("tab")
  /\ LET f == FilesFrom(PathOf(Prefix(t)), cwd, TRUE)
     IN  IF CanOpen(f) /\ FileList(f).entries # <<>>
           THEN Show([kind |-> "files", files |-> f], FileList(f), 0) /\ cwd' = f.at
           ELSE UNCHANGED <<reqvars, cwd>>
  /\ Typed(TRUE)
  /\ UNCHANGED <<docvars, statics, size, histvars, t, answer>>
TabSyntax ==
  /\ Reading /\ line.prompt.complete = "syntax" /\ Command("tab")
  /\ Show([kind |-> "syntax"], SyntaxList, 0)
  /\ Typed(line.tabbed)
  /\ UNCHANGED <<docvars, statics, cwd, size, histvars, t, answer>>

(* AutoComplete, in the text or in the input line.                         *)
Here == docs[cur]
TextPrefix == SubSeq(Here.lines[Here.cur_line], context_prefix(Here) + 1, Here.cur_pos)
LinePrefix == SubSeq(t.buf, PrefixPos(t) + 1, t.pos)
PutIn(d, from, p) ==
  [d EXCEPT !.lines[d.cur_line] = SubSeq(@, 1, from) \o p \o SubSeq(@, d.cur_pos + 1, Len(@)),
            !.cur_pos = from + Len(p), !.modified = TRUE]
InText(p) == docs' = [docs EXCEPT ![cur] = PutIn(@, context_prefix(@), p)]
AutoText ==
  /\ Editing /\ Command("words")
  /\ \E found \in {autocomplete(docs, cur, TextPrefix, scenario.case_search, statics.ac_prune)} :
         /\ IF found.how = "got" THEN InText(found.p) ELSE UNCHANGED docs
         /\ IF found.how = "ask" THEN Show([kind |-> "words"], found.l, 0) ELSE UNCHANGED reqvars
  /\ UNCHANGED <<cur, statics, cwd, size, histvars, linevars, answer>>
Completed_(found) ==
  CASE found.how = "ask" -> t
    [] found.how = "none" -> input_refresh(t)
    [] found.how = "got" /\ found.whole -> Prompted(input_autocomplete(t, found.p))
    [] OTHER -> input_autocomplete(t, found.p)
AutoLine ==
  /\ Reading /\ Command("words")
  /\ \E found \in {autocomplete(docs, cur, LinePrefix, scenario.case_search, statics.ac_prune)} :
       /\ t' = Completed_(found)
       /\ IF found.how = "ask" THEN Show([kind |-> "words"], found.l, 0) ELSE UNCHANGED reqvars
  /\ Typed(FALSE)
  /\ UNCHANGED <<docvars, statics, cwd, size, histvars, answer>>

(* The terminal changes its size; a cursor may then be off the screen.     *)
Narrowed(u) == [u EXCEPT !.lost = @ \/ u.x >= u.columns]
Resize ==
  /\ (Reading \/ Choosing) /\ Command("resize")
  /\ \E s \in Sizes \ {size} :
       /\ size' = s
       /\ q' = IF Choosing THEN Resized(q, s.lines, s.columns) ELSE q
       /\ t' = IF line # NoLine THEN Narrowed(Prompted([t EXCEPT !.columns = s.columns])) ELSE t
       /\ hist' = IF hist # NoBuffer THEN [hist EXCEPT !.ne_lines = s.lines, !.ne_columns = s.columns] ELSE hist
  /\ UNCHANGED <<docvars, statics, cwd, file, last_input, line, req, answer>>
-----------------------------------------------------------------------------
(* Keys in a requester.                                                    *)
Now(new) ==
  /\ q' = AtKey(new)
  /\ UNCHANGED <<docvars, statics, cwd, size, histvars, linevars, req, answer>>
RequesterType ==
  /\ Choosing /\ Command("prefix")
  /\ \E c \in scenario.typed : Now(fuzz_forward(q, localised_up_case(c)))
RequesterBack == Choosing /\ Command("prefix") /\ Now(fuzz_back(q))
RequesterPrune == Choosing /\ Command("prune") /\ Now(toggle_prune(q))
RequesterReorder ==
  /\ Choosing /\ q.l.allow_reorder /\ Command("reorder")
  /\ \/ Now(request_reorder(q, 1))
     \/ Now(request_reorder(q, -1))
RequesterMove ==
  /\ Choosing /\ Command("choose")
  /\ \/ Now(request_move_left(q))
     \/ Now(request_move_right(q))
     \/ Now(request_move_up(q))
     \/ Now(request_move_down(q))
     \/ Now(request_move_next(q))
     \/ Now(request_move_previous(q))
     \/ Now(request_toggle_seof(q))
     \/ Now(request_move_to_sol(q))
     \/ Now(request_toggle_seol(q))
     \/ Now(request_prev_page(q))
     \/ Now(request_next_page(q))
     \/ Now(request_move_inc_up(q))
     \/ Now(request_move_inc_down(q))

DocSave ==
  /\ Choosing /\ req.kind = "documents" /\ docs[Place0(q)].name # <<>> /\ Command("save")
  /\ docs' = [docs EXCEPT ![Place0(q)].modified = FALSE]
  /\ q' = AtKey(handle_savedoc(q))
  /\ UNCHANGED <<cur, statics, cwd, size, histvars, linevars, req, answer>>
DocClose ==
  /\ Choosing /\ req.kind = "documents" /\ CanClose(q, docs) /\ Command("close")
  /\ docs' = RemoveAt(docs, Place0(q))
  /\ cur' = CurAfterClose(cur, Place0(q), Len(docs))
  /\ q' = AtKey(handle_closedoc(q))
  /\ UNCHANGED <<statics, cwd, size, histvars, linevars, req, answer>>

(* The end of a requester: by RETURN, or by TAB or ESCAPE.                 *)
Ends(kind) == Choosing /\ req.kind = kind /\ Command("end")
Text == TextOf(q.l, Place0(q))
DocReturn ==
  /\ Ends("documents")
  /\ docs' = Reordered(q.l, docs) /\ cur' = ChosenPlace(q)
  /\ statics' = [statics EXCEPT !.rd_prune = q.l.prune]
  /\ Gone
  /\ UNCHANGED <<cwd, size, histvars, linevars, answer>>
DocEscape ==
  /\ Ends("documents")
  /\ statics' = [statics EXCEPT !.rd_prune = q.l.prune]
  /\ Gone
  /\ UNCHANGED <<docvars, cwd, size, histvars, linevars, answer>>

(* A paste of a line that is not ASCII where there is no clip is undefined.*)
HistoryReturn ==
  /\ Ends("history")
  /\ ToLine(Prompted(SetLine(t, Text)))
  /\ Gone
  /\ UNCHANGED <<docvars, statics, cwd, size, histvars, answer>>
HistoryTab ==
  /\ Ends("history")
  /\ ToLine(Prompted(input_paste(t, Text, detect_encoding(scenario.clip))))
  /\ Gone
  /\ UNCHANGED <<docvars, statics, cwd, size, histvars, answer>>
HistoryEscape ==
  /\ Ends("history")
  /\ ToLine(Prompted(t))
  /\ Gone
  /\ UNCHANGED <<docvars, statics, cwd, size, histvars, answer>>

WordsEnd(text, chosen) ==
  /\ statics' = [statics EXCEPT !.ac_prune = q.l.prune]
  /\ IF line # NoLine
       THEN ToLine(Prompted(IF chosen THEN input_autocomplete(t, text) ELSE t)) /\ UNCHANGED docs
       ELSE (IF chosen THEN InText(text) ELSE UNCHANGED docs) /\ UNCHANGED linevars
  /\ Gone
  /\ UNCHANGED <<cur, cwd, size, histvars, answer>>
WordsReturn == Ends("words") /\ WordsEnd(Unmarked(Text, EXTERNAL_FLAG_CHAR), TRUE)
WordsEscape == Ends("words") /\ WordsEnd(<<>>, FALSE)

SyntaxReturn ==
  /\ Ends("syntax")
  /\ Selected_(CString(completed(t, SyntaxName(Text)).buf))
  /\ Gone
  /\ UNCHANGED <<docvars, statics, cwd, size, file>>
SyntaxTab ==
  /\ Ends("syntax")
  /\ ToLine(completed(t, SyntaxName(Text)))
  /\ Gone
  /\ UNCHANGED <<docvars, statics, cwd, size, histvars, answer>>

(* A directory is entered; the name of a file, or of a directory with TAB, *)
(* is the answer, after which the current directory is the old one.        *)
FileEnter ==
  /\ Ends("files") /\ IsDir(Text)
  /\ LET f == Enter(req.files, Text)
     IN  Show([req EXCEPT !.files = f], FileList(f), 0) /\ cwd' = f.at
  /\ UNCHANGED <<docvars, statics, size, histvars, linevars, answer>>
Opening == line = NoLine
Back == Gone /\ cwd' = req.files.start
FileReturn ==
  /\ Ends("files") /\ ~IsDir(Text)
  /\ IF Opening
       THEN answer' = Given("file", FileName(req.files, Text)) /\ UNCHANGED <<linevars, histvars>>
       ELSE Selected_(CString(completed(t, FileName(req.files, Text)).buf)) /\ UNCHANGED file
  /\ Back
  /\ UNCHANGED <<docvars, statics, size>>
FileTab ==
  /\ Ends("files")
  /\ IF Opening
       THEN Asked(req.prompt, FileName(req.files, Text))
       ELSE ToLine(completed(t, FileName(req.files, Text))) /\ UNCHANGED <<statics, histvars>>
  /\ Back
  /\ UNCHANGED <<docvars, size, answer>>
FileEscape ==
  /\ Ends("files")
  /\ IF Opening THEN Asked(req.prompt, req.prompt.default) ELSE UNCHANGED <<linevars, statics, histvars>>
  /\ Back
  /\ UNCHANGED <<docvars, size, answer>>
-----------------------------------------------------------------------------
FromText == Prompt \/ AskChar \/ SelectDoc \/ Open \/ AutoText \/ close_history
FromLine ==
  \/ LineType \/ TabType \/ LineMove \/ LineEdit \/ HistoryMove \/ HistoryFind \/ TabComplete \/ TabFiles
  \/ TabSyntax \/ AutoLine \/ Return \/ Escape
FromRequester ==
  \/ RequesterType \/ RequesterBack \/ RequesterPrune \/ RequesterReorder \/ RequesterMove
  \/ DocSave \/ DocClose \/ DocReturn \/ DocEscape \/ HistoryReturn \/ HistoryTab \/ HistoryEscape
  \/ WordsReturn \/ WordsEscape \/ SyntaxReturn \/ SyntaxTab \/ FileEnter \/ FileReturn \/ FileTab \/ FileEscape
Next == FromText \/ FromLine \/ FromRequester \/ Resize
Spec == Init /\ [][Next]_vars
-----------------------------------------------------------------------------
PageSound(p) ==
  /\ p.entries > 0 /\ p.rows \in 1 .. MaxRows(q) /\ (p.cols = 1 \/ Width(p) <= q.columns)
  /\ \A i \in 0 .. p.entries - 1 :
       /\ RowOf(i, p.cols, p.rows) < p.rows /\ ColOf(i, p.cols, p.rows) < p.cols
       /\ req.kind # "words" => Len(Shown(q, p.first + i)) < p.col_width[ColOf(i, p.cols, p.rows) + 1]
PagesSound ==
  /\ q.pages # <<>> /\ NextFirst(q.pages) = Count(q)
  /\ \A i \in DOMAIN q.pages : /\ PageSound(q.pages[i])
                              /\ q.pages[i].first = NextFirst(SubSeq(q.pages, 1, i - 1))
EntriesSound ==
  /\ IsInjective(q.rl) /\ ToSet(q.rl) \subseteq ToSet(q.l.entries) /\ IsInjective(q.l.entries)
  /\ \A i \in DOMAIN q.l.entries : LET p == q.l.entries[i]
                                  IN  /\ p = 1 \/ q.l.chars[p - 1] = NULchar
                                      /\ q.l.chars[p] # NULchar
OrderSound == q.l.allow_reorder => ToSet(q.l.reorder) = 0 .. Len(q.l.entries) - 1
ShownExactly ==
  q.prune = q.l.prune /\ q.rl = [i \in DOMAIN Matches(q) |-> q.l.entries[Matches(q)[i]]]
DocsListed ==
  req.kind = "documents" =>
    Texts(q.l) = [i \in DOMAIN docs |-> DocName(docs[i]) \o (IF docs[i].modified THEN <<DOC_SUFFIX>> ELSE <<>>)]
(* What a requester shows: the pages hold all the entries, one after the   *)
(* other, and fit the screen; the entries that are shown are strings of the*)
(* list that go on with the prefix, or all of them, each once; one of them *)
(* is selected; the order the user gives them is a permutation; and while  *)
(* documents are saved and closed from their requester, its entries go on  *)
(* telling the documents and which are modified.                           *)
RequesterSound ==
  Choosing => /\ EntriesSound /\ ShownExactly /\ OrderSound /\ PagesSound /\ DocsListed
              /\ Current(q) \in 0 .. Count(q) - 1 /\ q.C < Page(q).cols /\ q.R < Page(q).rows
              /\ q.fuzz \in 0 .. Len(Selected(q))

(* RETURN makes the selected document current, and leaves the documents in *)
(* the order in which they were shown.                                     *)
DocShown(i) == docs[CHOOSE j \in DOMAIN docs : q.l.entries[j] = q.rl[i]].id
PlaceNow(id) == CHOOSE j \in DOMAIN docs' : docs'[j].id = id
ChosenIsShown ==
  [][DocReturn => /\ docs'[cur'].id = DocShown(Current(q) + 1)
                  /\ \A i, j \in DOMAIN q.rl : i < j => PlaceNow(DocShown(i)) < PlaceNow(DocShown(j))]_vars

(* The input line: the cursor and the first byte shown are at characters,  *)
(* the encoding is that of the bytes, and the cursor is on the screen, at  *)
(* the column of its character, unless a redraw has lost it.               *)
EncodingOfLine ==
  CASE t.enc = "ascii" -> is_ascii(t.buf) [] t.enc = "utf8" -> IsUtf8(t.buf) [] t.enc = "8-bit" -> TRUE
InputSound ==
  line # NoLine =>
    /\ len(t) <= MAX_INPUT_LINE_LEN
    /\ ~t.lost => /\ EncodingOfLine /\ {t.pos, t.offset} \subseteq CharStarts(t) \cup {len(t)} /\ t.offset <= t.pos
                  /\ t.x = t.start_x + get_string_width(t, t.offset, t.pos) /\ t.x < t.columns

NameNow == IF line' # NoLine THEN Prefix(t') ELSE Prefix([buf |-> answer'.text])
Short(text) == Len(text) + HelpLen < MAX_INPUT_LINE_LEN
Meant(bytes) ==
  LET name == PathOf(bytes) IN Beginning(FileOf(DirOf(name), cwd), file_part(name))
TabKeepsFiles ==
  TabComplete /\ t' # t =>
    \/ Meant(Prefix(t')) = Meant(Prefix(t))
    \/ \E e \in Meant(Prefix(t)) : /\ Meant(Prefix(t)) = {e}
                                  /\ FileOf(PathOf(Prefix(t')), cwd) = FileOf(DirOf(PathOf(Prefix(t))), cwd) \o <<e.name>>
(* The name that the requester of files gives stands, where it was asked   *)
(* for, for the file that was chosen; that is the current directory again. *)
(* TAB loses no file: what could be meant before can be meant after it.    *)
PathChosen ==
  [][/\ TabKeepsFiles
     /\ req'.kind # "files" => cwd' = scenario.cwd
     /\ (FileReturn \/ FileTab) /\ Short(FileName(req.files, Text)) =>
          FileOf(PathOf(NameNow), cwd') = FileOf(FullName(req.files, Text), <<>>)]_vars

(* The last input is the last line of the history, also when ne has ended  *)
(* and only MAX_HISTORY lines are kept.                                    *)
HistoryKept ==
  last_input # <<>> =>
    LET lines == IF hist # NoBuffer THEN hist.lines ELSE file
    IN  /\ Len(lines) > 1 /\ lines[Len(lines) - 1] = last_input /\ Last(lines) = <<>>
        /\ Len(lines) < 3 \/ lines[Len(lines) - 2] # last_input
        /\ hist = NoBuffer => Len(file) <= MAX_HISTORY

(* AutoComplete puts in what all the words that go on with the prefix have *)
(* in common, or one of them.                                              *)
WordsOfDoc(d, current) ==
  UNION {{BytesIn(d.lines[k], w) : w \in {w \in ToSet(WordsOf(d.lines[k], d.enc)) : Offered(d, k, w, current, Here.enc)}} :
           k \in DOMAIN d.lines}
AllWords == UNION {WordsOfDoc(docs[i], i = cur) : i \in DOMAIN docs}
PutInNow == SubSeq(docs'[cur].lines[Here.cur_line], context_prefix(Here) + 1, docs'[cur].cur_pos)
WordsSound ==
  [][/\ AutoText /\ docs' # docs =>
          \A w \in AllWords : Completes(TextPrefix, w, scenario.case_search) => is_prefix(PutInNow, w)
     /\ WordsReturn /\ docs' # docs =>
          PutInNow \in AllWords /\ Completes(TextPrefix, PutInNow, scenario.case_search)]_vars
=============================================================================
