# ne, the nice editor: specifications, model checking and proofs

This directory holds TLA+ models of `ne` (the C sources of `src/src`), the TLC
configurations that check them on small documents, and TLAPS proofs of what
matters most for documents of any size. The models are translated from the
code; where code and documentation disagree, the model follows the code and a
run exhibits the disagreement.

## The system

`ne` is one process and one thread: the main loop of `ne.c` reads a key, turns
it into a command line or an action and calls `do_action()` (`actions.c`),
which runs to its end before the next key is read. What makes the program hard
is not parallelism but *history*: long sequences of legal commands over state
that is kept redundantly (a text, the undo steps that say how it came about,
the bytes those steps will need, marks, cursors, flags, what the screen is
believed to show), each piece adjusted by hand in every function that changes
the others. Signals are the only interruption, and critical sections block
them. At the two ends of the loop is a terminal that answers no questions: its
keys come byte by byte, and what it shows is known only from what was sent.

| component | state it keeps | operations | what makes it correct |
|---|---|---|---|
| undo system (`undo.c`) | steps, undo and redo streams, positions in each, the step of the last save, depth of open chains | record, start/end chain, undo, redo, reset | undo and redo restore exact texts; a command is undone as a whole; the modified flag tells the truth |
| text (`buffer.c`) | list of line descriptors, number of lines, mark, bookmarks | insert and delete a stream of bytes | lines are the bytes cut at line feeds; marks stay on their bytes |
| memory pools (`buffer.c`) | character pools with first/last used byte, free lists of line descriptors | allocate, allocate around, free | no byte belongs to two lines; free ends of a pool are what the pool says |
| files (`buffer.c`, `streams.c`) | file contents, terminators, mtime, modified flag | load, save, save all, auto save | saving and loading gives the text back; flags follow |
| commands (`actions.c`, `edit.c`, `clips.c`, `search.c`) | cursor, mark, clips, search strings | editing, blocks, paragraphs, find and replace | each leaves cursor, mark and undo chain consistent |
| macros (`command.c`) | the macro being recorded, the hash of loaded macros, call depth | record, play, load, execute | a recorded macro replays what was done; recursion is bounded |
| documents, preferences (`ne.c`, `prefs.c`) | list of documents and the current one; stack of options | new, close, next; push, pop | the current document is in the list; options come back |
| signals (`signals.c`) | nesting depth of the blocked sections | block, release, fatal signal, stop | emergency saves see whole texts |
| keys (`keys.c`) | the sorted table of keys, the bytes that were read and not given, how much of which key they match | wait, match, give up | a key that was pressed is the key that is read |
| input line (`input.c`) | the bytes of the line, their encoding, the cursor and the first byte shown; the history | type, move, delete, paste, complete, recall | the cursor is on a character and on the screen; what was put in is in the history |
| requesters (`request.c`, `autocomp.c`) | strings packed in memory, the entries shown, the order the user gave, pages | move, type a prefix, prune, reorder, save, close, choose | the entry that is marked is the one chosen |
| display, syntax, menus (`display.c`, `syntax.c`, `menu.c`) | the states each line begins with, the colours on the screen of one line, what must be drawn again, the fields of the status bar | scroll, update a line or a character, refresh, show and hide | the screen shows the text |
| terminal (`term.c`, `cm.c`) | where the cursor is, attributes and modes, the scroll region | move, print, clear, insert, delete, scroll | what is remembered of the terminal is true |

The components meet in `struct buffer`: the commands call
`insert_stream()`/`delete_stream()`, which record undo steps; `undo()` and
`redo()` call the same two functions back with a flag that changes what they
record; saving writes `is_modified` and `last_save_step`, which undo and redo
compare. The commands that edit call the display with what they changed
(`update_inserted_char()`, `scroll_window()`), and the display keeps the states
of highlighting in the line descriptors. `request()` asks `get_key_code()` for
keys and edits its line with the functions of `input.c`; from it the user gets
into a requester and back. SIGWINCH reaches both: it ends the wait for a byte,
and has the screen drawn again.

## Modules

| module | models |
|---|---|
| `FlatText` | the text as one sequence of bytes: `Insert`, `Delete`, `Slice` |
| `UndoBuffer` | `undo.c`, the recording done by `insert_stream()` and `delete_stream()`, and every case of `do_action()` that touches the undo buffer, its chains, the saved step or the modified flag; the mapping to `UndoHistory` |
| `UndoHistory` | what undo promises to the user: a list of versions, one per command or group, and a position in it |
| `Pools` | the memory of a document, as operators on pools: `alloc_chars()`, `alloc_chars_around()`, `free_chars()` for bytes, `alloc_line_desc()`, `free_line_desc()` for line descriptors |
| `TextLines` | the list of lines, the mark and the bookmarks; `insert_stream()` and `delete_stream()` turn by turn over the two kinds of pools, with memory that runs out; the lines and pools that loading builds; the mapping to `FlatDocument` |
| `FlatDocument` | what those two functions promise: a sequence of bytes with offsets as marks |
| `PoolProofs` | what each function of `Pools` does to the bytes and the descriptors in use |
| `TextLinesProofs` | proofs about what `TextLines` records for undo, where it leaves the marks, and whose every byte is |
| `FlatDocumentProofs` | `TextLines` implements `FlatDocument` |
| `MCTextLines` | small files and streams for TLC |
| `DocLines` | what those two functions make of the lines and the points of a document, for the modules of the commands; columns and positions |
| `Blocks` | `clips.c`: copy, cut, erase and paste of blocks and rectangles; Through, OpenClip, the mark and the bookmarks `<` and `>`; the encodings of clips and document |
| `MCBlocks` | small files, clips and filters for TLC |
| `Cursor` | `navigation.c`: the cursor, the part of the text on the screen, and every function that moves one of them |
| `Search` | `search.c`: the shift table and the two scans, the order in which lines are searched, what makes a search compile again; matching brackets |
| `EditLines` | the commands that edit at one place (characters, lines, words, tabs, case), with `undo()` and `redo()` as they move the cursor; paragraphs, centering, shifts and replacements |
| `Editing` | all of these as commands of `do_action()` on one document, with the loops of InsertTab and Replace as processes of their own |
| `MCEditing` | documents, options and screens for TLC |
| `Files` | how bytes become lines, by the two loaders, and lines bytes, by the two ways of saving; the streams of clips and macros |
| `Paths` | `support.c`: the normal, absolute and relative form of a path, the tilde; NameConvert |
| `Commands` | the table of commands, `parse_command_line()`, `record_action()`, and the optimizing of macros |
| `Documents` | the list of documents and the files: creating, clearing and freeing a buffer, loading, saving, modification times, `auto_save()`; options and their stack, preferences and virtual extensions; macros that are recorded, played and loaded |
| `Session` | the commands about documents, files, preferences and macros, the requester of documents, other programs that write the files, a fatal signal, the interrupt, and `main()` |
| `MCSession` | fourteen scenarios of a session for TLC |
| `Utf8` | `utf8.c` and the functions of `support.c` about characters: lengths, decoding, the detection of an encoding, words |
| `ReqList` | the lists of strings of `request.c`, packed one after the other, and how they are compared |
| `Requester` | `request_strings()`: pages of columns, moves, prefixes, pruning, reordering; the requester of documents |
| `InputLine` | the line of `request()`: `input.c` but for what asks |
| `Completion` | `autocomplete()`, `complete_filename()`, the lists of files and syntaxes |
| `Interaction` | the user before prompts, history, completion and requesters, on a terminal that changes its size |
| `Keys` | `keys.c`: the table, and `get_key_code()` turn by turn |
| `Keyboard` | a line of input typed byte by byte: `Keys` with the prompts of `Interaction` |
| `MCInteraction` | thirteen scenarios of keys for TLC |
| `Terminal` | the functions of `term.c` and `cm.c`, and a device that does what it is sent |
| `Syntax` | `parse()` |
| `Display` | `display.c` |
| `Menus` | `menu.c`: the status bar, messages, menus |
| `Drawing` | what the moves of `Cursor` and the edits of `EditLines` draw |
| `Screen` | the main loop, the commands and the menus, as the user sees them |
| `MCScreen` | five terminals, two syntaxes and the scenarios for TLC |
| `MCUndoBuffer` | small documents for TLC |
| `FlatTextProofs` | sequence lemmas; insertion and deletion undo each other; what a fold keeps at each step |
| `UndoBufferProofs` | the inductive invariant of `UndoBuffer`; type correctness, exactness of undo and redo; chains stay apart; the modified flag is right, with the commands that keep it right; `UndoBuffer` implements `UndoHistory` |
| `BlocksProofs` | the invariant of `Blocks`: points stay in the document, no text is in an encoding that does not hold it; each command is one step to undo |
| `KeysProofs` | the invariant of `get_key_code()`; a byte is given up only where no key is |
| `SessionProofs` | the invariant of `Session`: the list of documents is right after every command, macros and options stay within their limits |

`PROJECT.json` maps the operations to the lines of the code that they stand for;
of the small helpers, those whose lines lie within the lines of the operation
that uses them are not all listed.

### UndoBuffer and the code

`steps`, `cur_step`, `streams`, `cur_stream`, `redo`, `last_save_step` are the
fields of `undo_buffer` (`ne.h`); `last_step` and `last_stream` are the lengths
of `steps` and `streams`. A step's position is an offset in the text, and its
`linked` field is the sign of `pos`. `link_undos`, `atomic_undo`, `is_modified`
and the two options are fields of the document. `saved` is the file. `busy`
counts the chains the command that is running has opened, so that the prompt
(`AtPrompt`) is where the user can do something else. `mode` is a program
counter for UNDO_A and REDO_A: between two turns of the loops of `undo()` and
`redo()` the model takes a step of its own, so that the invariants are stated
there too.

`ver`, `vsp`, `vrp` are history variables: the text, the position in the undo
stream and the length of the redo stream when each step was done or undone.
They are never read by a guard; they make it possible to say what undo should
bring back.

One action is one operation: `InsertStream` is an insertion *with* its
recording, `UndoStep` one turn of the loop *with* the flag it sets. A command
that makes several edits is `StartChain`, edits, `EndChain`; one that makes one
edit is the edit. All positions, streams and lengths within the bounds are
tried, so every command of the editor that is a sequence of insertions and
deletions is covered.

### UndoHistory

`UndoHistory` has versions `hist` and a position `cur`. A change appends after
`cur`; undo and redo move by exactly one; while a group is open a change may
extend the newest version. `UndoBuffer` maps `hist` to the texts at the steps
that are not linked to the next one, and `cur` to the rank of the current step
among them. Outside the loops the current step must be such a step (`Shown`
maps anything else to 0, which `UndoHistory` can never reach), so the run also
says that undo and redo never stop halfway through a command.

### TextLines and the code

`lines` is `b->line_desc_list`: each record is a `line_desc` with the place of
the descriptor itself (`ld`), the address `line` and the length `line_len`. The
bytes are in `mem`, the character pools of `Pools`, where an address is a
pool and an offset and a free byte is `Nul`, as in the code; so two lines that
share memory, or a line on bytes that were given out again, are states the
model can be in if the code's arithmetic is wrong. `descs` is the list of the
line descriptor pools, in the order in which they are tried. `marks` holds the
mark of the block and the bookmarks that are set; they may lie beyond the end
of their line, as the cursor may in free form.

`InsertPiece` and `BreakLine` are the two halves of a turn of the loop of
`insert_stream()`, `JoinLines` and `DeleteInLine` the two cases of the loop of
`delete_stream()`. `line`, `pos`, `len`, `rest` and `left` are their local
variables. `InsertFails` and `DeleteFails` are their returns of
`OUT_OF_MEMORY_DISK_FULL`, possible exactly when the pools at hand have no room
and a new one would be asked for. `DeleteFails` moves the marks: the code does so
before it asks for memory, and leaves them there. `MarksNear` bounds how far past
the end of a line repeated failures take a mark: no deletion begins with one more
than `MaxText` + 1 from the beginning of its line. `owed` is a history variable: the length of
the undo step, less what was really inserted or deleted. It is read by no guard.
`Load` builds what the three ways of loading leave: a pool of exactly the file,
one of a power of two for a pipe, and a mapped file with as many descriptors as
lines. Insertions and deletions here are those that record an undo step.

After a file of line feeds only is loaded, `allocated_chars` and `free_chars`
both count a pool that was freed (buffer.c:1513); nothing uses them but through
their difference, which is what the last part of `BytesOwned` is about.
`MemoryOwned` is `BytesOwned` and, for the descriptors, `DescsOwned`.

### FlatDocument

`FlatDocument` has no lines and no memory: a request for an insertion or a
deletion is carried out from its beginning, one or more bytes at a time, and
marks follow the bytes they are at. A mark beyond the end of its line is
`Loose`: where it goes is not promised, only that it stays set. Each turn of
the loops of `TextLines` must be a step that inserts or deletes at least one
byte of what was asked for, so that the loops end; that they never stop before
is the absence of deadlock.

### DocLines and Blocks

`DocLines` has the effect of `insert_stream()` and `delete_stream()` when memory
does not run out, as operators on a record of lines, points and undo steps: the
modules of the commands compose them as the code composes the calls. A point
after an insertion is `AfterInsert`, after the deletion of one character or
line end `AfterDelete`; a deletion of many is the fold of deletions of one.

In `Blocks` one action is one command of `do_action()`, from the keystroke to
its last assignment. `cur` is `cur_line` and `cur_pos`; `pts` holds the mark
(set when `marking`) and the two bookmarks that a paste sets; `clips` is the
list of clips, where the one of Through is always present. `undo` counts how
many UNDO_A would take the command back: it is `NoUndo` when a command starts.
Moves of the cursor put it anywhere the user can, also beyond the end of a line
in free form. A character is one position and one column, whatever its
encoding (a tab excepted), so byte arithmetic inside a multi-byte character is
not in this model.

The properties are about whole commands. `BlockReplaced` compares a stream
command with `Insert`, `Delete` and `Slice` of `FlatText` on the document as one
sequence, and says that after a paste the two bookmarks are around what was
pasted, where the cursor is in its line. Beyond it they are not
(`blocks_bookmarks`). `VerticalCutPastesBack` composes two commands, on texts without
tabs and wide characters, whose columns are positions. `TypeOK`, a
part of `EncodingSound`, says that the mark stays in the document, so that
`MARK_OUT_OF_BUFFER` is never the answer.

### Cursor, Search, EditLines and Editing

The state of `Editing` is one record `e`, a document of `DocLines` with the
fields of `struct buffer` that the commands use: the place of the cursor in the
text three times (`cur_line`, `cur_pos`, `cur_char`), on the screen (`cur_x`,
`cur_y`), the left and the top of what is shown (`win_x`, `win_y`), the two
descriptors the code keeps so as not to walk the list, and the columns and
lines the cursor *wants* to go back to. Nothing derives one from the other, in
the model as in the code: a command of `do_action()` is the composition of the
operators that bear the names of the functions it calls, each assigning what
its function assigns. A descriptor is its place in the list, and a deletion
that frees the line of the cursor leaves it 0, so that a dangling pointer is a
state the model can be in. Insertions and deletions record undo steps as in
`UndoBuffer`, whose chains `Begin` and `Finish` nest; `undo()` goes through the
steps with `goto_line_pos()`, as the code does.

A wide character takes two columns and a tab up to its stop, so that a column
may be inside a character and a character may be cut by the right side.
`find()` is the loop of the code over `Shift`, the table `d` that was compiled
from the string, the direction and the case of some earlier moment
(`e.compiled`); whether it is compiled again is `Recompile`. The regular
expressions themselves are external: a pattern matches itself, or any number
of one character. Replace is a process: each round searches, asks and
replaces, and the user may interrupt it between any two rounds (`stop`).

A scenario fixes the document, its options, the screen and the groups of
commands that are used together: any sequence of them is taken. Between them
the scenarios use every command. The repetition count that most commands take
is left at one, since a repeated command is the loop of the command.

`CursorSound` is what `assert_buffer()` states, and more. `MovesComeBack`
composes a move with its opposite; it is what the wanted columns are for.
`UndoRestores` says that nothing a command does to the text escapes the undo
steps and that no chain is left open by any way out of a command. `FindNext`
compares the scans with the definition of an occurrence.

Three places in the code do not keep the properties, and the scenarios or
`AnyOption` leave them out. In free form, `resync_pos()` takes `x - win_x` for a
short line without looking if it is on the screen (navigation.c:149): with a
wide character cut by the left side, the cursor leaves the screen and the next
command fails the assertion at actions.c:183. FreeForm and PopPrefs change
options without moving the cursor to where they put it, and PopPrefs does not
have a search compiled again. InsertTab with spaces in a read-only document
never ends.

### Files, Paths, Commands, Documents and Session

The state of `Session` is one record `s` for what the program keeps (the
documents `doc`, their `order` in the list, the `cur`rent one, `recent` for the
numbers `act` of the buffers, the macros, the stack of options) and for the
world around it (the files on `disk`, the scripts of macros and preferences).
A document keeps what loading and saving need: its lines, its name, its format,
the time of its file. The text is edited by `InsertChar` and `InsertString`
alone, at one place; `Editing` has the rest.

A user action is one action of the module, `Begun`, `Perform` and
what is left of `do_action()`. It is parsed from a line of a macro, or comes
from a key; while something is recorded it is written out again by
`record_action()`. Played macros are `frames`: `MacroStep` plays a line,
`MacroReturn` comes to the end of the lines, `MacroStops` leaves because of an
error or of `stop`; `Interrupt` may come between any two lines. Documents are
taken from the list of `request_document()` while it is shown
(`SelectSave`, `SelectClose`); the reordering empties the list and fills it
again (`SelectTake`, `SelectPut`), with the signals in between. `ExternalWrite`
is another program; `FatalSignal` may come where the scenario says.

A file has a modification time in seconds and, as a history variable, a
version that changes at each write: `seen` is the version a document had when
it was loaded or saved. A write that fails writes a prefix (`scenario.writes`
says how many writes get through). `agreed` notes the questions the user
answered with yes in a step.

`Files` has the two loaders side by side: `LoadInMemory` makes the two passes
of `load_fd_in_buffer()`, `LoadMapped` turns a window of two halves over the
file as `create_mmap_files()` does; `FilesSound` compares them on every small
file, and what `SaveBlocks` and `SaveLines` write with what both read.
`NamesKept`, a part of `FilesSound`, compares the forms of a path with the file
a walk over its parts reaches.

Some ways out of Open are not those one expects, and the properties keep to
what holds: a failed Open with several documents has already come back to the
old one when it moves on to the previous one (actions.c:1082), and a macro that
recorded an Open stops at the `PrevDoc 1` it recorded, which takes no number
(actions.c:1078). Saving from the list of documents does not look at the time
of the file (request.c:1196), and two writes in one second cannot be told
apart, so `Tick` is 1 and `SelectSave` does not meet `ExternalWrite`. A macro
that starts and ends a string with a quote loses the quotes when it is read
again (command.c:296).

### Requester, InputLine, Completion and Interaction

A list of the requesters is `req_list`: `l.chars` holds the strings one after
the other, an entry is the place of its first character, as the pointers of the
code are, and marks that are written behind a string stay inside its room. So
an entry that points into the middle of a string is a state the model can be
in. The record `q` is what `request_strings()` has in local and static
variables: the entries shown, their lengths, the pages, and where the selected
one is on its page. Pruning, sorting, laying out (`BY_COLUMN`) and normalizing
are the operators with the names of the functions, each composed as the
handlers of the keys compose them.

`t` is the input line with `ib.x`, `ib.pos`, `ib.offset` and `ib.start_x` kept
apart as in the code, over bytes: a character is what `Utf8` decodes. `lost`
notes that `input_refresh()` or a narrower terminal has left the cursor at a
column that is not that of its character; the properties about columns do not
speak of such a line, and it is not followed beyond its end.

One action of `Interaction` is one key of `request()` or of a requester, with
every call its handler makes. `line` is the prompt, `req` the requester that
was opened from it (files, syntaxes, documents, words), `cwd` the directory,
which `request_files()` changes while it browses `Tree`; `hist` is the buffer of
the history, or `file` its lines when ne has ended.

`ChosenIsShown` compares the documents after RETURN with what was on the
screen. `RequesterSound` says that pages, entries, order and documents agree
after any sequence of keys; `PathChosen`, that the name which a requester or TAB
puts in stands, where it is asked for, for the file that was meant, and that TAB
loses no file; `WordsSound`, that a completion is what all words have in common,
or one of them. The scenarios either reorder or prune (see below), complete
ASCII words, and paste what fits.

### Keys and Keyboard

`get_key_code()` is a process: `Turn` is one turn of the loop over the bytes it
has, of which each branch is an action, `Waits` and `ReadByte` are the call of
`getchar()`, which a time out (`TimeOut`, if `EscapeTime` is set) or a signal
(`Interrupted`) ends without a byte. `last_match`, `cur_key`, `partial_match`
and `partial_is_utf8` are its local variables, which live through the waiting.
The table is what `read_key_capabilities()` and the SEQ lines make: capabilities
in any order are sorted, the others are put in by `binsearch()`, which takes a
key for found that *begins* with what is looked for, as the code does.

`Keyboard` puts the terminal and the user in front of it: a keystroke is sent
byte by byte (`Send`) while the program reads, and `request()` does what it gets.
`meant` is the line that the keystrokes, taken as keys, would have made, with
the same operators of `InputLine`; `WhatIsMeant` compares it with the line when
everything that was typed has been given. `late` notes a pause or signal within
a keystroke, after which the bytes mean something else, by design: the property
is about all other runs. `GivesUpLast` has no such condition: a byte is given as
it was typed only if no key can be meant.

The table, the time and the encoding are those of the scenario. The hang-up of
the terminal and the parsing of key bindings are left out.

### Terminal, Syntax, Display, Menus, Drawing and Screen

`Terminal` holds both sides. The device has cells, a cursor, attributes, an
insert mode and a scroll region, which only what is sent changes (its glyphs,
automatic margins that wrap at once or late, scrolling at the bottom, background
colours that erase). The program has what it remembers: `curY`, `curX`,
`curr_attr`, `insert_mode` and the rest. Each operator is a function of `term.c`
or `cm.c`: it decides by what is remembered and sends to the device. What a
terminal can do is `t.has`; `cmgoto()` chooses the cheapest of its ways with
`t.cost`, so that each kind of motion is taken on some terminal.

`Syntax` is `parse()`: an automaton over the characters of a line with a stack
of syntaxes, recolouring, keywords, saved delimiters, in the cell of the
`HIGHLIGHT_STATE` that the next line begins with. Two syntaxes of five and one
states stand for the files of `syntax/`.

`Display` has the functions of `display.c` by their names, on a state `s` with
the terminal, the document of `EditLines` (`s.e`), the states of the lines
(`s.hs`), the global `attr_buf`, and the colours `b_attr` remembered for one
line. `Drawing` pairs each function of `navigation.c` and each editing command
with the calls of the display it makes: the same edit as in `EditLines`, with
what is drawn before and after. `Menus` has the status bar, whose last drawn
fields are kept, messages, and menus drawn over the text.

In `Screen`, `MainLoop` is the part of the loop of `main()` that draws and then
waits, and `KeyPressed` what it does when a key has come; between them a command
or the commands of a macro run (`burst`). `WindowChangesSize` comes while the
program waits; `SUSPEND_A` gives the terminal to the shell, which leaves
`Garbage`. A scenario is a text on a terminal with options and groups of
commands, of which any sequence is taken.

`TextShown` is stated from nothing but the text, the window and `parse()`: each
cell of the device shows the character that has its column, with the colour of
its state. Whatever was scrolled, inserted in place, postponed by TURBO or left
alone because it would not change is compared with that. `StatesSound` is
what `do_action()` asserts, and that every line begins with the state in which
the one before ends, unless it is known that it does not (`need_attr_update`).
`DeviceKnown` compares the two sides of `Terminal`.

A terminal is assumed to have an absolute motion if it wraps late, and a
scroll in each direction if it has a scroll region. Left out: glitches (magic
cookies, `hz`, padding), tabs sent to the device, underlining of the modified
flag, the cursor's visibility, and the drawing of block commands. A field of the
status bar is one glyph, and so is a message.

## Runs

| run | question | bounds |
|---|---|---|
| `undo_commands` | with *all* the commands, do undo and redo restore exact texts, do the two streams match the steps, do the loops end? | alphabet of 2, texts and streams up to 2 bytes, 2 steps, nesting 1 |
| `undo_promise` | with the commands that keep the promises, is the history that of `UndoHistory`, do chains stay apart, is the modified flag right? | 3 steps, nesting 2 |
| `text_lines` | do the lines with their memory and marks implement `FlatDocument`, whatever is inserted and deleted and wherever memory runs out? is every byte and descriptor owned once? does a deletion record what it deleted? | documents of 3 bytes and line ends, pools of 2 bytes (4 for a pipe) and of 2 descriptors, one mark, deletions up to 2 |
| `blocks` | do the block commands replace exactly the block, in both directions, with bookmarks and mark on their text? is a rectangle put back by a paste? are encodings kept apart? is each command one undo step? | 3 files with a tab, a wide character, an empty line and each encoding; 3 outputs of a filter; documents up to 6, the cursor up to 1 beyond its line, 2 commands after any moves and marks |
| `editing` | do cursor, screen and text agree after any sequence of moves and edits? are moves undone by their opposites, edits by Undo? does a search find what is there, does a loop end? | texts of up to 4 lines, 12 scenarios, screens of 3 by 6 and 4 by 9, tabs of 2 (`TABSIZE` sets up to 3); 2 edits after any moves; 12 rounds of a loop |
| `session` | is the list of documents sound through any sequence of commands? is no text lost, whatever fails or is written by others? does a macro record, optimize and play what was done, and end? do all loaders and savers agree, do names keep their file? | 14 scenarios, 3 documents, 2 files, up to 4 commands, macros 3 deep (`ModelDepth` 5 would show a deeper one), files of 5 bytes, paths of 4 parts, blocks of 2 |
| `interaction` | does what the user chooses in a requester, completes, recalls or types come out, whatever was moved, pruned, reordered, saved or resized before? does the cursor of the input line stay on a character and on the screen? are the keys that are read those that were pressed? | thirteen scenarios, up to ten keys each, terminals of 3 by 9 and 4 by 12, lists of up to 6 entries, lines of 9 bytes, a history of 4 lines; tables of up to 8 keys of 1 to 4 bytes, three keystrokes, a buffer of 6 bytes |
| `screen` | does the screen show the text, its colours, the status bar and the menus after every key, and is what is remembered of the terminal true? | five terminals; screens of 4 by 6 and 5 by 6, also resized to 3 by 5 and 5 by 7; texts of 5 lines up to 8 characters, with tabs and wide characters; up to 4 commands, up to 2 of them in a macro |
| `undo_saveall` | *violation*: SaveAll does not move the saved step | 2 steps |
| `undo_cancel` | *violation*: a cancelled Save moves it | 2 steps |
| `text_memory` | *violation*: an insertion that runs out of memory records more than it inserted | as `text_lines` |
| `blocks_bookmarks` | *violation*: a paste beyond the end of a line leaves `<` and `>` after the text | as `blocks` |

Two bytes distinguish any two positions' contents; two steps give a deletion
and an insertion in either order, undone one by one or together, and a
recording below the end; three steps give a chain of two next to another
command, which the history needs. `MaxText` 2 lets deletions run past the end
of the text (a deletion of 2 at the last byte). What larger values would show
is covered by the proofs, which have no bounds.

With pools of 2 bytes a document of 3 needs two of them, so lines move between
pools, grow on either side of themselves, take bytes lost in the middle of a
pool, and pools come and go: every branch of the allocators, of a join and of
both failures is taken in `text_lines`. The files have an empty line first, an
empty line last, or none; one is full, so that the exact size of what is left
in a pool matters. Marks do not act on each other, so one stands for
all of them; the mark and a bookmark are adjusted by the same code twice.
`MaxPools` and `MaxDescPools` are larger than the document can need.

Two commands of `Blocks` are enough for each pair that interacts: a filter or a
clip brings in several lines and bookmarks, and the second command works on a
block around, before or after them. The rest of a document does not matter to a
block, so six characters, of which up to three lines, show every relation
of mark, cursor and line ends.

In `editing` the text is a few columns wider and two lines longer than the
screen, so that every move scrolls somewhere; the larger screen shows all of
it. Loops are cut off after 12 rounds: a text of 5 characters has at most 7
empty matches, so that a loop that reaches the bound does not end, and
`CommandEnds` reports it.

In `interaction` each scenario has just enough keys to open what it is about, to
disturb it twice and to take the answer. The window of 3 by 9 shows 1 or 2 rows
of 1 to 4 columns, so that lists have several pages and a resize lays them out
again. In the scenarios of keys the user types ahead of the program, and a
pause may fall anywhere; three keystrokes give an unfinished character followed
by two keys, in a buffer with room for more than the longest.

In `screen` a text is longer and wider than the screen, and the syntax has a
comment that goes over lines (one character typed changes the colours of all
that follows), a keyword, and a string that its own delimiter ends and that
calls another syntax. The terminals are chosen for what they cannot do: `Xterm`
does everything, `Ansi` has no scroll region, `Vt102` inserts only by a mode and
resets everything with the end of standout, `Vt52` has nothing that stands out,
`Dumb` clears nothing but the whole screen; the last two do not wrap. Two
commands reach any shortcut of the display from any other, since what they
leave to each other is the state of one line and what is on the screen.

Deadlock is checked where the system never stops, since a command is always
possible at the prompt. In `interaction` and `screen` it is not: there a
scenario ends with its last key (`left`), where the program waits.

### Fairness

In `UndoBuffer` only the loops of UNDO_A and REDO_A are fair (`WF_vars(Loop)`),
in `Session` the steps of a macro,
in `Editing` only the rounds of InsertTab and of a replacement of everything
(`WF_doing(GoOn)`): once entered they run without waiting for anything. Nothing
obliges the user to give a command or to answer a question, and the end of a
chain is not assumed either. `LoopsEnd`, `CommandEnds` and `MacrosEnd` are the liveness
properties, and they are model-checked only.

## Proofs

`UndoBufferProofs` proves, for every alphabet, initial text, set of commands
and bound, that `IInv` is inductive. `UndoRedoExact` alone is not: to know that
a turn of `undo()` restores `ver[cur_step]` one needs to know what the undo
stream holds below `cur_stream`, which is `UndoStreamOK`; that the step says
how the two texts differ, which is `StepsOK`; and that the redo stream will
hold the bytes needed later, `RedoStreamOK`. The argument follows the code: a
recording cuts the stream where `cur_stream` is (`RecordKeepsCore`), an undo
turn hands bytes from the text to the redo stream or from the undo stream to
the text (`UndoKeepsCore`), a redo turn does the opposite (`RedoKeepsCore`).
The two facts about texts that carry it are `InsertUndoesDelete` and
`DeleteUndoesInsert` in `FlatTextProofs`.

The second half of `UndoBufferProofs` adds two invariants on top of `IInv`:

* `ChainInv`: the last step done is linked only inside an open chain, and the
  last step of all only while its chain is open; hence the assertion of
  `start_undo_chain()` and the level in the status bar (`ChainsStayApart`).
  It is assumed that the DoUndo command is not given, with which it is false.
* `SaveInv`: the saved step, if there is one, is one at which the text is what
  the file holds, and an unmodified document is what its file holds
  (`FlagTellsTheTruth`), with the commands of `FlagCommands`. Each command left
  out breaks it: SaveAll and a cancelled Save as the runs show; a failed Save
  because the file is truncated first; UTF8 and DoUndo because they reset the
  saved step to 0; Modified because it sets the flag to anything.

`PromiseKept` is the refinement: `UndoBuffer` implements `UndoHistory`, for every
alphabet, initial text within `MaxText`, bound and set of commands without DoUndo
(which clears the AtomicUndo flag and leaves `link_undos` as it was: TLC refutes
`KeepsHistory` in two commands when DoUndo is added to the run). Its invariant `PromiseInv` adds to `IInv` and `ChainInv`
that in the modes "idle", "undo" and "redo" the current step is the last one of a
chain (`StopInv`), and that every version fits in `MaxText` (`SizeInv`). The
mapping counts: a version is the rank of a step among the `Stops`. So the first
lemmas are about ranks in any finite set of numbers: each rank from 1 belongs to
exactly one number (`RankOnto`), and a set that is cut at `p` and gets one more
number keeps its first versions (`VersionsExtended`). The second of these is what
a recording does to the `Stops` (`StopsRecorded`): cut at the current step a new
version is made, cut just before it, when the current step is linked, the newest
version is replaced. Then each action is a step of `UndoHistory` or none: `RecordFollows` (Change or
Extend), `SkipFollows` (Replace), `ResetFollows` (Forget), `UndoFollows` and
`RedoFollows` (a turn of a loop moves by one version or is in the middle of a
chain), and `ChainFollows`, since closing a chain unlinks a step that is in
`Stops` already.

The assumptions used are the named ones of `UndoBuffer`. The liveness property is
model-checked only: TLAPS does not do fairness.

`KeysProofs` proves `GivesUpLast` for a table of any size with keys of any
length, and for any bytes, pauses and signals. It assumes `TableOK`: the
strings are not empty and the table is in its order, which `WhatIsMeant` checks
for the tables of the scenarios; that `binsearch()` finds the place that keeps
it is a fact about a recursive function, out of reach of the prover. `KInv` says
what `get_key_code()` does not remember: each key before `cur_key` parts from
the buffer at some byte, where the key is greater (`KeysBefore`); `cur_key`
agrees with all that was matched and is longer (`KeyAgrees`); and a key is tried
only on a buffer that begins no UTF-8 character (`Utf8First`). Without the first
nothing is known of the keys that were passed when the function gives up; they
stay passed although bytes are added while it waits, which is `PartLonger`.
`LaterDiffers` is about the keys that were never tried: the order of the table
and `PrefixFree` make each of them part from the buffer too. Both hypotheses
are needed; the comment in keys.c admits the second.

`TextLinesProofs` is about the turns of `insert_stream()` and
`delete_stream()`, for every file, stream and amount of memory. Its `Inv` has
four parts: the lines have lengths (`LinesInv`), the place where a function
works is in the document (`PlaceInv`), so are the marks (`MarksInv`), and the
undo step is too long by what is left to delete, or too short by what is left
of the stream (`OwedInv`). `DeletionsRecorded` follows from the last one: a
deletion that the end of the document or the memory cuts short leaves a step of
the right length. `MarksStay` needs that between a piece and the line end after
it no mark lies inside the piece, or `BreakLine` would give it a negative
position. It says that marks are on lines that exist, and that is what is left of
them after a join without memory (`MarksUp`): they may be past the end of a line
that was not joined. That the lines of a file have lengths at all rests on `Ranked`: the
line ends of a file can be numbered in order.

`MemoryIsOwned` is about the memory. `MemoryOwned` is not inductive, and `MemInv`
strengthens it in three ways: the pools have their types, and the list of pools
has each of them once (`ArePools`, `AreDescs`), without which a pool could be
tried twice or freed and still be in the list; the bytes in use are those of the
lines (`OwnedBy`), so that what a function is given to free is in use; and what
the text has, together with what is still to be inserted, is within `MaxText`,
so that there is an identity for a new pool. `MaxText` bounds the text and not
the memory: it may be any number, and `MaxPools` and `MaxDescPools` any larger
one (`LineBounds`).

The proof has three layers. `PoolProofs` says what each function does to the set
of addresses in use: `Gives`, when bytes that were free come into use, `Takes`,
when bytes in use become free, the pools being right before and after. A pool is
not right between the two halves of an allocation, when its bounds are ahead of
its bytes: `IsRaw` is what holds there, and `AllocGives` and `AroundGives` are
about `alloc_chars()` and `alloc_chars_around()` *with* the copy that follows in
each caller. That `free_chars()` finds the new bounds is `FreeTakes`, with one
case for each end of a pool. The second layer is about lines, whatever made
them: when the bytes of one line are moved (`LineMoved`), a line is broken
(`LineBroken`) or two are joined (`LinesJoined`), every byte is of one line
still. The third one brings the actions to these: of `InsertPiece`, `JoinLines`
and `DeleteInLine` each branch moves the bytes of the line to those it has after
it (`PieceInEmpty`, `PieceAround`, `PieceMoved`; `JoinedInPlace`, `JoinedAround`,
`JoinedElsewhere`; `EndDeleted`, `HeadDeleted`). For the descriptors, `AllocDesc`
and `FreeDesc` say the same of the set of descriptors in use. At first the bytes
of a file are those of its lines because two breaks that follow each other have
none between them (`NoneBetween`), and each byte lies after some last break
(`LineHasIt`).

`FlatDocumentProofs` proves the refinement (`DocumentImplemented`): which byte is
where, and where the marks are. The flattened text is a function on offsets, and
the offset of a line is the number of places before it (`Start`, a cardinality,
where a recursive sum would be out of reach of the prover). Its three parts are:

* What a change of the lines is to the flattened text: bytes put into a line are
  inserted at its offset, a break inserts a line feed, a join deletes one
  (`Splice`, `PutIn`, `BreakAt` and what is around them). All rest on `Start`
  growing with the line.
* What an action does to the texts of the lines. `PoolProofs` says which bytes
  come into use and that those in use keep their values; as no other line has
  them (`MemoryIsOwned`), the other lines read the same (`OtherRead`), and the
  line at hand reads what was copied (`PiecePut`, `PieceTaken`, `LineCut`,
  `LinesTied`). Without `MemoryOwned` a line could be overwritten by an insertion
  in another one, and nothing would follow.
* The actions. Each turn is a step of `FlatDocument` or none (`StepIsFlat`): a
  piece and a line end are insertions of at least one byte, a deletion within a
  line or of its end is a deletion. The offsets of the marks follow theirs
  (`MarkPut`, `MarkTaken`, `MarkBroken`, `MarkTied`).

A function that returns for lack of memory is a `GiveUp` of `FlatDocument`
(`ReturnIsEnd`). The text stays as it is. So do the marks when an insertion
returns, but not when a deletion does: `delete_stream()` moves the mark and the
bookmarks (buffer.c:979-995) before it asks for the memory of the joined line
(1008) and does not move them back (1019-1022). `MarksGivenUp` therefore lets a
mark after the offset of the deletion be anywhere from that offset to the byte
before its own, or past the end of a line, and holds those up to the offset in
place; `MarkLost` and `MarksAreLost` prove that the code does no worse. A join
that succeeds, and everything else, has the marks follow their bytes.

`Inv` and `MemInv` do not suffice for the third part. `TurnInv` adds what holds
between two turns: the variable of the other loop has nothing in it; a piece that
is put in and not passed over has a line end after it, or was the last; and no
mark of the line is in such a piece. Without the last one the line end that
`BreakLine` inserts *after* the piece would move a mark that belongs before it.

`BlocksProofs` proves `EncodingSound` and `OneUndoStep` for files, clips and
what filters write of any length, and any tab size (`EncodingIsSound`,
`OneStepToUndo`). `IInv` says of the current document that its points are on its
lines and its characters are `Allowed` in its encoding, and of each clip that its
encoding holds its characters. Both must be proved of the whole command, which
is made of many insertions and deletions, hence of the operators of `DocLines`:

* Most lemmas have a set `C` of characters as a parameter: a document whose
  characters are in `C` (`Docs(C)`) remains one when a stream over `C` is
  inserted (`InsertDoc`) or characters are deleted (`DeleteDoc`). A command is
  then an instance of them for the characters that the encoding it ends with
  allows, and the only facts about encodings are that `Detect` and
  `set_stream_encoding()` choose one that holds the text, and that the spaces
  that fill a line are in all of them.
* The undo steps are counted along the command. `Counts(ls, n, d)` is what holds
  in `n` open chains: nothing has been recorded and the lines are still `ls`, or
  there is one group of steps, and it is open. Each operation recorded within a
  chain keeps it (`StepsCount`), and closing the last chain gives `OneStep`.
  `Ready` excludes what would begin a second group: recording something outside
  all chains when there is a group already.
* A loop is a fold or a function that is defined step by step. What holds at each
  step of it is proved without an induction principle: the steps at which the
  function exists, or the fact holds, are a set of numbers that has 0 and, with
  each number, the next one; a set of this kind has them all because otherwise there
  is a least number it lacks (`UpTo`, from `Least` in `FlatTextProofs`).
  `FoldExists` and `RunExists` say so for folds, for a given relation between a
  step and the next one.
* `Cut` and `Erase` go through the lines of a rectangle one by one (`GoneTo`: the
  lines not yet reached are as they were), `PasteVert` adds rows, and a row may
  need new lines and spaces (`PastesTo`: the document has grown and the place of
  the next row is in it, which is `Longer`). That the cursor is in the document at the
  end comes from these, and not from the position the code computes.

`SessionProofs` proves `SessionSound` (`SessionStaysSound`) for any number of
documents, any scenarios, and files, macros, preferences and command lines of any
length: the list of documents, the order in which they were used and the
documents themselves are the same set after every command, with the current one
in it. Open is where this is hard to see. It adds a document before the file is
read, takes the preferences of its extension, and if reading fails deletes it and
goes back, with macros and prompts in between; `OpenFreshGoes` follows it through each
way out. The assumptions are what the types of the C variables give: the files and
lines of a scenario are sequences and the numbers are numbers
(`ScenarioAssumption`), the limits are numbers (`LimitsAssumption`,
`SizesAssumption`), there are buffers and NULL is none (`DocsAssumption`), and
numbers are read and written in some base (`DigitsAssumption`).

`SessionSound` is not inductive, and not even what holds along a command: while
preferences are played a document has `exec_only_options` set, after an exit no
document is left, and while the requester sorts its entries the list is empty. So
the proof has three levels:

* `Fine(E, t)` is what an operation needs of the state `t` within a command: the type
  of every field (a text has a line, a frame has a place in its macro, a file
  is a sequence), the two orders as orders of the documents that exist, and `E` as the
  only documents that execute nothing but options. `Stays` says that an operation keeps
  `Fine`, the mode, and the list as it was; `Goes` that it keeps `Fine` and the
  mode and may change the list. Each operation of `Documents` has a lemma in one of
  these forms, for any `E`: loading preferences is the operation that uses them with its
  own document in `E` and takes it out again (`OnlyOptionsStays`), whatever a line
  of the preferences is. `Follows` composes them.
* `Comes(t, r)` is what is left of a whole command, where it may also have ended the
  session or shown the list of documents; `PerformComes` is the dispatcher, command by
  command, and `LineComes` a line of a macro or of the user.
* `IInv` is about the states between two steps. A session that goes on is `Fine({}, s)`,
  and no error is left over when no macro is played (`AtRest`). While the
  requester reorders its entries, `Moves` says that the order that is being put
  back is one of all documents. Nothing is claimed after an exit or a
  fatal signal, where an error may be left over; this is why `SessionSound` asks
  for the mode.

Nothing is proved about `Editing`, `Interaction` and
`Screen`: their properties are model-checked, as `ReqList`, `EditLines`, `Syntax`
and the modules above them use recursive operators, which the prover does not
take. Of `Session`, `MarkTells` and `RecordsWhatIsDone` compare a step with what was
written or played before it, which needs an invariant about the contents of files
and of recordings that `IInv` does not have; `MacroTextSound` and `FilesSound` say what loops
over data compute. `NothingLost` could not be a theorem for any scenario: in an
emergency two documents whose names end in the same file part are saved
to the same file, and read-only documents are not saved. Of `Blocks`, `BlockReplaced` and `VerticalCutPastesBack` stay with TLC: they
say what the folds compute, and not what each of their steps keeps. Liveness,
here as in `UndoBuffer`, stays with TLC.

## Where the code does not do what it should

Four runs show a disagreement with a line of the documentation or the code
(`undo_saveall`, `undo_cancel`, `text_memory`, `blocks_bookmarks`). Others were
met while modelling; the models follow the code, and the scenarios or a guard
with a comment keep out of the situations in which a property would not hold.
What concerns cursor, documents and macros is told above. The rest:

Text:

- A deletion that has no memory to join two lines leaves them apart, but "adjust
  mark and bookmarks accordingly" (buffer.c:979) has been done: marks of the second
  line are past the end of the first one, and those after it a line too high
  (buffer.c:979-995, 1008, 1019-1022). `GiveUp` allows exactly that.

Requesters, input line, completion:

- NextDoc and PrevDoc in a pruned list swap two places of the order by their
  positions among the entries shown (request.c:556), and so move others.
- `input_refresh()` sets `ib.x` in bytes (input.c:309, against the comment at
  input.c:47); `input_autocomplete()` subtracts columns from bytes (input.c:371)
  and takes the encoding of the completion even if it is ASCII (input.c:356).
- `input_paste()` of a line of the history uses the encoding of a clip that may
  not be there, and a paste, completion or default that is cut at the length of
  the buffer may end within a character.
- A quoted name loses its quote when completed in another encoding.
  `complete_filename()` takes everything after the *first* space (input.c:748),
  where the documentation speaks of the last word.
- `autocomplete()` sorts the entries but not their lengths (autocomp.c:140).
- In a history of one line the line to compare with is the head of the list.
- `right` at the last row of a column that is not full stays where it is.
- While the requester of files is open, a fatal signal saves relative to the
  directory that is browsed.

Keys:

- A key that another one begins with is missed, as the comment in keys.c says;
  of two capabilities with the same string the one that `qsort()` puts first
  counts.
- A SEQ line whose sequence begins a key of the table binds that longer key
  instead (keys.c, `key_may_set()`), where the documentation says the sequence.
- With EscapeTime 0 a lone Escape is given when the next byte comes.
- A resize within a key gives Escape and then characters. Two signals before
  the first is noticed lose it: `window_changed_size = ttysize()`
  (signals.c:153) is 0 the second time.

Display, menus, terminal:

- `goto_line_pos()` to a line that is visible restates the lines with row -1
  (navigation.c:695), so that visible lines keep the colours of the old text
  (`Reaches`).
- `update_inserted_char()` takes the attributes of the last `parse()` for those
  of the line, `update_overwritten_char()` draws each character with the colour
  of the one before it when a tab follows (display.c:595), and without `ich`
  leaves the cursor one place too far (display.c:644) (`Shows`).
- InsertLine on the last row, with a syntax and without a scroll region, notes
  colours for a line which `scroll_window()` then blanks (actions.c:848-903)
  (`INSERTLINE_A`).
- A message shown earlier by a macro is lost by Refresh and Suspend until the
  next key (`REFRESH_A`, `SUSPEND_A`); without `el`, a message with no status
  bar is written at the end of its line (`STATUSBAR_A`).
- After a suspension the attributes are reset on the device and not in
  `curr_attr`, where `rmso` is not `sgr0` (`SUSPEND_A`).
- MoveEOL in the menus goes to a menu beyond the screen, NextPage to an item
  below it (`MenuLast`, `MenuPageDown`). A menu over a wide character at its
  left side loses it.
- Word wrap with a line to be updated later by TURBO pokes the state of the old
  line into the next one (actions.c:717), and with the window moved to the right
  gives `update_line()` a negative column. A `memmove()` lacks the size of its
  elements (actions.c:790).
- REFRESH clears the screen before it asks for the size (actions.c:1101). A
  partial `update_line()` that starts in a wide character blanks it. On
  terminals that do not wrap, text past the edge would overwrite the last
  column. Control characters inserted without a syntax are not inverse until the
  line is drawn again.

Elsewhere: `TabSize 0` is accepted (actions.c:1341); an Undo within a bracketed
paste under AtomicUndo makes `link_undos` -1; one of the assertions about the
cursor assigns instead of comparing (navigation.c:241).

## What the models leave out

- Memory that runs out, but for the text (`TextLines`) and the lists of
  documents: in the undo buffer itself, in requesters, clips and macros.
- In `TextLines`: insertions and deletions while DoUndo is off; whether a pool
  is mapped, and two pools that happen to be adjacent in memory (buffer.c:1000
  would join lines across them).
- The widths of UTF-8 characters in the commands about the text: a character is
  one position there, and one or two columns. `Utf8` has bytes, for the input
  line, completion and keys. `next_pos()` reads past the end of a line when a
  paste is at the end.
- Help, System, KeyCode, Alert, Beep, and the regular expressions themselves
  (`regex*.c` is GNU code; `Search` has what is around them).
- What is read when ne starts: terminal descriptions (`info2cap.c`, `tparam.c`,
  `ansi.c`), key bindings and menus (`keys.c`, `menu.c`), syntaxes
  (`syntax.c` from its reader on), and the hash tables of keywords. What they
  leave is an input of the models.
- The direct interface of the fast GUI, and the drawing of Cut, Erase, Paste,
  Paragraph and Replace, which refresh the window as a whole.
- Two windows of time: signals that come while a command draws or edits. The
  code blocks them in the second case; the counter of `block_signals()` is not
  modelled.

## Plan

Done, in this order: `UndoBuffer` with `UndoHistory` and proofs, the refinement
among them; the pools and
`TextLines` with `FlatDocument` and proofs; `DocLines` and `Blocks` with proofs; `Cursor`, `Search`,
`EditLines` and `Editing`; `Files`, `Paths`, `Commands`,
`Documents` and `Session`; the modules up to `Interaction`; those up
to `Screen`; `Keys` and `Keyboard` with proofs; `PoolProofs`, what it says of
`TextLines`, and the refinement of `FlatDocument`; proofs about `Blocks` and
`Session`.

What is left, the most useful first:

1. Lemmas about `Utf8` (a character that is written is the one that is read) and
   about `Terminal` (each function keeps `DeviceKnown`), for any terminal.
2. The drawing of the block commands and of paragraphs in `Screen`, with the
   mark.
3. The reader of syntaxes and of key bindings, as functions from lines to the
   automata and tables that `Syntax` and `Keys` take.
