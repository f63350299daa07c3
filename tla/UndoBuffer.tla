----------------------------- MODULE UndoBuffer -----------------------------
(***************************************************************************)
(* The undo system of ne: undo.c, the recording done by insert_stream()    *)
(* and delete_stream() (buffer.c), and the commands of actions.c that      *)
(* touch the undo buffer of a document or its "modified" flag.             *)
(*                                                                         *)
(* A document is one sequence of bytes, a line feed being the byte between *)
(* two lines, as delete_stream() counts it; a (line, pos) pair is the      *)
(* number of bytes before it.  Memory never runs out here: the requests    *)
(* of insert_stream() and of the undo buffer succeed.                      *)
(***************************************************************************)
EXTENDS FlatText, FiniteSets

CONSTANTS
  Char,       \* the bytes of a document
  Text0,      \* what the file of the document holds when it is loaded
  MaxText,    \* bound: no insertion makes the text longer than this
  MaxIns,     \* bound: longest stream inserted or deleted at once
  MaxSteps,   \* bound: no more undo steps than this are recorded
  MaxLink,    \* bound: deepest nesting of undo chains
  Commands    \* the commands the user may give beside editing and undoing

UserCommands ==
  {"AtomicUndo", "Save", "SaveCancelled", "SaveFailed", "SaveAll",
   "DoUndo", "UTF8", "Clear", "Modified", "ReadOnly"}

ASSUME CharAssumption == Char # {}
ASSUME TextAssumption == Text0 \in Seq(Char)
ASSUME BoundAssumption ==
  MaxText \in Nat /\ MaxIns \in Nat /\ MaxSteps \in Nat /\ MaxLink \in Nat
ASSUME CommandsAssumption == Commands \subseteq UserCommands

VARIABLES
  text,           \* the contents of the document
  saved,          \* what its file holds, as ne last read or wrote it
  steps,          \* undo.steps[0 .. last_step - 1]
  cur_step,       \* undo.cur_step: steps done and not undone
  streams,        \* undo.streams[0 .. last_stream - 1], the deleted bytes
  cur_stream,     \* undo.cur_stream
  redo,           \* undo.redo, the bytes that redoing inserts again
  last_save_step, \* undo.last_save_step, -1 when no step is the saved one
  link_undos,     \* b->link_undos, depth of the open undo chains
  atomic_undo,    \* b->atomic_undo, the user's AtomicUndo is on
  do_undo,        \* b->opt.do_undo
  read_only,      \* b->opt.read_only
  is_modified,    \* b->is_modified
  busy,           \* undo chains opened by the command being executed
  mode,           \* where UNDO_A or REDO_A is, see Modes
  ver, vsp, vrp   \* history: see below

(***************************************************************************)
(* The history variables record what undo and redo should bring back.      *)
(* Position i of each is the moment when i-1 steps are done: ver is the    *)
(* text then, vsp the value of cur_stream and, for a moment that has been  *)
(* undone, vrp the length of the redo stream (0 for the earlier ones).     *)
(***************************************************************************)
history   == <<ver, vsp, vrp>>
stepVars  == <<steps, cur_step, streams, cur_stream, redo, history>>
chainVars == <<link_undos, atomic_undo, busy>>
optVars   == <<do_undo, read_only>>
fileVars  == <<saved, last_save_step, is_modified>>
vars == <<text, stepVars, chainVars, optVars, fileVars, mode>>

(***************************************************************************)
(* A step is an insertion when len < 0 and a deletion when len > 0.  The   *)
(* code marks a step linked to the next one by storing -pos-1 for pos.     *)
(***************************************************************************)
Step == [off : Nat, len : Int, linked : BOOLEAN]

(* "undo": UNDO_A is about to test its for loop; "undoing": it is inside   *)
(* the do-while loop of undo().  "redo" and "redoing" likewise.            *)
Modes == {"idle", "undo", "undoing", "redo", "redoing"}
-----------------------------------------------------------------------------
Linked(i) == steps[i].linked
-----------------------------------------------------------------------------
Init ==
  /\ text = Text0 /\ saved = Text0
  /\ steps = <<>> /\ cur_step = 0
  /\ streams = <<>> /\ cur_stream = 0 /\ redo = <<>>
  /\ last_save_step = 0
  /\ link_undos = 0 /\ atomic_undo = FALSE /\ busy = 0
  /\ do_undo \in BOOLEAN /\ read_only \in BOOLEAN
  /\ is_modified = FALSE
  /\ mode = "idle"
  /\ ver = <<Text0>> /\ vsp = <<0>> /\ vrp = <<0>>

(* No command is running: the main loop may take another one.              *)
AtPrompt == mode = "idle" /\ busy = 0

(***************************************************************************)
(* A definition named Bad... is the definition after it with a plausible   *)
(* mistake.  Nothing uses it: it is there to be put in the place of the    *)
(* right one, to see that the property about it can fail.                  *)
(***************************************************************************)
(* The steps that had been undone go, but not what is said of them.        *)
Bad_add_undo_step_keeps_saved(o, n, bytes, t) ==
  /\ steps' = Append(SubSeq(steps, 1, cur_step),
                     [off |-> o, len |-> n, linked |-> link_undos # 0])
  /\ cur_step' = cur_step + 1
  /\ streams' = SubSeq(streams, 1, cur_stream) \o bytes
  /\ cur_stream' = cur_stream + Len(bytes)
  /\ redo' = <<>>
  /\ last_save_step' = last_save_step
  /\ ver' = Append(SubSeq(ver, 1, cur_step + 1), t)
  /\ vsp' = Append(SubSeq(vsp, 1, cur_step + 1), cur_stream')
  /\ vrp' = [i \in 1 .. cur_step + 2 |-> 0]

(* The deleted bytes are appended after those of the steps undone.         *)
Bad_add_undo_step_keeps_stream(o, n, bytes, t) ==
  /\ steps' = Append(SubSeq(steps, 1, cur_step),
                     [off |-> o, len |-> n, linked |-> link_undos # 0])
  /\ cur_step' = cur_step + 1
  /\ streams' = streams \o bytes
  /\ cur_stream' = cur_stream + Len(bytes)
  /\ redo' = <<>>
  /\ last_save_step' = IF last_save_step > cur_step THEN -1 ELSE last_save_step
  /\ ver' = Append(SubSeq(ver, 1, cur_step + 1), t)
  /\ vsp' = Append(SubSeq(vsp, 1, cur_step + 1), cur_stream')
  /\ vrp' = [i \in 1 .. cur_step + 2 |-> 0]

(* add_undo_step() records a step that brings the document to text t, the  *)
(* bytes it deletes go to the undo stream by add_to_undo_stream(); steps   *)
(* that had been undone are forgotten, and the redo stream is reset.       *)
add_undo_step(o, n, bytes, t) ==
  /\ steps' = Append(SubSeq(steps, 1, cur_step),
                     [off |-> o, len |-> n, linked |-> link_undos # 0])
  /\ cur_step' = cur_step + 1
  /\ streams' = SubSeq(streams, 1, cur_stream) \o bytes
  /\ cur_stream' = cur_stream + Len(bytes)
  /\ redo' = <<>>
  /\ last_save_step' = IF last_save_step > cur_step THEN -1 ELSE last_save_step
  /\ ver' = Append(SubSeq(ver, 1, cur_step + 1), t)
  /\ vsp' = Append(SubSeq(vsp, 1, cur_step + 1), cur_stream')
  /\ vrp' = [i \in 1 .. cur_step + 2 |-> 0]

(* With do_undo off nothing is recorded, and the steps stay those there were. *)
skip_undo_step(t) ==
  /\ ver' = [ver EXCEPT ![cur_step + 1] = t]
  /\ UNCHANGED <<steps, cur_step, streams, cur_stream, redo, last_save_step, vsp, vrp>>

(* A command inserts the stream s at offset o (insert_stream).             *)
InsertStream(o, s) ==
  /\ mode = "idle" /\ ~read_only
  /\ Len(text) + Len(s) <= MaxText
  /\ text' = Insert(text, o, s)
  /\ IF do_undo THEN cur_step < MaxSteps /\ add_undo_step(o, -Len(s), <<>>, text')
                ELSE skip_undo_step(text')
  /\ is_modified' = TRUE
  /\ UNCHANGED <<chainVars, optVars, saved, mode>>

(* A command deletes n bytes at offset o (delete_stream).  The step is     *)
(* recorded for n bytes and fix_last_undo_step() takes away those beyond   *)
(* the end of the document, where the deletion stops.                      *)
DeleteStream(o, n) ==
  /\ mode = "idle" /\ ~read_only
  /\ o < Len(text)
  /\ text' = Delete(text, o, n)
  /\ LET bytes == Slice(text, o, n)
     IN  IF do_undo THEN cur_step < MaxSteps /\ add_undo_step(o, Len(bytes), bytes, text')
                    ELSE skip_undo_step(text')
  /\ is_modified' = TRUE
  /\ UNCHANGED <<chainVars, optVars, saved, mode>>
-----------------------------------------------------------------------------
(* start_undo_chain() and end_undo_chain(), as a command calls them around *)
(* the insertions and deletions that are to be undone together.            *)
Unlink(i) == [steps EXCEPT ![i].linked = FALSE]

(* The first step of the undo buffer is forgotten.                         *)
BadCloseChain(n) ==
  steps' = IF n = 0 /\ cur_step > 1 THEN Unlink(cur_step) ELSE steps

(* The chain whose depth becomes n: at 0 the last step is linked no more.  *)
CloseChain(n) ==
  steps' = IF n = 0 /\ cur_step > 0 THEN Unlink(cur_step) ELSE steps

StartChain ==
  /\ mode = "idle" /\ ~read_only
  /\ link_undos < MaxLink
  /\ link_undos' = link_undos + 1
  /\ busy' = busy + 1
  /\ UNCHANGED <<text, stepVars, atomic_undo, optVars, fileVars, mode>>

EndChain ==
  /\ mode = "idle" /\ busy > 0
  /\ link_undos' = link_undos - 1
  /\ busy' = busy - 1
  /\ CloseChain(link_undos - 1)
  /\ UNCHANGED <<text, cur_step, streams, cur_stream, redo, history,
                 atomic_undo, optVars, fileVars, mode>>

(* ATOMICUNDO_A: the user asks for level c ("0", "-", "+" or a toggle).    *)
AtomicUndo(c) ==
  /\ AtPrompt /\ "AtomicUndo" \in Commands
  /\ do_undo
  /\ c \in {0, link_undos - 1, link_undos + 1} \cap 0 .. MaxLink
  /\ link_undos' = c
  /\ atomic_undo' = (c > 0)
  /\ IF link_undos > 0 THEN CloseChain(c) ELSE UNCHANGED steps
  /\ UNCHANGED <<text, cur_step, streams, cur_stream, redo, history,
                 busy, optVars, fileVars, mode>>
-----------------------------------------------------------------------------
(* UNDO_A: an open AtomicUndo is closed first, then undo() is called until *)
(* the count is exhausted, the user interrupts or nothing is left.         *)
UndoBegin ==
  /\ AtPrompt /\ ~read_only /\ do_undo
  /\ mode' = "undo"
  /\ IF atomic_undo
       THEN /\ atomic_undo' = FALSE
            /\ link_undos' = 0
            /\ IF link_undos > 0 THEN CloseChain(0) ELSE UNCHANGED steps
       ELSE UNCHANGED <<atomic_undo, link_undos, steps>>
  /\ UNCHANGED <<text, cur_step, streams, cur_stream, redo, history,
                 busy, optVars, fileVars>>

(* The bytes to insert again are kept in the order in which they are undone. *)
BadUndoStep ==
  /\ \/ mode = "undo" /\ cur_step > 0
     \/ mode = "undoing"
  /\ cur_step' = cur_step - 1
  /\ LET st == steps[cur_step]
     IN  IF st.len < 0
         THEN /\ text' = Delete(text, st.off, -st.len)
              /\ redo' = Slice(text, st.off, -st.len) \o redo
              /\ UNCHANGED cur_stream
         ELSE /\ cur_stream' = cur_stream - st.len
              /\ text' = Insert(text, st.off, SubSeq(streams, cur_stream' + 1, cur_stream))
              /\ UNCHANGED redo
  /\ is_modified' = TRUE
  /\ mode' = IF cur_step' > 0 /\ Linked(cur_step') THEN "undoing" ELSE "undo"
  /\ vrp' = [vrp EXCEPT ![cur_step] = Len(redo')]
  /\ UNCHANGED <<steps, streams, ver, vsp, chainVars, optVars, saved, last_save_step>>

(* One turn of the do-while loop of undo(): delete what the step inserted, *)
(* keeping its bytes for redo(), or insert what it deleted.                *)
UndoStep ==
  /\ \/ mode = "undo" /\ cur_step > 0
     \/ mode = "undoing"
  /\ cur_step' = cur_step - 1
  /\ LET st == steps[cur_step]
     IN  IF st.len < 0
         THEN /\ text' = Delete(text, st.off, -st.len)
              /\ redo' = redo \o Slice(text, st.off, -st.len)
              /\ UNCHANGED cur_stream
         ELSE /\ cur_stream' = cur_stream - st.len
              /\ text' = Insert(text, st.off, SubSeq(streams, cur_stream' + 1, cur_stream))
              /\ UNCHANGED redo
  /\ is_modified' = TRUE
  /\ mode' = IF cur_step' > 0 /\ Linked(cur_step') THEN "undoing" ELSE "undo"
  /\ vrp' = [vrp EXCEPT ![cur_step] = Len(redo')]
  /\ UNCHANGED <<steps, streams, ver, vsp, chainVars, optVars, saved, last_save_step>>

(* The end of UNDO_A: the document is modified unless this is the step at  *)
(* which it was last saved.                                                *)
UndoEnd ==
  /\ mode = "undo"
  /\ mode' = "idle"
  /\ is_modified' = (cur_step # last_save_step)
  /\ UNCHANGED <<text, stepVars, chainVars, optVars, saved, last_save_step>>

(* REDO_A calls redo() likewise, without touching AtomicUndo.              *)
RedoBegin ==
  /\ AtPrompt /\ ~read_only /\ do_undo
  /\ mode' = "redo"
  /\ UNCHANGED <<text, stepVars, chainVars, optVars, fileVars>>

(* redo() does one step at a time, whatever the links.                     *)
BadRedoStep ==
  /\ \/ mode = "redo" /\ cur_step < Len(steps)
     \/ mode = "redoing"
  /\ cur_step' = cur_step + 1
  /\ LET st == steps[cur_step + 1]
     IN  IF st.len < 0
         THEN LET left == Len(redo) + st.len
              IN  /\ text' = Insert(text, st.off, SubSeq(redo, left + 1, Len(redo)))
                  /\ redo' = SubSeq(redo, 1, left)
                  /\ UNCHANGED cur_stream
         ELSE /\ text' = Delete(text, st.off, st.len)
              /\ cur_stream' = cur_stream + st.len
              /\ UNCHANGED redo
  /\ is_modified' = TRUE
  /\ mode' = "redo"
  /\ vrp' = [vrp EXCEPT ![cur_step + 1] = 0]
  /\ UNCHANGED <<steps, streams, ver, vsp, chainVars, optVars, saved, last_save_step>>

(* One turn of the do-while loop of redo(): insert again the last bytes of *)
(* the redo stream, or delete again what the undo stream still holds.      *)
RedoStep ==
  /\ \/ mode = "redo" /\ cur_step < Len(steps)
     \/ mode = "redoing"
  /\ cur_step' = cur_step + 1
  /\ LET st == steps[cur_step + 1]
     IN  IF st.len < 0
         THEN LET left == Len(redo) + st.len
              IN  /\ text' = Insert(text, st.off, SubSeq(redo, left + 1, Len(redo)))
                  /\ redo' = SubSeq(redo, 1, left)
                  /\ UNCHANGED cur_stream
         ELSE /\ text' = Delete(text, st.off, st.len)
              /\ cur_stream' = cur_stream + st.len
              /\ UNCHANGED redo
  /\ is_modified' = TRUE
  /\ mode' = IF cur_step' < Len(steps) /\ Linked(cur_step') THEN "redoing" ELSE "redo"
  /\ vrp' = [vrp EXCEPT ![cur_step + 1] = 0]
  /\ UNCHANGED <<steps, streams, ver, vsp, chainVars, optVars, saved, last_save_step>>

(* Having nothing left to redo does not end the loop of REDO_A.            *)
BadRedoEnd ==
  /\ mode = "redo" /\ cur_step < Len(steps)
  /\ mode' = "idle"
  /\ is_modified' = (cur_step # last_save_step)
  /\ UNCHANGED <<text, stepVars, chainVars, optVars, saved, last_save_step>>

(* The end of REDO_A, like that of UNDO_A.                                 *)
RedoEnd ==
  /\ mode = "redo"
  /\ mode' = "idle"
  /\ is_modified' = (cur_step # last_save_step)
  /\ UNCHANGED <<text, stepVars, chainVars, optVars, saved, last_save_step>>
-----------------------------------------------------------------------------
(* The step of the save is not remembered.                                 *)
BadSave ==
  /\ AtPrompt /\ "Save" \in Commands
  /\ saved' = text
  /\ is_modified' = FALSE
  /\ UNCHANGED <<text, last_save_step, stepVars, chainVars, optVars, mode>>

(* SAVE_A and SAVEAS_A, after the user has confirmed what is asked.        *)
Save ==
  /\ AtPrompt /\ "Save" \in Commands
  /\ saved' = text
  /\ is_modified' = FALSE
  /\ last_save_step' = cur_step
  /\ UNCHANGED <<text, stepVars, chainVars, optVars, mode>>

(* The user leaves the file requester without choosing a name: nothing is  *)
(* written, but the last lines of SAVEAS_A are reached all the same.       *)
SaveCancelled ==
  /\ AtPrompt /\ "SaveCancelled" \in Commands
  /\ last_save_step' = cur_step
  /\ UNCHANGED <<text, saved, is_modified, stepVars, chainVars, optVars, mode>>

(* The write fails after k bytes: the file was truncated when opened.      *)
SaveFailed(k) ==
  /\ AtPrompt /\ "SaveFailed" \in Commands
  /\ saved' = SubSeq(text, 1, k)
  /\ UNCHANGED <<text, last_save_step, is_modified, stepVars, chainVars, optVars, mode>>

(* SAVEALL_A (and EXIT_A): save_all_modified_buffers() writes the file of  *)
(* a modified document that may be written, and clears its flag.           *)
SaveAll ==
  /\ AtPrompt /\ "SaveAll" \in Commands
  /\ is_modified /\ ~read_only
  /\ saved' = text
  /\ is_modified' = FALSE
  /\ UNCHANGED <<text, last_save_step, stepVars, chainVars, optVars, mode>>

(* reset_undo_buffer() forgets every step; the document then holds t.      *)
reset_undo_buffer(t) ==
  /\ steps' = <<>> /\ cur_step' = 0
  /\ streams' = <<>> /\ cur_stream' = 0 /\ redo' = <<>>
  /\ last_save_step' = 0
  /\ ver' = <<t>> /\ vsp' = <<0>> /\ vrp' = <<0>>

(* DOUNDO_A sets the option to c.                                          *)
DoUndo(c) ==
  /\ AtPrompt /\ "DoUndo" \in Commands
  /\ do_undo' = c
  /\ IF c THEN UNCHANGED <<stepVars, last_save_step, atomic_undo>>
          ELSE reset_undo_buffer(text) /\ atomic_undo' = FALSE
  /\ UNCHANGED <<text, saved, is_modified, link_undos, busy, read_only, mode>>

(* UTF8_A, when the encoding of the document changes.                      *)
UTF8 ==
  /\ AtPrompt /\ "UTF8" \in Commands
  /\ reset_undo_buffer(text)
  /\ UNCHANGED <<text, saved, is_modified, chainVars, optVars, mode>>

(* CLEAR_A, confirmed if need be: the document becomes empty and unnamed.  *)
Clear ==
  /\ AtPrompt /\ "Clear" \in Commands
  /\ text' = <<>> /\ saved' = <<>>
  /\ is_modified' = FALSE
  /\ reset_undo_buffer(<<>>)
  /\ UNCHANGED <<chainVars, optVars, mode>>

(* MODIFIED_A and READONLY_A set a flag.                                   *)
Modified(c) ==
  /\ AtPrompt /\ "Modified" \in Commands
  /\ is_modified' = c
  /\ UNCHANGED <<text, saved, last_save_step, stepVars, chainVars, optVars, mode>>

ReadOnly(c) ==
  /\ AtPrompt /\ "ReadOnly" \in Commands
  /\ read_only' = c
  /\ UNCHANGED <<text, stepVars, chainVars, do_undo, fileVars, mode>>
-----------------------------------------------------------------------------
Streams == UNION {[1 .. n -> Char] : n \in 1 .. MaxIns}

Edit ==
  \/ \E s \in Streams : \E o \in 0 .. Len(text) : InsertStream(o, s)
  \/ \E o \in 0 .. Len(text), n \in 1 .. MaxIns : DeleteStream(o, n)

Loop == UndoStep \/ UndoEnd \/ RedoStep \/ RedoEnd

Next ==
  \/ Edit
  \/ StartChain \/ EndChain
  \/ \E c \in 0 .. MaxLink : AtomicUndo(c)
  \/ UndoBegin \/ RedoBegin \/ Loop
  \/ Save \/ SaveCancelled \/ SaveAll
  \/ \E k \in 0 .. Len(text) : SaveFailed(k)
  \/ \E c \in BOOLEAN : DoUndo(c) \/ Modified(c) \/ ReadOnly(c)
  \/ UTF8 \/ Clear

(* UNDO_A and REDO_A run on their own once started: the loops are not left *)
(* to any other event.  Nothing obliges the user to give a command.        *)
Fairness == WF_vars(Loop)

Spec == Init /\ [][Next]_vars /\ Fairness
-----------------------------------------------------------------------------
(* Types of the variables, and the lengths the history variables have.     *)
TypeOK ==
  /\ text \in Seq(Char) /\ saved \in Seq(Char)
  /\ steps \in Seq(Step) /\ cur_step \in 0 .. Len(steps)
  /\ streams \in Seq(Char) /\ cur_stream \in 0 .. Len(streams)
  /\ redo \in Seq(Char)
  /\ last_save_step \in -1 .. Len(steps)
  /\ link_undos \in Nat /\ busy \in 0 .. link_undos
  /\ atomic_undo \in BOOLEAN /\ do_undo \in BOOLEAN
  /\ read_only \in BOOLEAN /\ is_modified \in BOOLEAN
  /\ mode \in Modes
  /\ ver \in Seq(Seq(Char)) /\ vsp \in Seq(Nat) /\ vrp \in Seq(Nat)
  /\ Len(ver) = Len(steps) + 1 /\ Len(vsp) = Len(ver) /\ Len(vrp) = Len(ver)

(* undo() and redo() are exact: however edits, undos, redos and resets are *)
(* mixed, and between any two turns of their loops, the document is, byte  *)
(* for byte, what it was when the same steps were done the last time.      *)
UndoRedoExact == text = ver[cur_step + 1]

(* Step i leads from the text before it to the text after it.              *)
StepRelates(st, before, after) ==
  /\ st.len # 0
  /\ st.len < 0 => /\ st.off - st.len <= Len(after)
                   /\ before = Delete(after, st.off, -st.len)
  /\ st.len > 0 => /\ st.off + st.len <= Len(before)
                   /\ after = Delete(before, st.off, st.len)

StepsOK == \A i \in 1 .. Len(steps) : StepRelates(steps[i], ver[i], ver[i + 1])

(* The undo stream holds the bytes of the deletions, one after the other,  *)
(* and cur_stream is just after those of the steps that are done.          *)
UndoStreamOK ==
  /\ vsp[1] = 0
  /\ vsp[cur_step + 1] = cur_stream
  /\ vsp[Len(vsp)] = Len(streams)
  /\ \A i, j \in 1 .. Len(vsp) : i <= j => vsp[i] <= vsp[j]
  /\ \A i \in 1 .. Len(steps) :
       IF steps[i].len < 0 THEN vsp[i + 1] = vsp[i]
       ELSE /\ vsp[i + 1] = vsp[i] + steps[i].len
            /\ SubSeq(streams, vsp[i] + 1, vsp[i + 1]) = Slice(ver[i], steps[i].off, steps[i].len)

(* The redo stream holds the bytes of the insertions undone, the last one  *)
(* undone at its end.                                                      *)
RedoStreamOK ==
  /\ vrp[cur_step + 1] = Len(redo)
  /\ vrp[Len(vrp)] = 0
  /\ \A i, j \in cur_step + 1 .. Len(vrp) : i <= j => vrp[j] <= vrp[i]
  /\ \A i \in cur_step + 1 .. Len(steps) :
       IF steps[i].len > 0 THEN vrp[i + 1] = vrp[i]
       ELSE /\ vrp[i] = vrp[i + 1] - steps[i].len
            /\ SubSeq(redo, vrp[i + 1] + 1, vrp[i]) = Slice(ver[i + 1], steps[i].off, -steps[i].len)

(* What delete_stream(), undo() and redo() rely on when they move through  *)
(* the two streams without keeping a pointer per step (ne.h: "The correct  *)
(* position is calculated incrementally").                                 *)
StreamsMatchSteps == StepsOK /\ UndoStreamOK /\ RedoStreamOK

(* A loop of undo() or redo() is never out of steps.                       *)
LoopInBounds ==
  /\ mode = "undoing" => cur_step > 0
  /\ mode = "redoing" => cur_step < Len(steps)

(* With undo off the undo buffer stays empty.                              *)
OffIsEmpty == ~do_undo => steps = <<>>

(* The assertion at the top of start_undo_chain(): when no chain is open   *)
(* the last step done is not linked, or the chain about to start would be  *)
(* glued to the commands before it.                                        *)
ChainAssertion ==
  mode = "idle" => (cur_step = 0 \/ link_undos > 0 \/ ~Linked(cur_step))

(* Chains are open at the prompt only if the user asked for AtomicUndo, and *)
(* the flag shown in the status bar says so.                               *)
LevelShown == AtPrompt => (atomic_undo <=> link_undos > 0)

(* A document that is not marked as modified is what its file holds: the   *)
(* flag decides whether quitting or closing asks before losing the text.   *)
ModifiedSound == ~is_modified => text = saved

(* The step UNDO_A and REDO_A compare with is one at which the text was    *)
(* what the file holds (ne.h: "the step (if any) corresponding to the last *)
(* successful buffer save operation").                                     *)
SaveStepSound ==
  do_undo /\ last_save_step >= 0 => ver[last_save_step + 1] = saved

(* UNDO_A and REDO_A come back to the prompt: the loops run out of steps   *)
(* even when nobody interrupts them and the count is unlimited.            *)
LoopsEnd == (mode # "idle") ~> (mode = "idle")
-----------------------------------------------------------------------------
(***************************************************************************)
(* The mapping under which the undo buffer implements UndoHistory.         *)
(***************************************************************************)
(* The moments between two steps of ss at which Undo and Redo may stop.    *)
StopsOf(ss) == {m \in 0 .. Len(ss) : m \in {0, Len(ss)} \/ ~ss[m].linked}

(* The rank of n in S, the number whose rank is i, and what v holds at the *)
(* moments in S, in their order.                                           *)
RankIn(S, n) == Cardinality({m \in S : m <= n})

NthIn(S, i) == CHOOSE m \in S : RankIn(S, m) = i

Versions(S, v) == [i \in 1 .. Cardinality(S) |-> v[1 + NthIn(S, i)]]

(* The version shown when m is the mode and c the steps done.  Inside the  *)
(* loop of undo() it is the one the loop started from; redo() shows the    *)
(* one it will come to, at its end.  Anywhere else the text must be that   *)
(* of a version, and 0 says that it is not.                                *)
ShownIn(S, m, c) ==
  CASE m = "undoing" -> RankIn(S, c - 1) + 1
    [] m = "redoing" -> RankIn(S, c)
    [] OTHER -> IF c \in S THEN RankIn(S, c) ELSE 0

Stops == StopsOf(steps)
Hist  == Versions(Stops, ver)
Shown == ShownIn(Stops, mode, cur_step)
Open  == busy > 0 \/ atomic_undo
Texts == UNION {[1 .. n -> Char] : n \in 0 .. MaxText}

History ==
  INSTANCE UndoHistory
    WITH Text <- Texts, hist <- Hist, cur <- Shown, open <- Open, recording <- do_undo

(* The undo buffer implements the promise: a command, or a group of them,  *)
(* is undone and redone as a whole, and nothing else moves the history.    *)
KeepsHistory == History!Spec
=============================================================================
