---------------------------- MODULE UndoHistory -----------------------------
(***************************************************************************)
(* What the undo system promises to the user of a document: the versions   *)
(* the document went through, one per command or per AtomicUndo group, and *)
(* Undo and Redo that walk along them.  The version shown is hist[cur].    *)
(***************************************************************************)
EXTENDS Naturals, Sequences

CONSTANT Text, Text0

VARIABLES
  hist,       \* the versions, oldest first
  cur,        \* the one on the screen
  open,       \* a group is open: changes may extend the newest version
  recording   \* versions are kept

vars == <<hist, cur, open, recording>>

Init == hist = <<Text0>> /\ cur = 1 /\ open = FALSE /\ recording \in BOOLEAN

(* A change makes a version after the current one; the undone ones go.     *)
Change(t) ==
  /\ recording
  /\ hist' = Append(SubSeq(hist, 1, cur), t) /\ cur' = cur + 1
  /\ UNCHANGED <<open, recording>>

(* While a group is open a change may belong to the newest version.        *)
Extend(t) ==
  /\ recording /\ open
  /\ cur = Len(hist) /\ cur > 1
  /\ hist' = [hist EXCEPT ![cur] = t]
  /\ UNCHANGED <<cur, open, recording>>

(* Without recording a change replaces the only version.                   *)
Replace(t) ==
  /\ ~recording /\ Len(hist) = 1
  /\ hist' = <<t>>
  /\ UNCHANGED <<cur, open, recording>>

Group == open' \in BOOLEAN /\ UNCHANGED <<hist, cur, recording>>

(* Undo and Redo move by exactly one version.                              *)
Undo == cur > 1 /\ cur' = cur - 1 /\ UNCHANGED <<hist, open, recording>>

Redo == cur < Len(hist) /\ cur' = cur + 1 /\ UNCHANGED <<hist, open, recording>>

(* The past is forgotten, and the text kept or cleared.                    *)
Forget(t) ==
  /\ hist' = <<t>> /\ cur' = 1
  /\ recording' \in BOOLEAN
  /\ UNCHANGED open

Next ==
  \/ \E t \in Text : Change(t) \/ Extend(t) \/ Replace(t)
  \/ Group \/ Undo \/ Redo
  \/ Forget(hist[cur]) \/ Forget(<<>>)

Spec == Init /\ [][Next]_vars
=============================================================================
