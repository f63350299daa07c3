---------------------------- MODULE FlatDocument ----------------------------
(***************************************************************************)
(* What insert_stream() and delete_stream() of buffer.c promise to the     *)
(* rest of ne, told without lines and without memory: the document is one  *)
(* sequence of bytes, the mark and the bookmarks are offsets in it, and    *)
(* what is asked for is done from its beginning on, possibly not to its    *)
(* end if memory runs out.                                                 *)
(***************************************************************************)
EXTENDS FlatText

CONSTANTS Char, Marks, CanFail

VARIABLES
  text,  \* the bytes of the document
  marks, \* offsets of the marks that are set, Loose for one past its line's end
  pend   \* what has been asked for and not done yet

fvars == <<text, marks, pend>>

Loose == -1
Idle == [kind |-> "none", off |-> 0, bytes |-> <<>>, left |-> 0]

Init ==
  /\ text \in Seq(Char)
  /\ marks = <<>>
  /\ pend = Idle

(* What an insertion or a deletion of n bytes at offset o makes of a mark. *)
AfterInsert(o, n, x) == IF x > o THEN x + n ELSE x
AfterDelete(o, n, x) ==
  IF x <= o THEN x ELSE IF x < o + n THEN o ELSE x - n

(* A mark that is at a byte, or at the end of a line, follows it: F is    *)
(* where an offset goes.                                                   *)
Follow(F(_)) ==
  /\ DOMAIN marks' = DOMAIN marks
  /\ \A m \in DOMAIN marks : marks[m] # Loose => marks'[m] = F(marks[m])

Ask ==
  /\ pend = Idle
  /\ \/ pend'.kind = "insert" /\ pend'.bytes # <<>>
     \/ pend'.kind = "delete" /\ pend'.left > 0 /\ pend'.off < Len(text)
  /\ pend'.off \in 0 .. Len(text)
  /\ UNCHANGED <<text, marks>>

(* The next n bytes of the request.                                        *)
InsertSome(n) ==
  /\ pend.kind = "insert"
  /\ LET s == SubSeq(pend.bytes, 1, n)
     IN  /\ text' = Insert(text, pend.off, s)
         /\ Follow(LAMBDA x : AfterInsert(pend.off, n, x))
         /\ pend' = [pend EXCEPT !.off = @ + n, !.bytes = SubSeq(@, n + 1, Len(@))]

DeleteSome(n) ==
  /\ pend.kind = "delete"
  /\ n <= pend.left /\ pend.off + n <= Len(text)
  /\ text' = Delete(text, pend.off, n)
  /\ Follow(LAMBDA x : AfterDelete(pend.off, n, x))
  /\ pend' = [pend EXCEPT !.left = @ - n]

(* All has been done, or all that the document allows.                     *)
Finish ==
  /\ \/ pend.kind = "insert" /\ pend.bytes = <<>>
     \/ pend.kind = "delete" /\ (pend.left = 0 \/ pend.off = Len(text))
  /\ pend' = Idle
  /\ UNCHANGED <<text, marks>>

(* A deletion moves the marks after it before it asks for memory: when     *)
(* there is none, they are before their bytes, or past the end of a line.  *)
Lost(x) == {Loose} \cup pend.off .. x - 1
MarksGivenUp ==
  \/ pend.kind = "insert" /\ marks' = marks
  \/ /\ pend.kind = "delete"
     /\ DOMAIN marks' = DOMAIN marks
     /\ \A m \in DOMAIN marks : marks[m] # Loose =>
          marks'[m] \in IF marks[m] <= pend.off THEN {marks[m]} ELSE Lost(marks[m])

(* Memory runs out: the rest is not done.                                  *)
GiveUp ==
  /\ CanFail /\ pend # Idle
  /\ pend' = Idle
  /\ MarksGivenUp
  /\ UNCHANGED text

(* The user sets a mark or removes it.                                     *)
SetMark ==
  /\ pend = Idle
  /\ \E m \in Marks :
       /\ DOMAIN marks' = DOMAIN marks \cup {m}
       /\ \A k \in DOMAIN marks \ {m} : marks'[k] = marks[k]
       /\ marks'[m] \in {Loose} \cup 0 .. Len(text)
  /\ UNCHANGED <<text, pend>>

UnsetMark ==
  /\ pend = Idle
  /\ \E m \in DOMAIN marks : marks' = [k \in DOMAIN marks \ {m} |-> marks[k]]
  /\ UNCHANGED <<text, pend>>

Next ==
  \/ Ask \/ Finish \/ GiveUp
  \/ \E n \in 1 .. Len(pend.bytes) : InsertSome(n)
  \/ \E n \in 1 .. pend.left : DeleteSome(n)
  \/ SetMark \/ UnsetMark

Spec == Init /\ [][Next]_fvars
=============================================================================
