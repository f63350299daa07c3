------------------------------ MODULE FlatText ------------------------------
(***************************************************************************)
(* The text of a document of ne as one sequence of bytes, a line feed      *)
(* being the byte between two lines, and what insert_stream() and          *)
(* delete_stream() of buffer.c do to it.  An offset o is the number of     *)
(* bytes before a (line, pos) pair.                                        *)
(***************************************************************************)
EXTENDS Integers, Sequences

Smaller(m, n) == IF m < n THEN m ELSE n

(* insert_stream() refuses a position past the end.                        *)
Insert(t, o, s) ==
  IF o > Len(t) THEN t ELSE SubSeq(t, 1, o) \o s \o SubSeq(t, o + 1, Len(t))

(* delete_stream() stops at the end of the document.                       *)
Delete(t, o, n) == SubSeq(t, 1, o) \o SubSeq(t, o + n + 1, Len(t))

(* The bytes that Delete(t, o, n) takes away.                              *)
Slice(t, o, n) == SubSeq(t, o + 1, Smaller(o + n, Len(t)))
=============================================================================
