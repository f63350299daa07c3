---------------------------- MODULE MCUndoBuffer ----------------------------
(***************************************************************************)
(* UndoBuffer on documents of two different bytes that begin with one.     *)
(***************************************************************************)
EXTENDS UndoBuffer

CONSTANTS a, b

MCChar  == {a, b}
MCText0 == <<a>>
=============================================================================
