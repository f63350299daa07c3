------------------------------ MODULE MCBlocks ------------------------------
(***************************************************************************)
(* Blocks for TLC.                                                         *)
(***************************************************************************)
EXTENDS Blocks

CONSTANTS x, u, y, clip \* a plain, a UTF-8 and an 8-bit character, and a clip

MCChar == {x, u, y, Space, Tab}
MCUtf8 == {u}
MCLatin1 == {y}
(* Lines of different lengths, one with a tab, an empty one, and one in    *)
(* each encoding.                                                          *)
MCFiles == {<<x, x, NL, u>>, <<Tab, NL, x>>, <<y>>}
MCStreams == {<<x, NL, x>>, <<u>>, <<y, NL>>}
=============================================================================
