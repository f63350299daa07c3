---------------------------- MODULE MCTextLines -----------------------------
(***************************************************************************)
(* TextLines for TLC: small files and streams.                             *)
(***************************************************************************)
EXTENDS TextLines

CONSTANTS a, b

(* The empty file, one byte, empty lines only, two lines, and an empty     *)
(* line before another.                                                    *)
MCFiles == {<<>>, <<a>>, <<NL, NL>>, <<a, NL, b>>, <<NL, b, a>>}
MCStreams == {<<a>>, <<NL>>, <<b, NL>>, <<NL, a>>, <<a, a>>}
MCPipeSizes == {4}
=============================================================================
