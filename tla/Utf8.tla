-------------------------------- MODULE Utf8 --------------------------------
(***************************************************************************)
(* Characters and their encodings (utf8.c, support.h and support.c).  A    *)
(* piece of text is a sequence of bytes s; a position p in it counts from  *)
(* 0, as in the code, and the byte after the last one is a NUL.            *)
(***************************************************************************)
EXTENDS Integers, Sequences

MAX_UTF_8 == 2147483647
Encodings == {"ascii", "8-bit", "utf8"}
Byte(s, p) == IF p < Len(s) THEN s[p + 1] ELSE 0

utf8len(b) ==
  CASE b < 128 -> 1 [] 128 <= b /\ b < 192 -> -1 [] 192 <= b /\ b < 224 -> 2 [] 224 <= b /\ b < 240 -> 3
    [] 240 <= b /\ b < 248 -> 4 [] 248 <= b /\ b < 252 -> 5 [] OTHER -> 6
utf8seqlen(c) ==
  CASE c < 128 -> 1 [] 128 <= c /\ c < 2048 -> 2 [] 2048 <= c /\ c < 65536 -> 3
    [] 65536 <= c /\ c < 2097152 -> 4 [] 2097152 <= c /\ c < 67108864 -> 5 [] OTHER -> 6

(* Six bits of c, the last but k groups of them, after the mark 10.        *)
Follow(c, group) == 128 + ((c \div group) % 64)
utf8str(c) ==
  CASE utf8seqlen(c) = 1 -> <<c>>
    [] utf8seqlen(c) = 2 -> <<192 + c \div 64, Follow(c, 1)>>
    [] utf8seqlen(c) = 3 -> <<224 + c \div 4096, Follow(c, 64), Follow(c, 1)>>
    [] utf8seqlen(c) = 4 -> <<240 + c \div 262144, Follow(c, 4096), Follow(c, 64), Follow(c, 1)>>
    [] utf8seqlen(c) = 5 ->
         <<248 + c \div 16777216, Follow(c, 262144), Follow(c, 4096), Follow(c, 64), Follow(c, 1)>>
    [] OTHER -> <<252 + c \div 1073741824, Follow(c, 16777216), Follow(c, 262144), Follow(c, 4096),
                  Follow(c, 64), Follow(c, 1)>>

(* What the k bytes after s[p] add to the bits of the first.               *)
Six(s, p) == Byte(s, p) % 64
utf8char(s, p) ==
  CASE utf8len(Byte(s, p)) = 1 -> Byte(s, p)
    [] utf8len(Byte(s, p)) = 2 -> (Byte(s, p) % 32) * 64 + Six(s, p + 1)
    [] utf8len(Byte(s, p)) = 3 -> (Byte(s, p) % 16) * 4096 + Six(s, p + 1) * 64 + Six(s, p + 2)
    [] utf8len(Byte(s, p)) = 4 ->
         (Byte(s, p) % 8) * 262144 + Six(s, p + 1) * 4096 + Six(s, p + 2) * 64 + Six(s, p + 3)
    [] utf8len(Byte(s, p)) = 5 ->
         (Byte(s, p) % 4) * 16777216 + Six(s, p + 1) * 262144 + Six(s, p + 2) * 4096 + Six(s, p + 3) * 64
           + Six(s, p + 4)
    [] utf8len(Byte(s, p)) = 6 ->
         (Byte(s, p) % 2) * 1073741824 + Six(s, p + 1) * 16777216 + Six(s, p + 2) * 262144
           + Six(s, p + 3) * 4096 + Six(s, p + 4) * 64 + Six(s, p + 5)
    [] OTHER -> -1
-----------------------------------------------------------------------------
is_ascii(s) == \A i \in DOMAIN s : s[i] < 128
IsFollow(b) == b \div 64 = 2

(* A sequence that a shorter one could stand for: the bits that the length *)
(* n is there for are 0.                                                   *)
Redundant(s, p, n) ==
  CASE n = 2 -> (s[p + 1] % 32) \div 2 = 0
    [] n = 3 -> s[p + 1] % 16 = 0 /\ Six(s, p + 1) \div 32 = 0
    [] n = 4 -> s[p + 1] % 8 = 0 /\ Six(s, p + 1) \div 16 = 0
    [] n = 5 -> s[p + 1] % 4 = 0 /\ Six(s, p + 1) \div 8 = 0
    [] n = 6 -> s[p + 1] % 2 = 0 /\ Six(s, p + 1) \div 4 = 0
    [] OTHER -> FALSE
WellFormed(s, p, n) ==
  n # -1 /\ p + n <= Len(s) /\ ~Redundant(s, p, n) /\ \A k \in 1 .. n - 1 : IsFollow(Byte(s, p + k))

(* The bytes that begin a character, and whether each goes on to the next. *)
Leads(s) == {p \in 0 .. Len(s) - 1 : ~IsFollow(s[p + 1])}
IsUtf8(s) ==
  /\ s # <<>> => 0 \in Leads(s)
  /\ \A p \in Leads(s) : /\ WellFormed(s, p, utf8len(s[p + 1]))
                         /\ p + utf8len(s[p + 1]) \in Leads(s) \cup {Len(s)}
detect_encoding(s) == IF is_ascii(s) THEN "ascii" ELSE IF IsUtf8(s) THEN "utf8" ELSE "8-bit"
-----------------------------------------------------------------------------
CONSTANTS Wide,       \* the characters that take two columns (wcwidth())
          Separators  \* the spaces and the punctuation, but for the underscore

get_char(s, p, enc) == IF enc = "utf8" THEN utf8char(s, p) ELSE Byte(s, p)
output_width(c) == IF c \in Wide THEN 2 ELSE 1
get_char_width(s, p, enc) == IF Byte(s, p) < 128 THEN 1 ELSE output_width(get_char(s, p, enc))
next_pos(s, p, enc) == IF enc = "utf8" THEN p + utf8len(Byte(s, p)) ELSE p + 1
prev_pos(s, p, enc) ==
  IF p = 0 THEN -1
  ELSE IF enc # "utf8" THEN p - 1
  ELSE CHOOSE q \in 0 .. p - 1 : /\ q = 0 \/ ~IsFollow(Byte(s, q))
                                 /\ \A r \in q + 1 .. p - 1 : IsFollow(Byte(s, r))
ne_isword(c) == c = 95 \/ ~(c = 0 \/ c \in Separators)
WordAt(s, p, enc) == ne_isword(get_char(s, p, enc))

(* Where characters begin.                                                 *)
Starts(s, enc) == IF enc = "utf8" THEN Leads(s) ELSE 0 .. Len(s) - 1
=============================================================================
