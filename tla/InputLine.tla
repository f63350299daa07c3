------------------------------ MODULE InputLine -----------------------------
(***************************************************************************)
(* The input line (input.c), a record t:                                   *)
(*   t.buf      the bytes typed so far (ib.len is its length), t.enc their *)
(*              encoding;                                                  *)
(*   t.pos      where the cursor is in buf, and t.offset the first byte    *)
(*              that is shown;                                             *)
(*   t.x        the column of the cursor, t.start_x that of the offset;    *)
(*   t.columns  ne_columns;                                                *)
(*   t.lost     input_refresh() has put the cursor at another column than  *)
(*              that of its character, for it counts bytes; what is typed  *)
(*              then may even split a character (not in the code).         *)
(***************************************************************************)
EXTENDS Utf8, FiniteSets, SequencesExt, FiniteSetsExt

CONSTANTS MAX_INPUT_LINE_LEN, \* the most bytes of a line
          char_ins_del_ok     \* the terminal inserts and deletes characters by itself

len(t) == Len(t.buf)
WidthAt(t, p) == get_char_width(t.buf, p, t.enc)
CharStarts(t) == Starts(t.buf, t.enc)
get_string_width(t, from, to) ==
  Cardinality({p \in CharStarts(t) : from <= p /\ p < to})
    + Cardinality({p \in CharStarts(t) : from <= p /\ p < to /\ WidthAt(t, p) = 2})
Chars(t, from, to) == Cardinality({p \in CharStarts(t) : from <= p /\ p < to})
Cut(bytes) == SubSeq(bytes, 1, Min({Len(bytes), MAX_INPUT_LINE_LEN}))

Broken(t) == t.enc = "utf8" /\ ~IsUtf8(t.buf)
OffChar(t, p) == Broken(t) \/ p \notin CharStarts(t) \cup {len(t)}
input_refresh(t) ==
  [t EXCEPT !.x = t.start_x + t.pos - t.offset,
            !.lost = \/ OffChar(t, t.pos) \/ OffChar(t, t.offset) \/ t.offset > t.pos
                     \/ get_string_width(t, t.offset, t.pos) # t.pos - t.offset]
AtStart(t) == [t EXCEPT !.x = t.start_x, !.pos = 0, !.offset = 0, !.lost = Broken(t)]
-----------------------------------------------------------------------------
(* Moves.                                                                  *)
LeftTo(t, p) ==
  IF t.x = t.start_x THEN [t EXCEPT !.pos = p, !.offset = p] ELSE [t EXCEPT !.pos = p, !.x = @ - WidthAt(t, p)]
input_move_left(t) == IF t.pos > 0 THEN LeftTo(t, prev_pos(t.buf, t.pos, t.enc)) ELSE t

(* The first characters go off the screen, as many as make room.           *)
FirstShown(t, shift) ==
  Min({q \in CharStarts(t) \cup {len(t)} :
         q > t.offset /\ (get_string_width(t, t.offset, q) >= shift \/ q = len(t))})
ShownFrom(t, q) == [t EXCEPT !.offset = q, !.x = @ - get_string_width(t, t.offset, q)]
RightScrolled(t, refresh) ==
  IF t.x < t.columns THEN t
  ELSE IF refresh /\ ~char_ins_del_ok
    THEN input_refresh(ShownFrom(t, FirstShown(t, t.x - (t.columns - 1))))
  ELSE ShownFrom(t, FirstShown(t, t.x - (t.columns - 1)))
input_move_right(t, refresh) ==
  IF t.pos < len(t)
    THEN RightScrolled([t EXCEPT !.pos = next_pos(t.buf, @, t.enc), !.x = @ + WidthAt(t, t.pos)], refresh)
  ELSE t

input_move_to_sol(t) == AtStart(t)
(* With a cursor that is lost the line may fit: the code would then look   *)
(* before its first byte.                                                  *)
EolFrom(t, q) ==
  [t EXCEPT !.pos = len(t), !.offset = q, !.x = t.start_x + get_string_width(t, q, len(t)), !.lost = Broken(t)]
input_move_to_eol(t) ==
  IF t.x + get_string_width(t, t.pos, len(t)) < t.columns
    THEN [t EXCEPT !.x = @ + get_string_width(t, t.pos, len(t)), !.pos = len(t)]
  ELSE input_refresh(EolFrom(t, Min({q \in CharStarts(t) \cup {len(t)} :
                                       get_string_width(t, q, len(t)) <= t.columns - 1 - t.start_x})))
toggle(t) == IF t.pos # 0 THEN input_move_to_sol(t) ELSE input_move_to_eol(t)

Times(n) == [i \in 1 .. n |-> i]
GoRight(t, q) == FoldLeft(LAMBDA u, i : input_move_right(u, FALSE), t, Times(Chars(t, t.pos, q)))
GoLeft(t, q) == FoldLeft(LAMBDA u, i : input_move_left(u), t, Times(Chars(t, q, t.pos)))
Words(t) == {p \in CharStarts(t) : WordAt(t.buf, p, t.enc)}
NextWord(t) ==
  Min({q \in CharStarts(t) \cup {len(t)} :
         q >= t.pos /\ (q = len(t) \/ (q \in Words(t) /\ \E r \in CharStarts(t) \ Words(t) : t.pos <= r /\ r < q))})
AfterNextWord(t) == IF t.x = t.columns - 1 THEN [t EXCEPT !.offset = t.pos, !.x = t.start_x] ELSE t
input_next_word(t) == input_refresh(AfterNextWord(GoRight(t, NextWord(t))))
BeforeWord(t) ==
  {q \in CharStarts(t) \ Words(t) : \E r \in Words(t) : q < r /\ r < t.pos}
input_prev_word(t) ==
  input_refresh(IF BeforeWord(t) = {} THEN GoLeft(t, 0)
                ELSE input_move_right(GoLeft(t, Max(BeforeWord(t))), FALSE))

MoveIncUp(t) ==
  IF t.x # t.start_x THEN [t EXCEPT !.pos = t.offset, !.x = t.start_x, !.lost = OffChar(t, t.offset)]
  ELSE input_move_to_sol(t)
LastShown(t) ==
  Min({q \in CharStarts(t) \cup {len(t)} :
         q >= t.pos /\ (q = len(t) \/ t.x + get_string_width(t, t.pos, q) + WidthAt(t, q) >= t.columns)})
MoveIncDown(t) ==
  IF LastShown(t) \notin {t.pos, len(t)}
    THEN [t EXCEPT !.pos = LastShown(t), !.x = @ + get_string_width(t, t.pos, LastShown(t))]
  ELSE input_move_to_eol(t)
-----------------------------------------------------------------------------
(* Changes.                                                                *)
Ascii(t) == IF is_ascii(t.buf) THEN [t EXCEPT !.enc = "ascii"] ELSE t
SetLine(t, bytes) == AtStart([t EXCEPT !.buf = Cut(bytes), !.enc = detect_encoding(Cut(bytes))])
Inserted(t, bytes) == [t EXCEPT !.buf = SubSeq(@, 1, t.pos) \o bytes \o SubSeq(@, t.pos + 1, Len(@))]

(* Typing c: the character that the user types first replaces the line.    *)
Emptied(t, first) == IF first THEN [t EXCEPT !.buf = <<>>] ELSE t
Turned(t, c, prefer_utf8) ==
  IF t.enc = "ascii" /\ c > 127 THEN [t EXCEPT !.enc = IF prefer_utf8 \/ c > 255 THEN "utf8" ELSE "8-bit"] ELSE t
Bytes(t, c) == IF t.enc = "utf8" THEN utf8str(c) ELSE <<c>>
Digit(c) == c \in 48 .. 57 \cup 65 .. 70 \cup 97 .. 102 \cup {88, 120}
Redrawn(t, c, bytes) ==
  IF t.x < t.columns - output_width(c) /\ t.pos # len(t) - Len(bytes) /\ ~char_ins_del_ok THEN input_refresh(t) ELSE t
TypedIn(t, c, bytes, alpha_allowed) ==
  IF len(t) <= MAX_INPUT_LINE_LEN - Len(bytes) /\ (alpha_allowed \/ Digit(c))
    THEN input_move_right(Redrawn(Inserted(t, bytes), c, bytes), TRUE)
  ELSE t
Typable(t, c) == c <= 255 \/ t.enc \in {"ascii", "utf8"}
type(t, c, first, alpha_allowed, prefer_utf8) ==
  IF ~Typable(t, c) THEN t
  ELSE LET u == Turned(Emptied(t, first), c, prefer_utf8) IN TypedIn(u, c, Bytes(u, c), alpha_allowed)

BadCharLen(t) == 1
CharLen(t) == IF t.enc = "utf8" THEN utf8len(Byte(t.buf, t.pos)) ELSE 1
Shorter(t, n) == Ascii([t EXCEPT !.buf = SubSeq(@, 1, t.pos) \o SubSeq(@, t.pos + n + 1, Len(@))])
delete_char(t) ==
  IF t.pos >= len(t) THEN t
  ELSE IF char_ins_del_ok THEN Shorter(t, CharLen(t)) ELSE input_refresh(Shorter(t, CharLen(t)))
backspace(t) == IF t.pos = 0 THEN t ELSE delete_char(input_move_left(t))
delete_line(t) == AtStart([t EXCEPT !.buf = <<>>, !.enc = "ascii"])
delete_to_eol(t) == Ascii([t EXCEPT !.buf = SubSeq(@, 1, t.pos)])

(* A paste: of a clip up to its first line end, or of a line of the        *)
(* history, whose encoding is then taken to be that of the clip.           *)
Agree(t, enc) == "ascii" \in {t.enc, enc} \/ t.enc = enc
Pasted(t, bytes, clip_enc) ==
  LET u == Inserted(t, SubSeq(bytes, 1, Min({Len(bytes), MAX_INPUT_LINE_LEN - len(t)})))
  IN  input_refresh(IF ~is_ascii(u.buf) /\ clip_enc # "ascii" THEN [u EXCEPT !.enc = clip_enc] ELSE u)
input_paste(t, bytes, clip_enc) == IF Agree(t, clip_enc) THEN Pasted(t, bytes, clip_enc) ELSE t

(* The completion p takes the place of the prefix from prefix_pos to the   *)
(* cursor, which then moves over as many characters as p has columns.      *)
PrefixPos(t) ==
  IF t.pos = 0 THEN 0
  ELSE Min({p \in CharStarts(t) \cup {t.pos} :
              p <= t.pos /\ \A q \in CharStarts(t) : p <= q /\ q < t.pos => q \in Words(t)})
(* Positions beyond the end count one byte and one column each.            *)
Beyond(t, q) == IF q > len(t) THEN q - len(t) ELSE 0
Places(t, p, n) == {q \in CharStarts(t) \cup len(t) .. len(t) + n : q >= p}
Over(t, n) == Min({q \in Places(t, t.pos, n) : get_string_width(t, t.pos, q) + Beyond(t, q) >= n})
Ahead(t, p, n) == Min({q \in Places(t, p, n) : Chars(t, p, q) + Beyond(t, q) >= n})
ToPlace(t, q, x) ==
  IF x < t.columns THEN [t EXCEPT !.pos = q] ELSE [t EXCEPT !.pos = q, !.offset = Ahead(t, @, x - t.columns + 1)]
MovedOver(t, q, dx) == ToPlace(t, q, t.x + dx + Chars(t, t.pos, q) + Beyond(t, q))
Replaced(t, from, p, n) ==
  [t EXCEPT !.buf = SubSeq(@, 1, from) \o SubSeq(p, 1, n) \o SubSeq(@, t.pos + 1, Len(@)),
            !.pos = from, !.enc = detect_encoding(p)]
Room(t, from) == MAX_INPUT_LINE_LEN - (len(t) - (t.pos - from))
AutoFrom(t, from, p, n) ==
  LET u == Replaced(t, from, p, n) IN input_refresh(MovedOver(u, Over(u, n), -Chars(t, from, t.pos)))
input_autocomplete(t, p) ==
  IF ~Agree(t, detect_encoding(p)) THEN input_refresh(t)
  ELSE AutoFrom(t, PrefixPos(t), p, Min({Len(p), Room(t, PrefixPos(t))}))
-----------------------------------------------------------------------------
(* TAB: what is completed is what is between the last two quotes, if the   *)
(* line ends with one, or what is after the first spaces.                  *)
LastAt(s, b) == Max({i \in DOMAIN s : s[i] = b} \cup {0})
FirstAt(s, b) == Min({i \in DOMAIN s : s[i] = b} \cup {Len(s) + 1})
Quoted(t) == t.buf # <<>> /\ Last(t.buf) = 34 /\ LastAt(Front(t.buf), 34) # 0
AfterSpaces(s, i) == Min({j \in i .. Len(s) : s[j] # 32} \cup {Len(s) + 1}) - 1
PrefixStart(t) ==
  IF Quoted(t) THEN LastAt(Front(t.buf), 34)
  ELSE IF FirstAt(t.buf, 32) > len(t) THEN 0
  ELSE AfterSpaces(t.buf, FirstAt(t.buf, 32))
Prefix(t) == SubSeq(IF Quoted(t) THEN Front(t.buf) ELSE t.buf, PrefixStart(t) + 1, len(t) - (IF Quoted(t) THEN 1 ELSE 0))

(* Without a quote at the end when the encodings do not go together.       *)
Completed(t, k, p, quote) ==
  LET u == AtStart([t EXCEPT !.buf = SubSeq(@, 1, k) \o p \o quote,
                             !.enc = IF @ = "ascii" THEN detect_encoding(p) ELSE @])
  IN  input_refresh(IF quote = <<>> THEN input_move_to_eol(u) ELSE input_move_left(input_move_to_eol(u)))
completed(t, p) ==
  IF PrefixStart(t) + Len(p) + 1 >= MAX_INPUT_LINE_LEN THEN t
  ELSE IF ~Agree(t, detect_encoding(p)) THEN (IF Quoted(t) THEN [t EXCEPT !.buf[len(t)] = 0] ELSE t)
  ELSE Completed(t, PrefixStart(t), p, IF Quoted(t) THEN <<34>> ELSE <<>>)
=============================================================================
