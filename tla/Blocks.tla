------------------------------- MODULE Blocks -------------------------------
(***************************************************************************)
(* The commands that work on the block between the mark and the cursor     *)
(* and on the clips: clips.c, and the cases of do_action() (actions.c)     *)
(* that call it.  Copy and Paste are about a block of text, or about the   *)
(* rectangle between mark and cursor when the mark is vertical.            *)
(*                                                                         *)
(* The document can be written, memory does not run out, and files can be  *)
(* read; a command that is refused changes nothing and is not an action.   *)
(***************************************************************************)
EXTENDS DocLines, FlatText

CONSTANTS
  Char,       \* the characters of the texts
  TabSize,    \* b->opt.tab_size
  Utf8Char,   \* those that make a text be detected as UTF-8
  Latin1Char, \* and those that make it be detected as 8-bit
  Files,      \* the files that may be loaded, as streams
  Streams,    \* what a clip file may hold, or a filter may write
  Clips,      \* the numbers of the user's clips
  THROUGH,    \* the number of the clip used by Through, INT_MAX
  MaxText,    \* bound: characters and line ends of a document
  MaxBeyond,  \* bound: how far beyond the end of its line the cursor goes
  MaxEdits    \* bound: commands that change the text or a clip

ASSUME TabAssumption == TabSize \in Nat \ {0}
ASSUME CharAssumption ==
  /\ {Space, Tab} \subseteq Char /\ NL \notin Char
  /\ Utf8Char \subseteq Char /\ Latin1Char \subseteq Char \ Utf8Char
  /\ {Space, Tab} \cap (Utf8Char \cup Latin1Char) = {}
ASSUME StreamAssumption == Files \cup Streams \subseteq Seq(Char \cup {NL})
ASSUME ClipAssumption == THROUGH \notin Clips
ASSUME BlockBounds == MaxText \in Nat /\ MaxBeyond \in Nat /\ MaxEdits \in Nat

VARIABLES
  lines, pts, undo, \* the document (DocLines); a point is set if in DOMAIN pts
  cur,       \* cur_line and cur_pos
  vertical,  \* mark_is_vertical
  encoding,  \* of the document
  free_form, \* the cursor may go beyond the end of a line
  clips,     \* the clips that exist: stream and encoding
  edits      \* commands given, for the bound

docVars == <<lines, pts, undo>>
vars == <<docVars, cur, vertical, encoding, free_form, clips, edits>>

Doc == [lines |-> lines, pts |-> pts, undo |-> NoUndo]
Become(d) == lines' = d.lines /\ pts' = d.pts /\ undo' = d.undo

(* MARK, PASTE_START_BOOKMARK and PASTE_END_BOOKMARK.                      *)
MARK == "mark"
START == "<"
END == ">"
Updated(f, x, v) == [y \in DOMAIN f \cup {x} |-> IF y = x THEN v ELSE f[y]]
Set(d, x, pt) == [d EXCEPT !.pts = Updated(@, x, pt)]
Unmarked(d) == [d EXCEPT !.pts = Restrict(@, DOMAIN @ \ {MARK})]
Marking == MARK \in DOMAIN pts
Mark == pts[MARK]

(* detect_encoding() and set_stream_encoding().                            *)
Detect(s) ==
  IF \E i \in DOMAIN s : s[i] \in Latin1Char THEN "8BIT"
  ELSE IF \E i \in DOMAIN s : s[i] \in Utf8Char THEN "UTF8"
  ELSE "ASCII"
StreamEncoding(s, source) ==
  IF source = "8BIT" /\ Detect(s) = "UTF8" THEN "8BIT" ELSE Detect(s)
Clip(s, source) == [cs |-> s, encoding |-> StreamEncoding(s, source)]

Init ==
  /\ \E t \in Files : lines = Split(t) /\ encoding = Detect(t)
  /\ pts = <<>> /\ undo = NoUndo
  /\ cur = Point(1, 0)
  /\ vertical = FALSE
  /\ free_form \in BOOLEAN
  /\ clips = [n \in {THROUGH} |-> [cs |-> <<>>, encoding |-> "ASCII"]]
  /\ edits = 0

(* A command that changes the text or a clip.                              *)
Edit == edits < MaxEdits /\ edits' = edits + 1
Fits(d) == Len(Join(d.lines, 1, Len(d.lines))) <= MaxText
BecomeFitting(d) == Fits(d) /\ Become(d)
-----------------------------------------------------------------------------
(* The column of the cursor, and goto_line_pos().                          *)
X == calc_width(lines[cur.line], cur.pos, TabSize)
Goto(ls, l, p) ==
  IF l > Len(ls) THEN cur
  ELSE Point(l, IF p > Len(ls[l]) /\ ~free_form THEN Len(ls[l]) ELSE p)

(* The commands that move the cursor.                                      *)
Move(l, p) ==
  /\ edits < MaxEdits
  /\ p <= Len(lines[l]) + (IF free_form THEN MaxBeyond ELSE 0)
  /\ cur' = Point(l, p)
  /\ UNCHANGED <<docVars, vertical, encoding, free_form, clips, edits>>

MarkHere(vert) ==
  /\ pts' = Updated(pts, MARK, cur)
  /\ vertical' = vert
  /\ UNCHANGED <<lines, undo, cur, encoding, free_form, clips, edits>>

Unmark ==
  /\ Marking
  /\ pts' = Unmarked(Doc).pts
  /\ UNCHANGED <<lines, undo, cur, vertical, encoding, free_form, clips, edits>>

GotoMark ==
  /\ Marking
  /\ cur' = Goto(lines, Mark.line, Mark.pos)
  /\ UNCHANGED <<docVars, vertical, encoding, free_form, clips, edits>>
-----------------------------------------------------------------------------
(* copy_to_clip() and erase_block().  The block is between the mark and    *)
(* the cursor, whichever comes first.                                      *)
Precedes(x, y) == x.line < y.line \/ (x.line = y.line /\ x.pos < y.pos)
From == IF Precedes(Mark, cur) THEN Mark ELSE cur
To   == IF Precedes(Mark, cur) THEN cur ELSE Mark
BothBeyond(ln) == cur.pos >= Len(ln) /\ Mark.pos >= Len(ln)
NoBlock == cur.line = Mark.line /\ (cur.pos = Mark.pos \/ BothBeyond(lines[cur.line]))

(* A definition named Bad... is the one after it with a plausible mistake: *)
(* here, one more line end is counted.                                     *)
BadBlockText(ls) ==
  FlattenSeq([k \in 1 .. To.line - From.line + 1 |->
    LET i == From.line + k - 1
    IN  SubSeq(ls[i], IF i = From.line THEN Smaller(From.pos, Len(ls[i])) + 1 ELSE 1,
                      IF i = To.line THEN Smaller(To.pos, Len(ls[i])) ELSE Len(ls[i])) \o <<NL>>])

(* The pieces of the lines that are in the block.                          *)
BlockText(ls) ==
  FlattenSeq([k \in 1 .. To.line - From.line + 1 |->
    LET i == From.line + k - 1
    IN  SubSeq(ls[i], IF i = From.line THEN Smaller(From.pos, Len(ls[i])) + 1 ELSE 1,
                      IF i = To.line THEN Smaller(To.pos, Len(ls[i])) ELSE Len(ls[i]))
          \o IF i < To.line THEN <<NL>> ELSE <<>>])

(* The spaces that bring the line to the beginning of the block do not     *)
(* move the mark.                                                          *)
PadFrom(d, n) ==
  IF From.pos <= n THEN d
  ELSE Set(insert_spaces(start_undo_chain(d), From.line, n, From.pos - n), MARK, Mark)
Padded(d) == PadFrom(d, Len(d.lines[From.line]))
Unpadded(d) == IF From.pos <= Len(lines[From.line]) THEN d ELSE end_undo_chain(d)

(* What is left of document d, and where the cursor is.                    *)
BlockGone(p, n) ==
  [doc |-> Unpadded(delete_stream(p, From.line, From.pos, n)), cur |-> From]
erase_block(d) ==
  IF NoBlock THEN [doc |-> d, cur |-> cur]
  ELSE BlockGone(Padded(d), Len(BlockText(lines)))
-----------------------------------------------------------------------------
(* copy_vert_to_clip() and erase_vert_block(): the rectangle between the   *)
(* columns and the lines of the mark and the cursor.                       *)
MarkX  == calc_width(lines[Mark.line], Mark.pos, TabSize)
Top    == Smaller(Mark.line, cur.line)
Bottom == Mark.line + cur.line - Top
Left(ln)  == calc_pos(ln, Min({MarkX, X}), TabSize)
Right(ln) == calc_pos(ln, Max({MarkX, X}), TabSize)

NoVertBlock == cur.pos = Mark.pos \/ (cur.line = Mark.line /\ BothBeyond(lines[cur.line]))

VertText ==
  FlattenSeq([k \in 1 .. Bottom - Top + 1 |->
    LET ln == lines[Top + k - 1] IN Append(SubSeq(ln, Left(ln) + 1, Right(ln)), NL)])

OutOfLine(d, l, ln) == delete_stream(d, l, Left(ln), Right(ln) - Left(ln))
VertDeleted(d) ==
  LET gone[k \in 0 .. Bottom - Top + 1] ==
        IF k = 0 THEN d ELSE OutOfLine(gone[k - 1], Top + k - 1, lines[Top + k - 1])
  IN  gone[Bottom - Top + 1]

(* The cursor stays where it was.                                          *)
BadRectangleGone(d) == [doc |-> d, cur |-> cur]

(* The cursor goes to the top of the rectangle.                            *)
RectangleGone(d) ==
  [doc |-> d, cur |-> Goto(d.lines, Top, Smaller(d.pts[MARK].pos, cur.pos))]

erase_vert_block(d) ==
  IF NoVertBlock THEN [doc |-> d, cur |-> cur]
  ELSE RectangleGone(end_undo_chain(VertDeleted(start_undo_chain(d))))

(* The block in a clip: an empty one keeps the encoding of the clip.       *)
Block == IF vertical THEN (IF NoVertBlock THEN <<>> ELSE VertText)
         ELSE IF NoBlock THEN <<>> ELSE BlockText(lines)
BlockClip(n, s) ==
  Updated(clips, n,
    IF (IF vertical THEN NoVertBlock ELSE NoBlock)
      THEN [cs |-> <<>>,
            encoding |-> IF vertical \/ n \notin DOMAIN clips THEN "ASCII" ELSE clips[n].encoding]
      ELSE Clip(s, encoding))

Erased(d) == IF vertical THEN erase_vert_block(d) ELSE erase_block(d)

BlockErased(r) == Become(Unmarked(r.doc)) /\ cur' = r.cur

Copy(n) ==
  /\ Marking /\ Edit
  /\ clips' = BlockClip(n, Block)
  /\ Become(Unmarked(Doc))
  /\ UNCHANGED <<cur, vertical, encoding, free_form>>

Cut(n) ==
  /\ Marking /\ Edit
  /\ clips' = BlockClip(n, Block)
  /\ BlockErased(Erased(Doc))
  /\ UNCHANGED <<vertical, encoding, free_form>>

Erase ==
  /\ Marking /\ Edit
  /\ BlockErased(Erased(Doc))
  /\ UNCHANGED <<vertical, encoding, free_form, clips>>
-----------------------------------------------------------------------------
(* Any clip may be pasted.                                                 *)
BadCompatible(c) == TRUE

(* An encoding is taken for ASCII, which goes with all, or must be the     *)
(* same.                                                                   *)
Compatible(c) == c.encoding = "ASCII" \/ encoding \in {"ASCII", c.encoding}

(* PASTE_END_BOOKMARK is kept one character beyond the end of what is      *)
(* pasted, so that it follows the insertion, and then put back.            *)
KeepEnd(d, l, p) == Set(d, END, Point(l, p + 1))
PutBackEnd(d) == IF END \in DOMAIN d.pts THEN [d EXCEPT !.pts[END].pos = @ - 1] ELSE d

(* paste_to_buffer(), stream s at the cursor.                              *)
PadTo(d, at, n) == insert_spaces(d, at.line, n, at.pos - n)
Fill(d, at) == PadTo(d, at, Len(d.lines[at.line]))
StartMarked(d, at) == Set(d, START, at)

(* The padding is not in a chain with what is pasted.                      *)
Unchained_paste_to_buffer(d, at, s) ==
  PutBackEnd(insert_stream(Fill(KeepEnd(StartMarked(d, at), at.line, at.pos), at),
                           at.line, at.pos, s))

paste_to_buffer(d, at, s) ==
  PutBackEnd(end_undo_chain(
    insert_stream(Fill(start_undo_chain(KeepEnd(StartMarked(d, at), at.line, at.pos)), at),
                  at.line, at.pos, s)))

(* paste_vert_to_buffer(): each line of s at column x of a line, from the  *)
(* line of the cursor on.                                                  *)
Rows(s) == IF Last(s) = NL THEN Front(Split(s)) ELSE Split(s)

WithLine(d, l) ==
  IF l <= Len(d.lines) THEN d ELSE insert_one_line(d, l - 1, Len(d.lines[l - 1]))
Gap(ln, p, x) == IF p = Len(ln) THEN Max({0, x - calc_width(ln, p, TabSize)}) ELSE 0
RowAt(d, l, p, gap, row) ==
  insert_stream(KeepEnd(insert_spaces(d, l, p, gap), l, p + gap), l, p + gap, row)
RowAtColumn(d, l, x, p, row) == RowAt(d, l, p, Gap(d.lines[l], p, x), row)
RowPlace(ln, x) ==
  Min({q \in 0 .. Len(ln) - 1 : calc_width(ln, q, TabSize) >= x} \cup {Len(ln)})
PasteRow(d, l, x, row) ==
  IF row = <<>> THEN d ELSE RowAtColumn(d, l, x, RowPlace(d.lines[l], x), row)
PasteRows(d, l, x, rows) ==
  LET pasted[k \in 0 .. Len(rows)] ==
        IF k = 0 THEN d ELSE PasteRow(WithLine(pasted[k - 1], l + k - 1), l + k - 1, x, rows[k])
  IN  pasted[Len(rows)]

paste_vert_to_buffer(d, at, x, s) ==
  PutBackEnd(end_undo_chain(PasteRows(StartMarked(start_undo_chain(d), at), at.line, x, Rows(s))))

Pasted(d, at, s, vert) ==
  IF s = <<>> THEN d
  ELSE IF vert THEN paste_vert_to_buffer(d, at, calc_width(d.lines[at.line], at.pos, TabSize), s)
  ELSE paste_to_buffer(d, at, s)

(* A document in ASCII takes the encoding of what is pasted.               *)
Takes(c) == IF encoding = "ASCII" /\ c.cs # <<>> THEN c.encoding ELSE encoding

Paste(n, vert) ==
  /\ n \in DOMAIN clips /\ Compatible(clips[n]) /\ Edit
  /\ BecomeFitting(Pasted(Doc, cur, clips[n].cs, vert))
  /\ encoding' = Takes(clips[n])
  /\ UNCHANGED <<cur, vertical, free_form, clips>>

(* load_clip(): the current clip becomes the stream of a file.             *)
OpenClip(n, s) ==
  /\ Edit
  /\ clips' = Updated(clips, n, Clip(s, "ASCII"))
  /\ UNCHANGED <<docVars, cur, vertical, encoding, free_form>>
-----------------------------------------------------------------------------
(* THROUGH_A: the block becomes what a filter writes.  Without a mark the  *)
(* block is empty, and not vertical.                                       *)
ThroughDone(r, c) ==
  /\ BecomeFitting(Unmarked(end_undo_chain(
       IF Compatible(c) THEN Pasted(r.doc, r.cur, c.cs, vertical') ELSE r.doc)))
  /\ cur' = r.cur
  /\ clips' = Updated(clips, THROUGH, [c EXCEPT !.cs = <<>>])
  /\ encoding' = IF Compatible(c) THEN Takes(c) ELSE encoding

Through(s) ==
  /\ Edit
  /\ vertical' = (vertical /\ Marking)
  /\ ThroughDone(IF Marking THEN Erased(start_undo_chain(Doc))
                            ELSE [doc |-> start_undo_chain(Doc), cur |-> cur],
                 Clip(s, "ASCII"))
  /\ UNCHANGED free_form

(* The filter fails, after the block has been copied for it.               *)
ThroughFails ==
  /\ Edit
  /\ vertical' = (vertical /\ Marking)
  /\ clips' = IF Marking THEN BlockClip(THROUGH, Block)
              ELSE [clips EXCEPT ![THROUGH].cs = <<>>]
  /\ UNCHANGED <<docVars, cur, encoding, free_form>>

Next ==
  \/ \E l \in DOMAIN lines : \E p \in 0 .. Len(lines[l]) + MaxBeyond : Move(l, p)
  \/ \E v \in BOOLEAN : MarkHere(v)
  \/ Unmark \/ GotoMark \/ Erase \/ ThroughFails
  \/ \E n \in Clips : Copy(n) \/ Cut(n)
  \/ \E n \in Clips, v \in BOOLEAN : Paste(n, v)
  \/ \E n \in Clips, s \in Streams : OpenClip(n, s)
  \/ \E s \in Streams : Through(s)

Spec == Init /\ [][Next]_vars
-----------------------------------------------------------------------------
Chars(ls) == UNION {Range(ls[i]) : i \in DOMAIN ls}
Holds(enc, cs) ==
  /\ enc = "ASCII" => cs \cap (Utf8Char \cup Latin1Char) = {}
  /\ enc = "UTF8"  => cs \cap Latin1Char = {}

(* The cursor, the mark and the bookmarks are on lines of the document (so *)
(* that MARK_OUT_OF_BUFFER is never the answer), and the cursor is in its  *)
(* line unless free form is on.                                            *)
TypeOK ==
  /\ lines \in Seq(Seq(Char)) /\ lines # <<>>
  /\ DOMAIN pts \subseteq {MARK, START, END}
  /\ \A x \in DOMAIN pts : pts[x].line \in DOMAIN lines /\ pts[x].pos \in Int
  /\ Marking => Mark.pos >= 0
  /\ cur.line \in DOMAIN lines /\ cur.pos \in Nat
  /\ free_form \/ cur.pos <= Len(lines[cur.line])
  /\ vertical \in BOOLEAN /\ free_form \in BOOLEAN
  /\ encoding \in {"ASCII", "UTF8", "8BIT"}
  /\ THROUGH \in DOMAIN clips /\ DOMAIN clips \subseteq Clips \cup {THROUGH}
  /\ edits \in 0 .. MaxEdits

(* No text is in an encoding that does not hold its characters, wherever   *)
(* it is pasted and whatever the clip held before; and the cursor, the     *)
(* mark and the bookmarks stay in the document (TypeOK).                   *)
EncodingSound ==
  /\ TypeOK
  /\ Holds(encoding, Chars(lines))
  /\ \A n \in DOMAIN clips : Holds(clips[n].encoding, Range(clips[n].cs) \ {NL})

(* A command that changes the text leaves exactly one step to undo, and no *)
(* open chain, however many insertions and deletions it is made of.        *)
OneUndoStep ==
  [][undo'.level = 0 /\ (lines' # lines => undo'.groups = 1)]_vars

(* The document as one sequence, line ends included, and the offset of a   *)
(* point in it; a point beyond the end of its line is there.               *)
FlatDoc(ls) == Join(ls, 1, Len(ls))
Offset(ls, pt) ==
  Len(Join(ls, 1, pt.line - 1)) + (IF pt.line = 1 THEN 0 ELSE 1)
    + Smaller(pt.pos, Len(ls[pt.line]))
Inside(ls, pt) == pt.pos \in 0 .. Len(ls[pt.line])

(* What is between the mark and the cursor becomes s; spaces fill the line *)
(* up to the beginning of the block if it is beyond the end.               *)
Replaces(s) ==
  LET text == FlatDoc(lines)
      i    == Offset(lines, From)
      k    == Max({0, From.pos - Len(lines[From.line])})
      n    == Offset(lines, To) - i
  IN  /\ FlatDoc(lines') = Insert(Delete(text, i, n), i, [j \in 1 .. k |-> Space] \o s)
      /\ cur' = From

(* Bookmarks after the block stay with their characters.                   *)
BookmarksFollow ==
  \A x \in DOMAIN pts' :
    Inside(lines, pts[x]) /\ Offset(lines, pts[x]) > Offset(lines, To)
      => /\ Inside(lines', pts'[x])
         /\ Len(FlatDoc(lines')) - Offset(lines', pts'[x])
              = Len(FlatDoc(lines)) - Offset(lines, pts[x])

(* A rectangle that has been cut is put back by PasteVert, without moving  *)
(* the cursor, when no tab nor wide character makes columns and positions  *)
(* differ.                                                                 *)
VerticalCutPastesBack ==
  [][\A n \in Clips :
       Marking /\ vertical /\ ~NoVertBlock /\ Chars(lines) \cap ({Tab} \cup Wide) = {} /\ Cut(n) =>
         paste_vert_to_buffer([lines |-> lines', pts |-> pts', undo |-> NoUndo], cur',
                              calc_width(lines'[cur'.line], cur'.pos, TabSize), clips'[n].cs).lines
           = lines]_vars

(* The bookmarks < and > are around what has just been pasted; a rectangle *)
(* begins at < and its last row ends at >.                                 *)
Marked(s, vert) ==
  IF ~vert
    THEN LET i == Offset(lines', pts'[START])
         IN  Slice(FlatDoc(lines'), i, Offset(lines', pts'[END]) - i) = s
  ELSE LET rows == Rows(s)
           l    == cur.line + Len(rows) - 1
           row  == Last(rows)
           e    == pts'[END]
       IN  /\ pts'[START] = cur
           /\ row # <<>> =>
                /\ e.line = l /\ Inside(lines', e)
                /\ IsSuffix(row, SubSeq(lines'[l], 1, e.pos))

(* Cut, Erase and Through replace the block and nothing else, whichever of *)
(* the mark and the cursor comes first, and Copy and Cut put it in the     *)
(* clip; Paste leaves the bookmarks < and > around what it inserts, when   *)
(* the cursor is in its line.                                              *)
BlockReplaced ==
  [][/\ Marking /\ ~vertical /\ ~NoBlock =>
         /\ Erase => Replaces(<<>>) /\ BookmarksFollow
         /\ \A n \in Clips :
              /\ Cut(n) => Replaces(<<>>) /\ BookmarksFollow
              /\ Copy(n) \/ Cut(n) =>
                   clips'[n].cs = Slice(FlatDoc(lines), Offset(lines, From),
                                        Offset(lines, To) - Offset(lines, From))
         /\ \A s \in Streams :
              Through(s) /\ Compatible(Clip(s, "ASCII")) => Replaces(s)
     /\ \A n \in Clips, v \in BOOLEAN :
          Paste(n, v) /\ clips[n].cs # <<>> /\ cur.pos <= Len(lines[cur.line])
            => Marked(clips[n].cs, v)]_vars

(* Wherever the cursor is: "Every time you paste into a document, a pair   *)
(* of bookmarks designated by < and > mark the start and end points of     *)
(* the text you pasted" (ne.texinfo, Paste).  It fails beyond the end of a *)
(* line, where paste_to_buffer() sets the bookmarks before it fills the    *)
(* line with spaces.                                                       *)
PastedBetween ==
  [][\A n \in Clips :
       Paste(n, FALSE) /\ clips[n].cs # <<>> => Marked(clips[n].cs, FALSE)]_vars
=============================================================================
