-------------------------------- MODULE Files -------------------------------
(***************************************************************************)
(* How ne turns the bytes of a file into lines and back.  There are two    *)
(* loaders: one reads the whole file in a pool and makes two passes over   *)
(* it (load_fd_in_buffer), the other goes through a circular buffer of two *)
(* halves when the file is too large for the memory (create_mmap_files).   *)
(* Saving goes through a block, or line by line.  The streams of clips,    *)
(* macros and preferences have their own loader (streams.c).               *)
(*                                                                         *)
(* A format is a record of the options binary and preserve_cr.             *)
(***************************************************************************)
EXTENDS Naturals, Sequences, SequencesExt

CONSTANTS
  NUL, LF, CR,     \* the bytes that may end a line
  HalfSize,        \* half of the circular buffer
  BlockSize        \* the block that saves go through
ASSUME SizesAssumption == HalfSize \in Nat \ {0} /\ BlockSize \in Nat \ {0}

At(s, i) == s[i + 1]      \* as in the code, positions start at 0

Terminators(f) == IF f.preserve_cr THEN {NUL, LF} ELSE {CR, LF}
EndsLine(c, f) == c = NUL \/ (~f.binary /\ c \in Terminators(f))
IsPair(bytes, i) == i + 1 < Len(bytes) /\ At(bytes, i) = CR /\ At(bytes, i + 1) = LF
-----------------------------------------------------------------------------
(* The first pass counts lines and looks for pairs CR/LF; the second one   *)
(* cuts the lines.                                                         *)
FirstPass(bytes, f) ==
  FoldLeft(LAMBDA st, i :
             IF st.skip THEN [st EXCEPT !.skip = FALSE]
             ELSE IF EndsLine(At(bytes, i), f)
                  THEN [num |-> st.num + 1, crlf |-> st.crlf \/ IsPair(bytes, i), skip |-> IsPair(bytes, i)]
                  ELSE st,
           [num |-> 1, crlf |-> FALSE, skip |-> FALSE],
           [i \in DOMAIN bytes |-> i - 1])

(* The first byte from p on that ends a line, or the end of the file.      *)
LineEnd(bytes, p, f) ==
  CHOOSE q \in p .. Len(bytes) :
    /\ q = Len(bytes) \/ EndsLine(At(bytes, q), f)
    /\ \A r \in p .. q - 1 : ~EndsLine(At(bytes, r), f)
SecondPass(bytes, f, num) ==
  FoldLeft(LAMBDA st, i :
             LET q == LineEnd(bytes, st.p, f) IN
             [lines |-> Append(st.lines, SubSeq(bytes, st.p + 1, q)),
              p |-> IF q = Len(bytes) THEN q ELSE IF IsPair(bytes, q) THEN q + 2 ELSE q + 1],
           [lines |-> <<>>, p |-> 0],
           [i \in 1 .. num |-> i]).lines

LoadInMemory(bytes, f) ==
  LET first == FirstPass(bytes, f) IN
  [lines |-> SecondPass(bytes, f, first.num), crlf |-> first.crlf]
-----------------------------------------------------------------------------
(* The circular buffer.  buffer[i] is the byte at i; remaining has not     *)
(* been read yet and out has been written to the file of the characters.   *)
Circular == 2 * HalfSize
ReadAt(buffer, from, bytes) ==
  [i \in DOMAIN buffer |->
     IF i >= from /\ i < from + Len(bytes) THEN bytes[i - from + 1] ELSE buffer[i]]
Half(buffer, from) == [i \in 1 .. HalfSize |-> buffer[from + i - 1]]

StartMap(bytes) ==
  LET n == IF Len(bytes) < Circular THEN Len(bytes) ELSE Circular IN
  [buffer |-> ReadAt([i \in 0 .. Circular - 1 |-> NUL], 0, SubSeq(bytes, 1, n)),
   remaining |-> SubSeq(bytes, n + 1, Len(bytes)),
   i |-> 0, curr_pos |-> 0, start |-> 0, descs |-> <<>>, crlf |-> FALSE, out |-> <<>>]

(* One byte further: when a half has been gone through, it is written out  *)
(* and the next bytes of the file take its place.                          *)
FlipFlop(m) ==
  LET other == (m.i + HalfSize) % Circular
      n == IF Len(m.remaining) < HalfSize THEN Len(m.remaining) ELSE HalfSize IN
  IF m.i % HalfSize # 0 THEN m
  ELSE [m EXCEPT !.out = @ \o Half(m.buffer, other),
                 !.buffer = ReadAt(@, other, SubSeq(m.remaining, 1, n)),
                 !.remaining = SubSeq(@, n + 1, Len(@))]
NextByte(m) == FlipFlop([m EXCEPT !.curr_pos = @ + 1, !.i = (@ + 1) % Circular])

(* The LF of a pair may be the first byte of the other half.               *)
BadSkipLF(m) == [m EXCEPT !.curr_pos = @ + 1, !.i = (@ + 1) % Circular]
SkipLF(m) == NextByte([m EXCEPT !.buffer[m.i] = NUL, !.crlf = TRUE])
EndOfLine(m, len) ==
  LET pair == m.curr_pos < len - 1 /\ m.buffer[m.i] = CR /\ m.buffer[(m.i + 1) % Circular] = LF
      last == IF pair THEN SkipLF(m) ELSE m IN
  [last EXCEPT !.descs = Append(@, [line |-> m.start, line_len |-> m.curr_pos - m.start]),
               !.buffer[last.i] = NUL,
               !.start = last.curr_pos + 1]

Turn(m, len, f) ==
  IF m.curr_pos >= len THEN m
  ELSE NextByte(IF EndsLine(m.buffer[m.i], f) THEN EndOfLine(m, len) ELSE m)

LoadMapped(bytes, f) ==
  LET m == FoldLeft(LAMBDA st, i : Turn(st, Len(bytes), f), StartMap(bytes), bytes)
      pool == m.out \o SubSeq(Half(m.buffer, IF m.i >= HalfSize THEN HalfSize ELSE 0), 1, m.i % HalfSize)
      descs == Append(m.descs, [line |-> m.start, line_len |-> m.curr_pos - m.start]) IN
  [lines |-> [l \in DOMAIN descs |-> SubSeq(pool, descs[l].line + 1, descs[l].line + descs[l].line_len)],
   crlf |-> m.crlf]
-----------------------------------------------------------------------------
(* Saving: the sequence of what write() is given.  fits says that nothing  *)
(* was put beyond the end of the block.                                    *)
LineFeed(f, crlf) == IF f.binary THEN <<NUL>> ELSE IF crlf THEN <<CR, LF>> ELSE <<LF>>

(* A line fills the block as often as it takes.                            *)
Fill(b, line) ==
  LET all == b.block \o line IN
  [b EXCEPT !.writes = @ \o [k \in 1 .. Len(all) \div BlockSize |->
                               SubSeq(all, (k - 1) * BlockSize + 1, k * BlockSize)],
            !.block = SubSeq(all, (Len(all) \div BlockSize) * BlockSize + 1, Len(all))]
Flush(b, size) ==
  IF Len(b.block) >= size THEN [b EXCEPT !.writes = Append(@, b.block), !.block = <<>>] ELSE b
SaveBlocks(lines, f, crlf) ==
  LET one(b, l) ==
        LET filled == Fill(b, lines[l])
            ended == IF l < Len(lines) THEN [filled EXCEPT !.block = @ \o LineFeed(f, crlf)] ELSE filled IN
        Flush([ended EXCEPT !.fits = @ /\ Len(ended.block) <= BlockSize + 1], BlockSize) IN
  Flush(FoldLeft(one, [block |-> <<>>, writes |-> <<>>, fits |-> TRUE], [l \in DOMAIN lines |-> l]), 1)

(* Without memory for the block, the lines are written one by one.         *)
SaveLines(lines, f, crlf) ==
  FlattenSeq([l \in DOMAIN lines |->
    <<lines[l]>> \o (IF l = Len(lines) THEN <<>>
                     ELSE IF ~f.binary /\ crlf THEN << <<CR>>, <<LF>> >> ELSE <<LineFeed(f, FALSE)>>)])
-----------------------------------------------------------------------------
(* Streams: lines that end with NUL.                                       *)
LoadStream(bytes, f) ==
  IF f.binary THEN bytes
  ELSE FoldLeft(LAMBDA st, i :
                  IF st.skip THEN [st EXCEPT !.skip = FALSE]
                  ELSE LET pair == ~f.preserve_cr /\ IsPair(bytes, i)
                           c == IF pair THEN LF ELSE At(bytes, i) IN
                       [out |-> Append(st.out, IF c \in Terminators(f) THEN NUL ELSE c), skip |-> pair],
                [out |-> <<>>, skip |-> FALSE],
                [i \in DOMAIN bytes |-> i - 1]).out
SaveStream(stream, f, crlf) ==
  IF f.binary THEN stream
  ELSE FlattenSeq([i \in DOMAIN stream |->
         IF stream[i] = NUL THEN LineFeed(f, crlf) ELSE <<stream[i]>>])
=============================================================================
