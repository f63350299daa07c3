----------------------------- MODULE TextLines ------------------------------
(***************************************************************************)
(* The text of a document of ne as its lines: insert_stream() and          *)
(* delete_stream() of buffer.c, the only two functions that modify a       *)
(* document, with the memory of the lines and of the line descriptors      *)
(* (Pools), the mark and the bookmarks; and the loading of a file, which   *)
(* builds the lines that they start from.                                  *)
(*                                                                         *)
(* Lines are numbered from 1, positions in a line from 0.  Signals are     *)
(* blocked while the two functions run, so that nothing else happens       *)
(* between two turns of their loops.                                       *)
(***************************************************************************)
EXTENDS Pools

CONSTANTS
  NL,        \* what ends a line, in a file and in a stream
  Files,     \* the files that may be loaded
  PipeSizes, \* sizes of the pool of a file that cannot be seeked
  STANDARD_LINE_INCREMENT, \* line descriptors beyond those a file needs
  Marks,     \* the mark of the block, and the bookmarks
  CanFail,   \* memory may run out
  MaxText,   \* bound: bytes and line ends of a document
  Streams,   \* what may be inserted at once
  MaxDel     \* bound: length of one deletion

ASSUME NLAssumption == NL \notin Byte \cup {Nul}
ASSUME FilesAssumption ==
  Files # {} /\ \A t \in Files : t \in Seq(Byte \cup {NL}) /\ Len(t) <= MaxText
ASSUME StreamsAssumption == Streams \subseteq Seq(Byte \cup {NL}) \ {<<>>}
ASSUME SizeAssumption ==
  PipeSizes \subseteq Nat /\ STANDARD_LINE_INCREMENT \in Nat /\ CanFail \in BOOLEAN
ASSUME LineBounds ==
  /\ MaxText \in Nat /\ MaxDel \in Nat
  /\ MaxPools > MaxText + 1 /\ MaxDescPools > MaxText + 1

VARIABLES
  mem,       \* the character pools
  descs,     \* the line descriptor pools
  lines,     \* b->line_desc_list
  num_lines, \* b->num_lines
  marks,     \* the mark and the bookmarks that are set
  op,        \* the function that is running: "none", "insert" or "delete"
  line, pos, \* its line and position
  len,       \* of an insertion: bytes put at pos and not yet passed over
  rest,      \* of an insertion: what is left of the stream
  left,      \* of a deletion: what is left to delete
  owed       \* the length of the undo step, negative for an insertion, less
             \* that of what was really deleted or inserted

textVars == <<mem, descs, lines, num_lines>>
runVars  == <<op, line, pos, len, rest, left>>
vars == <<textVars, marks, runVars, owed>>

LineDesc == [ld : DescPoolIds \X (Nat \ {0}), line : (PoolIds \X Nat) \cup {Null}, line_len : Nat]
Mark == [line : Nat, pos : Nat]

(* The bytes of line descriptor ld.                                        *)
Text(ld) == Read(mem, ld.line, ld.line_len)
-----------------------------------------------------------------------------
(* load_fd_in_buffer(): the file t is the beginning of one pool of size    *)
(* bytes, where its line ends become free bytes, and its lines are what is *)
(* between them.                                                           *)
Breaks(t) == {0} \cup {i \in DOMAIN t : t[i] = NL}
Break(t, k) == CHOOSE o \in Breaks(t) : Cardinality({x \in Breaks(t) : x < o}) = k - 1
LineCount(t) == Cardinality(Breaks(t))
LineEnd(t, k) == IF k < LineCount(t) THEN Break(t, k + 1) - 1 ELSE Len(t)

LoadedMem(t, size) ==
  LET used == {i \in DOMAIN t : t[i] # NL}
      cp   == [size |-> size, first_used |-> Min(used) - 1, last_used |-> Max(used) - 1,
               pool |-> [j \in 0 .. size - 1 |-> IF j + 1 \in used THEN t[j + 1] ELSE Nul]]
  IN  [pool |-> IF used = {} THEN <<>> ELSE [id \in {1} |-> cp],
       list |-> IF used = {} THEN <<>> ELSE <<1>>,
       free |-> size - Cardinality(used), allocated |-> size]

LoadedLine(t, k) ==
  LET n == LineEnd(t, k) - Break(t, k)
  IN  [ld |-> <<1, k>>, line |-> IF n = 0 THEN Null ELSE <<1, Break(t, k)>>, line_len |-> n]

(* A mapped file (load_fd_mmap) has as many descriptors as lines; one that *)
(* is read has some more, and more bytes if it could not be seeked.        *)
LineDescsLoaded(t, size) == descs = <<DescPool(1, size, LineCount(t))>>

Load(t) ==
  /\ lines = [k \in 1 .. LineCount(t) |-> LoadedLine(t, k)]
  /\ num_lines = LineCount(t)
  /\ \/ mem = LoadedMem(t, Len(t)) /\ LineDescsLoaded(t, LineCount(t))
     \/ /\ \E size \in {Len(t)} \cup {s \in PipeSizes : s > Len(t)} : mem = LoadedMem(t, size)
        /\ LineDescsLoaded(t, Max({LineCount(t) + STANDARD_LINE_INCREMENT, STD_LINE_DESC_POOL_SIZE}))

(* clear_buffer(): no byte, and one line that is empty.                    *)
Cleared ==
  /\ lines = <<[ld |-> <<1, 1>>, line |-> Null, line_len |-> 0]>>
  /\ num_lines = 1
  /\ mem = NoPools
  /\ descs = <<DescPool(1, STD_LINE_DESC_POOL_SIZE, 1)>>

Idle == op = "none" /\ line = 1 /\ pos = 0 /\ len = 0 /\ rest = <<>> /\ left = 0

Init ==
  /\ \E t \in Files : IF t = <<>> THEN Cleared ELSE Load(t)
  /\ marks = <<>>
  /\ Idle
  /\ owed = 0
-----------------------------------------------------------------------------
(* The bytes and the line ends that there are.                             *)
Total == Len(lines) - 1 + mem.allocated - mem.free

(* A function returns: its local variables are gone.                       *)
Return ==
  /\ op' = "none" /\ line' = 1 /\ pos' = 0
  /\ len' = 0 /\ rest' = <<>> /\ left' = 0

(* Where a mark goes when n bytes are put at pos, when its line is broken   *)
(* at cut, when line + 1 is joined after n bytes, and when n bytes are     *)
(* deleted at pos.                                                         *)
AfterPiece(m, n) ==
  IF m.line = line /\ m.pos > pos THEN [m EXCEPT !.pos = @ + n] ELSE m

AfterBreak(m, cut) ==
  IF m.line = line /\ m.pos > pos THEN [line |-> line + 1, pos |-> m.pos - cut]
  ELSE IF m.line > line THEN [m EXCEPT !.line = @ + 1]
  ELSE m

(* A mark of the joined line keeps its position.                           *)
BadAfterJoin(m, n) ==
  IF m.line > line THEN [m EXCEPT !.line = @ - 1] ELSE m

AfterJoin(m, n) ==
  IF m.line = line + 1 THEN [line |-> line, pos |-> m.pos + n]
  ELSE IF m.line > line THEN [m EXCEPT !.line = @ - 1]
  ELSE m

AfterDeletion(m, n) ==
  IF m.line # line \/ m.pos < pos THEN m
  ELSE [m EXCEPT !.pos = IF @ < pos + n THEN pos ELSE @ - n]

MoveMarks(F(_)) == marks' = [k \in DOMAIN marks |-> F(marks[k])]

(* insert_stream() records the undo step, then puts the stream in one line *)
(* at a time.                                                              *)
InsertStream(l, p, s) ==
  /\ op = "none"
  /\ p <= lines[l].line_len
  /\ Total + Len(s) <= MaxText
  /\ op' = "insert" /\ line' = l /\ pos' = p /\ rest' = s
  /\ owed' = -Len(s)
  /\ UNCHANGED <<textVars, marks, len, left>>

(* Whether n bytes can be added to a line without asking for a new pool.   *)
HasRoomAround(ld, n, first) == alloc_chars_around(mem, ld.line, ld.line_len, n, first).after >= 0
InTheMiddle(ld) == pos < ld.line_len \div 2

GrowLine(ld, n) ==
  IF ld.line = Null THEN HasRoom(mem, n)
  ELSE HasRoomAround(ld, n, InTheMiddle(ld)) \/ HasRoom(mem, ld.line_len + n)

(* The first piece of the rest of the stream, up to a line end.            *)
PieceLen == Min({Len(rest)} \cup {i - 1 : i \in {j \in DOMAIN rest : rest[j] = NL}})

(* The piece goes in the line: in new memory if the line has none, in the  *)
(* free bytes around it if they are enough, or else the line moves.        *)
InsertPiece ==
  /\ op = "insert" /\ rest # <<>> /\ PieceLen > 0
  /\ LET n   == PieceLen
         ld  == lines[line]
         new == IF ld.line = Null THEN SubSeq(rest, 1, n)
                ELSE SubSeq(Text(ld), 1, pos) \o SubSeq(rest, 1, n)
                       \o SubSeq(Text(ld), pos + 1, ld.line_len)
         around == alloc_chars_around(mem, ld.line, ld.line_len, n, InTheMiddle(ld))
         else   == alloc_chars(mem, IF ld.line = Null THEN n ELSE ld.line_len + n)
         at  == IF ld.line # Null /\ around.after >= 0 THEN Plus(ld.line, around.after - n) ELSE else.at
     IN  /\ mem' = IF ld.line = Null THEN Write(else.mem, at, new)
                   ELSE IF around.after >= 0 THEN Write(around.mem, at, new)
                   ELSE free_chars(Write(else.mem, at, new), ld.line, ld.line_len)
         /\ lines' = [lines EXCEPT ![line].line = at, ![line].line_len = @ + n]
         /\ len' = n /\ rest' = SubSeq(rest, n + 1, Len(rest))
         /\ owed' = owed + n
         /\ MoveMarks(LAMBDA m : AfterPiece(m, n))
  /\ UNCHANGED <<descs, num_lines, op, line, pos, left>>

(* A line end in the stream: what follows in the line goes to a new line.  *)
BreakLine ==
  /\ op = "insert" /\ rest # <<>> /\ PieceLen = 0
  /\ LET ld  == lines[line]
         cut == pos + len
         got == alloc_line_desc(descs)
         new == IF cut < ld.line_len
                  THEN [ld |-> got.ld, line |-> Plus(ld.line, cut), line_len |-> ld.line_len - cut]
                  ELSE [ld |-> got.ld, line |-> Null, line_len |-> 0]
         old == [ld EXCEPT !.line = IF cut = 0 THEN Null ELSE @, !.line_len = cut]
     IN  /\ lines' = InsertAt([lines EXCEPT ![line] = old], line + 1, new)
         /\ descs' = got.pools
         /\ MoveMarks(LAMBDA m : AfterBreak(m, cut))
  /\ num_lines' = num_lines + 1
  /\ line' = line + 1 /\ pos' = 0 /\ len' = 0 /\ rest' = Tail(rest)
  /\ owed' = owed + 1
  /\ UNCHANGED <<mem, op, left>>

InsertEnd ==
  /\ op = "insert" /\ rest = <<>>
  /\ Return
  /\ UNCHANGED <<textVars, marks, owed>>

(* The memory that the insertion needs is not there: it returns at once.   *)
InsertFails ==
  /\ CanFail /\ op = "insert" /\ rest # <<>>
  /\ IF PieceLen > 0 THEN ~GrowLine(lines[line], PieceLen) ELSE ~HasDesc(descs)
  /\ Return
  /\ UNCHANGED <<textVars, marks, owed>>
-----------------------------------------------------------------------------
(* Bound: a deletion that fails may move a mark further past the end of    *)
(* its line, and the next one that fails still further.                    *)
MarksNear == \A k \in DOMAIN marks : marks[k].pos <= MaxText + 1

(* delete_stream() records the undo step for the length it is asked for.   *)
DeleteStream(l, p, n) ==
  /\ op = "none" /\ MarksNear
  /\ p <= lines[l].line_len
  /\ p = lines[l].line_len => l < Len(lines)
  /\ op' = "delete" /\ line' = l /\ pos' = p /\ left' = n
  /\ owed' = n
  /\ UNCHANGED <<textVars, marks, len, rest>>

AtEnd == pos = lines[line].line_len
AtEndOfText == AtEnd /\ line = Len(lines)

(* Two lines can be joined as they are, or where the first one, the second *)
(* one or a pool has room for both.                                        *)
Adjacent(ld, next) ==
  \/ ld.line = Null \/ next.line = Null
  \/ Plus(ld.line, ld.line_len) = next.line

CanJoin(ld, next) ==
  \/ Adjacent(ld, next)
  \/ HasRoomAround(ld, next.line_len, FALSE)
  \/ HasRoomAround(next, ld.line_len, TRUE)
  \/ HasRoom(mem, ld.line_len + next.line_len)

(* Where the joined line is and the pools that hold it.                    *)
Joined(ld, next) ==
  LET both == Text(ld) \o Text(next)
      n == alloc_chars_around(mem, ld.line, ld.line_len, next.line_len, FALSE)
      m == alloc_chars_around(mem, next.line, next.line_len, ld.line_len, TRUE)
      p == alloc_chars(mem, ld.line_len + next.line_len)
      nAt == Plus(ld.line, n.after - next.line_len)
      mAt == Plus(next.line, m.after - ld.line_len)
  IN  IF Adjacent(ld, next)
        THEN [mem |-> mem, at |-> IF ld.line = Null THEN next.line ELSE ld.line]
      ELSE IF n.after >= 0
        THEN [mem |-> free_chars(Write(n.mem, nAt, both), next.line, next.line_len), at |-> nAt]
      ELSE IF m.after >= 0
        THEN [mem |-> free_chars(Write(m.mem, mAt, both), ld.line, ld.line_len), at |-> mAt]
      ELSE [mem |-> free_chars(free_chars(Write(p.mem, p.at, both), ld.line, ld.line_len),
                               next.line, next.line_len),
            at |-> p.at]

(* At the end of a line the line end is deleted: the next line is joined.  *)
JoinLines ==
  /\ op = "delete" /\ left > 0 /\ AtEnd /\ ~AtEndOfText
  /\ LET ld   == lines[line]
         next == lines[line + 1]
         j    == Joined(ld, next)
     IN  /\ mem' = j.mem
         /\ descs' = free_line_desc(descs, next.ld)
         /\ lines' = RemoveAt([lines EXCEPT ![line].line = j.at, ![line].line_len = @ + next.line_len],
                              line + 1)
         /\ MoveMarks(LAMBDA m : AfterJoin(m, ld.line_len))
  /\ num_lines' = num_lines - 1
  /\ left' = left - 1 /\ owed' = owed - 1
  /\ UNCHANGED <<op, line, pos, len, rest>>

(* Inside a line, bytes are deleted up to its end; the shorter of the two  *)
(* parts that remain is moved.                                             *)
DeleteInLine ==
  /\ op = "delete" /\ left > 0 /\ ~AtEnd
  /\ LET ld  == lines[line]
         n   == Min({left, ld.line_len - pos})
         end == ld.line_len - n
         head == SubSeq(Text(ld), 1, pos)
         tail == SubSeq(Text(ld), pos + n + 1, ld.line_len)
         fromHead == n < ld.line_len - pos /\ pos < ld.line_len \div 2
     IN  /\ mem' = IF n = ld.line_len - pos THEN free_chars(mem, Plus(ld.line, pos), n)
                   ELSE IF fromHead THEN free_chars(Write(mem, Plus(ld.line, n), head), ld.line, n)
                   ELSE free_chars(Write(mem, Plus(ld.line, pos), tail), Plus(ld.line, end), n)
         /\ lines' = [lines EXCEPT
                       ![line].line = IF end = 0 THEN Null ELSE IF fromHead THEN Plus(@, n) ELSE @,
                       ![line].line_len = end]
         /\ MoveMarks(LAMBDA m : AfterDeletion(m, n))
         /\ left' = left - n /\ owed' = owed - n
  /\ UNCHANGED <<descs, num_lines, op, line, pos, len, rest>>

(* The undo step is corrected by what could not be deleted.                *)
DeleteEnd ==
  /\ op = "delete" /\ (left = 0 \/ AtEndOfText)
  /\ owed' = owed - left
  /\ Return
  /\ UNCHANGED <<textVars, marks>>

(* The undo step is left as it was recorded.                               *)
BadDeleteFails ==
  /\ CanFail /\ op = "delete" /\ left > 0 /\ AtEnd /\ ~AtEndOfText
  /\ ~CanJoin(lines[line], lines[line + 1])
  /\ MoveMarks(LAMBDA m : AfterJoin(m, lines[line].line_len))
  /\ Return
  /\ UNCHANGED <<textVars, owed>>

(* There is no memory for the joined line.  The marks have been moved      *)
(* already as if the lines had been joined, and stay so.                   *)
DeleteFails ==
  /\ CanFail /\ op = "delete" /\ left > 0 /\ AtEnd /\ ~AtEndOfText
  /\ ~CanJoin(lines[line], lines[line + 1])
  /\ MoveMarks(LAMBDA m : AfterJoin(m, lines[line].line_len))
  /\ owed' = owed - left
  /\ Return
  /\ UNCHANGED textVars
-----------------------------------------------------------------------------
(* MARK_A and SETBOOKMARK_A put a mark where the cursor is, which may be   *)
(* beyond the end of its line; other commands remove it.                   *)
SetMark(m, l, p) ==
  /\ op = "none"
  /\ marks' = [k \in DOMAIN marks \cup {m} |->
                 IF k = m THEN [line |-> l, pos |-> p] ELSE marks[k]]
  /\ UNCHANGED <<textVars, runVars, owed>>

UnsetMark(m) ==
  /\ op = "none" /\ m \in DOMAIN marks
  /\ marks' = Restrict(marks, DOMAIN marks \ {m})
  /\ UNCHANGED <<textVars, runVars, owed>>

Next ==
  \/ \E l \in DOMAIN lines : \E p \in 0 .. lines[l].line_len :
       \/ \E s \in Streams : InsertStream(l, p, s)
       \/ \E n \in 1 .. MaxDel : DeleteStream(l, p, n)
  \/ InsertPiece \/ BreakLine \/ InsertEnd \/ InsertFails
  \/ JoinLines \/ DeleteInLine \/ DeleteEnd \/ DeleteFails
  \/ \E m \in Marks, l \in DOMAIN lines : \E p \in 0 .. lines[l].line_len + 1 : SetMark(m, l, p)
  \/ \E m \in Marks : UnsetMark(m)

Spec == Init /\ [][Next]_vars
-----------------------------------------------------------------------------
(* Types of the variables.                                                 *)
TypeOK ==
  /\ DOMAIN mem.pool \subseteq PoolIds /\ ToSet(mem.list) = DOMAIN mem.pool
  /\ lines \in Seq(LineDesc) /\ Len(lines) = num_lines /\ num_lines > 0
  /\ DOMAIN marks \subseteq Marks /\ \A m \in DOMAIN marks : marks[m] \in Mark /\ marks[m].line \in DOMAIN lines
  /\ op \in {"none", "insert", "delete"} /\ line \in DOMAIN lines
  /\ pos \in 0 .. lines[line].line_len /\ len \in 0 .. lines[line].line_len - pos
  /\ rest \in Seq(Byte \cup {NL}) /\ left \in Nat
  /\ owed \in Int

(* The addresses of a line.                                                *)
Bytes(ld) == {Plus(ld.line, j) : j \in 0 .. ld.line_len - 1}
UsedBytes == UNION {{<<id, j>> : j \in {i \in 0 .. mem.pool[id].size - 1 : mem.pool[id].pool[i] # Nul}} :
                      id \in DOMAIN mem.pool}

(* Every byte that is not free belongs to one line, and to one only: no    *)
(* two lines share memory, no line lies on free bytes, nothing is leaked;  *)
(* the bounds of every pool are right, without which alloc_chars() would   *)
(* give out bytes that are in use; line is NULL iff line_len is zero       *)
(* (assert_char_pool and assert_line_desc of ne.h); and the bytes in use   *)
(* are allocated_chars less free_chars, which SYNTAX_A compares with       *)
(* MAX_SYNTAX_SIZE.                                                        *)
BytesOwned ==
  /\ \A i, j \in DOMAIN lines : i # j => Bytes(lines[i]) \cap Bytes(lines[j]) = {}
  /\ UNION {Bytes(lines[i]) : i \in DOMAIN lines} = UsedBytes
  /\ \A i \in DOMAIN lines : lines[i].line_len = 0 <=> lines[i].line = Null
  /\ \A id \in DOMAIN mem.pool : assert_char_pool(mem.pool[id])
  /\ mem.allocated - mem.free = Cardinality(UsedBytes)

(* A line descriptor that a line uses is not free and no other line has    *)
(* it, and the pools know how many of theirs are in use; the marks are on  *)
(* lines of the document (TypeOK).                                         *)
DescsOwned ==
  LET given(p) == {i \in DOMAIN lines : lines[i].ld[1] = p.id}
  IN  /\ TypeOK
      /\ \A i, j \in DOMAIN lines : i # j => lines[i].ld # lines[j].ld
      /\ \A i \in DOMAIN lines : lines[i].ld[1] \in UsedIds(descs)
      /\ \A k \in DOMAIN descs :
           LET p == descs[k]
           IN  /\ assert_line_desc_pool(p)
               /\ p.allocated_items = Cardinality(given(p))
               /\ ToSet(p.free_list) = 1 .. p.size \ {lines[i].ld[2] : i \in given(p)}
               /\ \A j \in DOMAIN descs : j # k => descs[j].id # p.id

(* Both, the memory of the bytes and that of the descriptors.              *)
MemoryOwned == BytesOwned /\ DescsOwned

(* The undo step of a deletion is as long as what was deleted, even when   *)
(* the document ended before or memory ran out: undo() takes as many bytes *)
(* from the undo stream.                                                   *)
DeletionRecorded == op = "none" => owed <= 0

(* The undo step of an insertion is as long as what was inserted: undo()   *)
(* deletes as many bytes (buffer.c: "It also records the inverse operation *)
(* in the undo buffer").                                                   *)
InsertionRecorded == op = "none" => owed >= 0
-----------------------------------------------------------------------------
(* The document as one sequence of bytes.  The places of the lines before  *)
(* line l are those of their bytes and of their ends; Start is the offset  *)
(* of line l, and byte i is the one that is at place i.                    *)
Texts == [k \in DOMAIN lines |-> Text(lines[k])]
Places(ts, l) == UNION {{k} \X (0 .. Len(ts[k])) : k \in 1 .. l - 1}
Start(ts, l) == Cardinality(Places(ts, l))
ByteAt(ts, i) ==
  LET l == CHOOSE k \in DOMAIN ts : Start(ts, k) < i /\ i <= Start(ts, k + 1)
      p == i - Start(ts, l)
  IN  IF p <= Len(ts[l]) THEN ts[l][p] ELSE NL
Flattened(ts) == [i \in 1 .. Start(ts, Len(ts) + 1) - 1 |-> ByteAt(ts, i)]

(* The offset of a position, of the marks, and of what is left to do.      *)
Offset(l, p) == Start(Texts, l) + p
FlatMarks ==
  [m \in DOMAIN marks |-> IF marks[m].pos > lines[marks[m].line].line_len THEN -1
                          ELSE Offset(marks[m].line, marks[m].pos)]
Pending ==
  [kind |-> op, off |-> IF op = "none" THEN 0 ELSE Offset(line, pos + len),
   bytes |-> rest, left |-> left]

Flat == INSTANCE FlatDocument WITH
  Char <- Byte \cup {NL}, text <- Flattened(Texts), marks <- FlatMarks, pend <- Pending

(* Whatever the lines and the memory go through, an insertion puts its     *)
(* bytes at its offset, a deletion takes away those after its own, the     *)
(* mark and the bookmarks stay at their bytes, and nothing else changes.   *)
(* Only a deletion for which memory runs out loses the marks after it:     *)
(* they go back, or are past the end of a line (FlatDocument!GiveUp).      *)
IsFlatDocument == Flat!Spec
=============================================================================
