-------------------------- MODULE TextLinesProofs --------------------------
(***************************************************************************)
(* Proofs about TextLines: what the two functions record for undo(), where *)
(* they leave the mark and the bookmarks, and that every byte and every    *)
(* line descriptor in use belongs to one line.                             *)
(***************************************************************************)
EXTENDS TextLines, PoolProofs

-----------------------------------------------------------------------------
(* The elements of T below x.                                             *)
Below(T, x) == {y \in T : y < x}

(* The elements of a finite set can be numbered: the line ends that        *)
(* load_fd_in_buffer() meets, one after the other.                         *)
LEMMA Ranked ==
  ASSUME NEW T, T \subseteq Nat, IsFiniteSet(T),
         NEW k \in 1 .. Cardinality(T)
  PROVE  \E x \in T : Cardinality(Below(T, x)) = k - 1
<1> DEFINE Good(j) == \E x \in T : Cardinality(Below(T, x)) = j - 1
           Bad == {j \in 1 .. Cardinality(T) : ~Good(j)}
<1>1. SUFFICES ASSUME Bad # {} PROVE FALSE
  OBVIOUS
<1>2. Cardinality(T) \in Nat /\ Bad \subseteq Nat
  BY FS_CardinalityType
<1>3. PICK j \in Bad : \A i \in Bad : j <= i
  BY <1>1, <1>2, Least
<1>a. j \in 1 .. Cardinality(T)
  BY <1>3
<1>b. \A x \in T : Cardinality(Below(T, x)) # j - 1
  BY <1>3
<1>4. \A x \in T : IsFiniteSet(Below(T, x)) /\ Cardinality(Below(T, x)) \in Nat
  BY FS_Subset, FS_CardinalityType DEF Below
<1>5. j # 1
  <2>1. SUFFICES ASSUME j = 1 PROVE FALSE
    OBVIOUS
  <2>2. T # {}
    BY <1>2, <2>1, FS_EmptySet
  <2>3. PICK x \in T : \A y \in T : x <= y
    BY <2>2, Least
  <2>4. \A y \in T : ~(y < x)
    BY <2>3
  <2>6. Below(T, x) = {}
    BY <2>4 DEF Below
  <2>5. Cardinality(Below(T, x)) = j - 1
    BY <2>1, <2>6, FS_EmptySet
  <2> QED
    BY <1>b, <2>5
<1>6. j - 1 \in 1 .. Cardinality(T) /\ ~(j <= j - 1)
  BY <1>2, <1>5
<1>7. Good(j - 1)
  BY <1>3, <1>6
<1>8. PICK x \in T : Cardinality(Below(T, x)) = j - 1 - 1
  BY <1>7
<1> DEFINE Upto == Below(T, x) \cup {x}
           After == T \ Upto
<1>9. IsFiniteSet(Upto) /\ Cardinality(Upto) = j - 1
  <2>1. x \notin Below(T, x)
    BY DEF Below
  <2> QED
    BY <1>2, <1>4, <1>8, <2>1, FS_AddElement
<1>10. After # {}
  <2>1. SUFFICES ASSUME After = {} PROVE FALSE
    OBVIOUS
  <2>2. T = Upto
    BY <2>1 DEF Below
  <2> QED
    BY <1>2, <1>9, <1>a, <2>2
<1>11. PICK y \in After : \A z \in After : y <= z
  BY <1>10, Least
<1>12. Below(T, y) = Upto
  <2>1. x \in Nat /\ y \in Nat /\ x < y
    BY <1>11 DEF Below
  <2>2. \A z \in Upto : z \in T /\ z < y
    BY <2>1 DEF Below
  <2>3. \A z \in T : z < y => z \in Upto
    BY <1>11, <2>1
  <2> QED
    BY <2>2, <2>3 DEF Below
<1>13. y \in T /\ Cardinality(Below(T, y)) = j - 1
  BY <1>9, <1>11, <1>12
<1> QED
  BY <1>b, <1>13

(* A file has one break for each of its line ends, and one before it.      *)
LEMMA BreaksFinite ==
  ASSUME NEW t \in Seq(Byte \cup {NL})
  PROVE  /\ Breaks(t) \subseteq 0 .. Len(t) /\ IsFiniteSet(Breaks(t))
         /\ Len(t) \in Nat
         /\ LineCount(t) \in Nat \ {0}
<1>1. Len(t) \in Nat /\ DOMAIN t = 1 .. Len(t)
  OBVIOUS
<1>2. Breaks(t) \subseteq 0 .. Len(t) /\ 0 \in Breaks(t)
  BY <1>1 DEF Breaks
<1>3. IsFiniteSet(0 .. Len(t))
  BY <1>1, FS_Interval
<1>4. IsFiniteSet(Breaks(t))
  BY <1>2, <1>3, FS_Subset
<1>5. Cardinality(Breaks(t)) # 0 /\ Cardinality(Breaks(t)) \in Nat
  BY <1>2, <1>4, FS_EmptySet, FS_CardinalityType
<1> QED
  BY <1>1, <1>2, <1>4, <1>5 DEF LineCount

(* The k-th of the breaks of a file: where its k-th line begins.           *)
LEMMA BreakIs ==
  ASSUME NEW t \in Seq(Byte \cup {NL}), NEW k \in 1 .. LineCount(t)
  PROVE  /\ Break(t, k) \in Breaks(t)
         /\ Cardinality(Below(Breaks(t), Break(t, k))) = k - 1
<1>1. Breaks(t) \subseteq Nat /\ IsFiniteSet(Breaks(t))
  BY BreaksFinite
<1>2. k \in 1 .. Cardinality(Breaks(t))
  BY DEF LineCount
<1>3. \E o \in Breaks(t) : Cardinality(Below(Breaks(t), o)) = k - 1
  BY <1>1, <1>2, Ranked
<1> QED
  BY <1>3 DEF Break, Below

(* A line ends where it begins or after, and before the next one begins.   *)
LEMMA LineEndNat ==
  ASSUME NEW t \in Seq(Byte \cup {NL}), NEW k \in 1 .. LineCount(t)
  PROVE  LineEnd(t, k) - Break(t, k) \in Nat
<1>1. Breaks(t) \subseteq 0 .. Len(t) /\ IsFiniteSet(Breaks(t)) /\ Len(t) \in Nat
  BY BreaksFinite
<1>2. LineCount(t) \in Nat
  BY <1>1, FS_CardinalityType DEF LineCount
<1>3. Break(t, k) \in 0 .. Len(t)
  BY <1>1, BreakIs
<1>4. CASE ~(k < LineCount(t))
  BY <1>1, <1>3, <1>4 DEF LineEnd
<1>5. CASE k < LineCount(t)
  <2> DEFINE o == Break(t, k)
             p == Break(t, k + 1)
  <2>1. k + 1 \in 1 .. LineCount(t) /\ k \in Nat
    BY <1>2, <1>5
  <2>2. p \in 0 .. Len(t) /\ Cardinality(Below(Breaks(t), p)) = k + 1 - 1
    BY <1>1, <2>1, BreakIs
  <2>3. Cardinality(Below(Breaks(t), o)) = k - 1
    BY BreakIs
  <2>4. o < p
    <3>1. SUFFICES ASSUME p <= o PROVE FALSE
      BY <1>3, <2>2
    <3>2. Below(Breaks(t), p) \subseteq Below(Breaks(t), o)
      BY <1>1, <1>3, <2>2, <3>1 DEF Below
    <3>3. IsFiniteSet(Below(Breaks(t), o))
      BY <1>1, FS_Subset DEF Below
    <3>4. Cardinality(Below(Breaks(t), p)) <= Cardinality(Below(Breaks(t), o))
      BY <3>2, <3>3, FS_Subset
    <3> QED
      BY <2>1, <2>2, <2>3, <3>4
  <2> QED
    BY <1>3, <1>5, <2>2, <2>4 DEF LineEnd
<1> QED
  BY <1>4, <1>5
-----------------------------------------------------------------------------
(* What a line and a mark are, as far as their lengths go.                 *)
IsLine(ld) ==
  /\ ld = [ld |-> ld.ld, line |-> ld.line, line_len |-> ld.line_len]
  /\ ld.line_len \in Nat
IsMark(m, n) == m \in Mark /\ m.line \in 1 .. n

AreLines(s) ==
  /\ Len(s) \in Nat \ {0}
  /\ s = [i \in 1 .. Len(s) |-> s[i]]
  /\ \A i \in 1 .. Len(s) : IsLine(s[i])

LinesInv == AreLines(lines) /\ num_lines = Len(lines)

(* The place where a function is; between two pieces of an insertion no    *)
(* mark lies inside the bytes that were just put in, so that a break after *)
(* them leaves it at a position of the new line.                           *)
PlaceInv ==
  /\ op \in {"none", "insert", "delete"}
  /\ line \in 1 .. Len(lines)
  /\ pos \in Nat /\ pos <= lines[line].line_len
  /\ len \in Nat /\ pos + len <= lines[line].line_len
  /\ op # "insert" => len = 0

MarksInv ==
  /\ marks = [k \in DOMAIN marks |-> marks[k]]
  /\ \A k \in DOMAIN marks :
       /\ IsMark(marks[k], Len(lines))
       /\ marks[k].line = line /\ marks[k].pos > pos => marks[k].pos >= pos + len

(* What is left to do is what the undo step is too long for.               *)
OwedInv ==
  /\ left \in Nat /\ rest \in Seq(Byte \cup {NL})
  /\ op = "none"   => owed \in Int /\ owed <= 0
  /\ op = "insert" => owed = -Len(rest)
  /\ op = "delete" => owed = left

Inv == LinesInv /\ PlaceInv /\ MarksInv /\ OwedInv

(* A document that is loaded has lines of some length.                     *)
LEMMA LinesLoaded ==
  ASSUME NEW t \in Files, t # <<>>, Load(t)
  PROVE  LinesInv
<1>1. t \in Seq(Byte \cup {NL})
  BY FilesAssumption
<1>2. LineCount(t) \in Nat \ {0}
  BY <1>1, BreaksFinite
<1>3. lines = [k \in 1 .. LineCount(t) |-> LoadedLine(t, k)] /\ num_lines = LineCount(t)
  BY DEF Load
<1>4. Len(lines) = LineCount(t)
  BY <1>2, <1>3
<1>5. ASSUME NEW k \in 1 .. LineCount(t) PROVE IsLine(lines[k])
  <2>1. LineEnd(t, k) - Break(t, k) \in Nat
    BY <1>1, LineEndNat
  <2>2. lines[k] = LoadedLine(t, k)
    BY <1>3
  <2> QED
    BY <2>1, <2>2 DEF IsLine, LoadedLine
<1> QED
  BY <1>2, <1>3, <1>4, <1>5 DEF LinesInv, AreLines

(* The invariant holds at first.                                           *)
LEMMA InitInv == Init => Inv
<1>1. SUFFICES ASSUME Init PROVE Inv
  OBVIOUS
<1>2. PICK t \in Files : IF t = <<>> THEN Cleared ELSE Load(t)
  BY <1>1 DEF Init
<1>3. LinesInv
  <2>1. CASE t = <<>>
    <3> DEFINE ld == [ld |-> <<1, 1>>, line |-> Null, line_len |-> 0]
    <3>1. lines = <<ld>> /\ num_lines = 1
      BY <1>2, <2>1 DEF Cleared
    <3>2. IsLine(ld)
      BY DEF IsLine
    <3> HIDE DEF ld
    <3>3. Len(lines) = 1 /\ lines = [i \in 1 .. 1 |-> ld] /\ lines[1] = ld
      BY <3>1
    <3> QED
      BY <3>1, <3>2, <3>3 DEF LinesInv, AreLines
  <2>2. CASE t # <<>>
    <3>1. Load(t)
      BY <1>2, <2>2
    <3> QED
      BY <2>2, <3>1, LinesLoaded
  <2> QED
    BY <2>1, <2>2
<1>4. op = "none" /\ line = 1 /\ pos = 0 /\ len = 0 /\ rest = <<>> /\ left = 0 /\ owed = 0 /\ marks = <<>>
  BY <1>1 DEF Init, Idle
<1>5. PlaceInv
  BY <1>3, <1>4 DEF LinesInv, AreLines, PlaceInv, IsLine
<1>6. MarksInv
  BY <1>4 DEF MarksInv
<1>7. OwedInv
  BY <1>4 DEF OwedInv
<1> QED
  BY <1>3, <1>5, <1>6, <1>7 DEF Inv
-----------------------------------------------------------------------------
(* A line is changed, and the others are not.                              *)
LEMMA LineSet ==
  ASSUME NEW s, AreLines(s), NEW i \in 1 .. Len(s), NEW r,
         r = [j \in 1 .. Len(s) |-> r[j]],
         \A j \in 1 .. Len(s) : j # i => r[j] = s[j],
         IsLine(r[i])
  PROVE  AreLines(r) /\ Len(r) = Len(s)
<1>1. Len(s) \in Nat \ {0} /\ \A j \in 1 .. Len(s) : IsLine(s[j])
  BY DEF AreLines
<1>2. Len(r) = Len(s)
  BY <1>1
<1>3. \A j \in 1 .. Len(s) : IsLine(r[j])
  BY <1>1
<1> QED
  BY <1>1, <1>2, <1>3 DEF AreLines


(* A new line among the others.                                            *)
LEMMA LineInserted ==
  ASSUME NEW s, AreLines(s), NEW i \in 1 .. Len(s) + 1, NEW new, IsLine(new)
  PROVE  /\ AreLines(InsertAt(s, i, new))
         /\ Len(InsertAt(s, i, new)) = Len(s) + 1
         /\ InsertAt(s, i, new)[i] = new
<1> DEFINE S == {s[j] : j \in 1 .. Len(s)} \cup {new}
           r == InsertAt(s, i, new)
<1>1. Len(s) \in Nat \ {0} /\ s = [j \in 1 .. Len(s) |-> s[j]] /\ \A j \in 1 .. Len(s) : IsLine(s[j])
  BY DEF AreLines
<1>2. s \in Seq(S) /\ new \in S
  BY <1>1
<1> HIDE DEF S
<1>3. r = [j \in 1 .. Len(s) + 1 |-> IF j < i THEN s[j] ELSE IF j = i THEN new ELSE s[j - 1]]
  BY <1>2, Inserted
<1> HIDE DEF r
<1>4. Len(r) = Len(s) + 1
  BY <1>1, <1>3
<1>5. \A j \in 1 .. Len(s) + 1 : r[j] = IF j < i THEN s[j] ELSE IF j = i THEN new ELSE s[j - 1]
  BY <1>3
<1>6. \A j \in 1 .. Len(s) + 1 : IsLine(r[j])
  BY <1>1, <1>5
<1>7. AreLines(r) /\ r[i] = new
  BY <1>1, <1>3, <1>4, <1>5, <1>6 DEF AreLines
<1> QED
  BY <1>4, <1>7 DEF r

(* One of several lines is gone; those before it are where they were.      *)
LEMMA LineRemoved ==
  ASSUME NEW s, AreLines(s), NEW i \in 2 .. Len(s)
  PROVE  /\ AreLines(RemoveAt(s, i))
         /\ Len(RemoveAt(s, i)) = Len(s) - 1
         /\ \A j \in 1 .. i - 1 : RemoveAt(s, i)[j] = s[j]
<1> DEFINE S == {s[j] : j \in 1 .. Len(s)}
           r == RemoveAt(s, i)
<1>1. Len(s) \in Nat \ {0} /\ s = [j \in 1 .. Len(s) |-> s[j]] /\ \A j \in 1 .. Len(s) : IsLine(s[j])
  BY DEF AreLines
<1>2. s \in Seq(S) /\ i \in 1 .. Len(s)
  BY <1>1
<1> HIDE DEF S
<1>3. r = [j \in 1 .. Len(s) - 1 |-> IF j < i THEN s[j] ELSE s[j + 1]]
  BY <1>2, Removed
<1> HIDE DEF r
<1>4. Len(r) = Len(s) - 1 /\ Len(r) \in Nat \ {0}
  BY <1>1, <1>3
<1>5. \A j \in 1 .. Len(s) - 1 : r[j] = IF j < i THEN s[j] ELSE s[j + 1]
  BY <1>3
<1>6. \A j \in 1 .. Len(s) - 1 : IsLine(r[j])
  BY <1>1, <1>5
<1>7. AreLines(r) /\ \A j \in 1 .. i - 1 : r[j] = s[j]
  BY <1>1, <1>3, <1>4, <1>5, <1>6 DEF AreLines
<1> QED
  BY <1>4, <1>7 DEF r
-----------------------------------------------------------------------------
(* The first piece of a stream is a part of it.                            *)
LEMMA PieceLenNat ==
  ASSUME rest \in Seq(Byte \cup {NL})
  PROVE  PieceLen \in Nat /\ PieceLen <= Len(rest)
<1> DEFINE T == {Len(rest)} \cup {i - 1 : i \in {j \in DOMAIN rest : rest[j] = NL}}
<1>1. Len(rest) \in Nat /\ DOMAIN rest = 1 .. Len(rest)
  OBVIOUS
<1>2. T \subseteq Nat /\ Len(rest) \in T
  BY <1>1
<1> HIDE DEF T
<1>3. Min(T) \in Nat /\ Min(T) <= Len(rest)
  BY <1>2, MinIs
<1> QED
  BY <1>3 DEF PieceLen, T

(* insert_stream() puts a piece in a line.                                 *)
LEMMA InsertPieceInv == Inv /\ InsertPiece => Inv'
<1> SUFFICES ASSUME Inv, InsertPiece PROVE Inv'
  OBVIOUS
<1> DEFINE n == PieceLen
<1>1. n \in Nat /\ n <= Len(rest) /\ rest \in Seq(Byte \cup {NL}) /\ op = "insert"
  BY PieceLenNat DEF Inv, OwedInv, InsertPiece
<1>2. /\ len' = n /\ rest' = SubSeq(rest, n + 1, Len(rest)) /\ owed' = owed + n
      /\ marks' = [k \in DOMAIN marks |-> AfterPiece(marks[k], n)]
      /\ num_lines' = num_lines /\ op' = op /\ line' = line /\ pos' = pos /\ left' = left
  BY DEF InsertPiece, MoveMarks
<1>3. PICK at : lines' = [lines EXCEPT ![line].line = at, ![line].line_len = @ + n]
  BY DEF InsertPiece
<1> HIDE DEF n
<1>4. AreLines(lines) /\ num_lines = Len(lines) /\ line \in 1 .. Len(lines) /\ IsLine(lines[line])
  BY DEF Inv, LinesInv, PlaceInv, AreLines
<1>5. DOMAIN lines = 1 .. Len(lines)
  BY <1>4 DEF AreLines
<1>6. /\ lines' = [j \in 1 .. Len(lines) |-> lines'[j]]
      /\ \A j \in 1 .. Len(lines) : j # line => lines'[j] = lines[j]
      /\ lines'[line] = [ld |-> lines[line].ld, line |-> at, line_len |-> lines[line].line_len + n]
  BY <1>3, <1>4, <1>5 DEF IsLine
<1>7. IsLine(lines'[line]) /\ lines'[line].line_len = lines[line].line_len + n
  BY <1>1, <1>4, <1>6 DEF IsLine
<1>8. AreLines(lines') /\ Len(lines') = Len(lines)
  BY <1>4, <1>6, <1>7, LineSet
<1>9. LinesInv'
  BY <1>2, <1>4, <1>8 DEF LinesInv
<1>10. PlaceInv'
  BY <1>1, <1>2, <1>4, <1>7, <1>8 DEF Inv, PlaceInv, IsLine
<1>11. MarksInv'
  <2>1. ASSUME NEW k \in DOMAIN marks
        PROVE  /\ IsMark(marks'[k], Len(lines))
               /\ marks'[k].line = line /\ marks'[k].pos > pos => marks'[k].pos >= pos + n
    <3>1. marks[k] \in Mark /\ marks[k].line \in 1 .. Len(lines)
      BY DEF Inv, MarksInv, IsMark
    <3>2. marks'[k] = IF marks[k].line = line /\ marks[k].pos > pos
                        THEN [line |-> line, pos |-> marks[k].pos + n] ELSE marks[k]
      BY <1>2, <3>1 DEF AfterPiece, Mark
    <3>3. pos \in Nat
      BY DEF Inv, PlaceInv
    <3> QED
      BY <1>1, <3>1, <3>2, <3>3 DEF IsMark, Mark
  <2> QED
    BY <1>2, <1>8, <2>1 DEF MarksInv
<1>12. OwedInv'
  <2>1. rest' \in Seq(Byte \cup {NL}) /\ Len(rest') = Len(rest) - n
    BY <1>1, <1>2, SubSeqProperties
  <2>2. owed = -Len(rest) /\ left \in Nat
    BY <1>1 DEF Inv, OwedInv
  <2> QED
    BY <1>1, <1>2, <2>1, <2>2 DEF OwedInv
<1> QED
  BY <1>9, <1>10, <1>11, <1>12 DEF Inv

(* insert_stream() breaks a line; what follows goes to the next one, and   *)
(* the marks that are in it with it.                                       *)
LEMMA BreakLineInv == Inv /\ BreakLine => Inv'
<1> SUFFICES ASSUME Inv, BreakLine PROVE Inv'
  OBVIOUS
<1> DEFINE cut == pos + len
<1>1. /\ AreLines(lines) /\ num_lines = Len(lines) /\ line \in 1 .. Len(lines) /\ IsLine(lines[line])
      /\ Len(lines) \in Nat
  BY DEF Inv, LinesInv, PlaceInv, AreLines
<1>2. /\ op = "insert" /\ pos \in Nat /\ len \in Nat /\ cut \in Nat /\ cut <= lines[line].line_len
      /\ lines[line].line_len \in Nat
  BY <1>1 DEF Inv, PlaceInv, BreakLine, IsLine
<1>3. /\ num_lines' = num_lines + 1 /\ line' = line + 1 /\ pos' = 0 /\ len' = 0 /\ rest' = Tail(rest)
      /\ owed' = owed + 1 /\ op' = op /\ left' = left /\ rest # <<>>
      /\ marks' = [k \in DOMAIN marks |-> AfterBreak(marks[k], cut)]
  BY DEF BreakLine, MoveMarks
<1> DEFINE got == alloc_line_desc(descs)
           new == IF cut < lines[line].line_len
                  THEN [ld |-> got.ld, line |-> Plus(lines[line].line, cut),
                        line_len |-> lines[line].line_len - cut]
                  ELSE [ld |-> got.ld, line |-> Null, line_len |-> 0]
           old == [lines[line] EXCEPT !.line = IF cut = 0 THEN Null ELSE @, !.line_len = cut]
           mid == [lines EXCEPT ![line] = old]
<1>4. lines' = InsertAt(mid, line + 1, new)
  BY DEF BreakLine
<1>5. IsLine(new)
  BY <1>2 DEF IsLine
<1>6. IsLine(old)
  <2>1. old = [ld |-> lines[line].ld, line |-> IF cut = 0 THEN Null ELSE lines[line].line, line_len |-> cut]
    <3> DEFINE x == IF cut = 0 THEN Null ELSE lines[line].line
               d == lines[line]
    <3>1. old = [d EXCEPT !.line = x, !.line_len = cut]
      OBVIOUS
    <3>2. d = [ld |-> d.ld, line |-> d.line, line_len |-> d.line_len]
      BY <1>1 DEF IsLine
    <3> HIDE DEF x, d, cut
    <3>3. [d EXCEPT !.line = x, !.line_len = cut] = [ld |-> d.ld, line |-> x, line_len |-> cut]
      <4>1. DOMAIN d = {"ld", "line", "line_len"} /\ d = [f \in {"ld", "line", "line_len"} |-> d[f]]
        BY ONLY <3>2
      <4> DEFINE e == [d EXCEPT !.line = x, !.line_len = cut]
      <4>2. /\ DOMAIN e = {"ld", "line", "line_len"} /\ e = [f \in {"ld", "line", "line_len"} |-> e[f]]
            /\ e.ld = d.ld /\ e.line = x /\ e.line_len = cut
        BY <4>1
      <4> HIDE DEF e
      <4>3. e = [ld |-> d.ld, line |-> x, line_len |-> cut]
        BY <4>2
      <4> QED
        BY <4>3 DEF e
    <3> QED
      BY <3>1, <3>3 DEF x, d
  <2> HIDE DEF old, cut
  <2>2. old.ld = lines[line].ld /\ old.line = (IF cut = 0 THEN Null ELSE lines[line].line) /\ old.line_len = cut
    BY <2>1
  <2> QED
    BY <1>2, <2>1, <2>2 DEF IsLine
<1> HIDE DEF new, old, got, cut
<1>7. /\ mid = [j \in 1 .. Len(lines) |-> mid[j]] /\ mid[line] = old
      /\ \A j \in 1 .. Len(lines) : j # line => mid[j] = lines[j]
  BY <1>1 DEF AreLines
<1> HIDE DEF mid
<1>8. AreLines(mid) /\ Len(mid) = Len(lines)
  BY <1>1, <1>6, <1>7, LineSet
<1>9. AreLines(lines') /\ Len(lines') = Len(lines) + 1 /\ lines'[line + 1] = new
  BY <1>1, <1>4, <1>5, <1>8, LineInserted
<1>10. LinesInv'
  BY <1>1, <1>3, <1>9 DEF LinesInv
<1>11. PlaceInv'
  <2>1. line' \in 1 .. Len(lines')
    BY <1>1, <1>3, <1>9
  <2>2. lines'[line'].line_len \in Nat
    BY <1>3, <1>5, <1>9 DEF IsLine
  <2> QED
    BY <1>2, <1>3, <2>1, <2>2 DEF PlaceInv
<1>12. MarksInv'
  <2>1. ASSUME NEW k \in DOMAIN marks
        PROVE  IsMark(marks'[k], Len(lines) + 1)
    <3>1. /\ marks[k] \in Mark /\ marks[k].line \in 1 .. Len(lines)
          /\ marks[k].line = line /\ marks[k].pos > pos => marks[k].pos >= cut
      BY DEF Inv, MarksInv, IsMark, cut
    <3>2. marks'[k] = IF marks[k].line = line /\ marks[k].pos > pos
                        THEN [line |-> line + 1, pos |-> marks[k].pos - cut]
                      ELSE IF marks[k].line > line
                        THEN [line |-> marks[k].line + 1, pos |-> marks[k].pos]
                      ELSE marks[k]
      BY <1>3, <3>1 DEF AfterBreak, Mark
    <3> QED
      BY <1>1, <1>2, <3>1, <3>2 DEF IsMark, Mark
  <2>2. \A k \in DOMAIN marks : marks'[k].pos \in Nat
    BY <2>1 DEF IsMark, Mark
  <2> QED
    BY <1>3, <1>9, <2>1, <2>2 DEF MarksInv
<1>13. OwedInv'
  <2>1. rest \in Seq(Byte \cup {NL}) /\ owed = -Len(rest) /\ left \in Nat
    BY <1>2 DEF Inv, OwedInv
  <2>2. rest' \in Seq(Byte \cup {NL}) /\ Len(rest') = Len(rest) - 1
    BY <1>3, <2>1
  <2> QED
    BY <1>2, <1>3, <2>1, <2>2 DEF OwedInv
<1> QED
  BY <1>10, <1>11, <1>12, <1>13 DEF Inv

(* delete_stream() joins a line with the next one.                         *)
LEMMA JoinLinesInv == Inv /\ JoinLines => Inv'
<1> SUFFICES ASSUME Inv, JoinLines PROVE Inv'
  OBVIOUS
<1>1. /\ AreLines(lines) /\ num_lines = Len(lines) /\ line \in 1 .. Len(lines)
      /\ Len(lines) \in Nat
      /\ \A j \in 1 .. Len(lines) : IsLine(lines[j])
  BY DEF Inv, LinesInv, PlaceInv, AreLines
<1>2. op = "delete" /\ left > 0 /\ line # Len(lines) /\ pos = lines[line].line_len
  BY DEF JoinLines, AtEnd, AtEndOfText
<1>3. line + 1 \in 2 .. Len(lines)
  BY <1>1, <1>2
<1>4. /\ IsLine(lines[line]) /\ IsLine(lines[line + 1])
      /\ lines[line].line_len \in Nat /\ lines[line + 1].line_len \in Nat
  BY <1>1, <1>3 DEF IsLine
<1>5. /\ num_lines' = num_lines - 1 /\ left' = left - 1 /\ owed' = owed - 1
      /\ op' = op /\ line' = line /\ pos' = pos /\ len' = len /\ rest' = rest
      /\ marks' = [k \in DOMAIN marks |-> AfterJoin(marks[k], lines[line].line_len)]
  BY DEF JoinLines, MoveMarks
<1> DEFINE at  == Joined(lines[line], lines[line + 1]).at
           mid == [lines EXCEPT ![line].line = at, ![line].line_len = @ + lines[line + 1].line_len]
<1>6. lines' = RemoveAt(mid, line + 1)
  BY DEF JoinLines
<1> HIDE DEF at
<1>7. /\ mid = [j \in 1 .. Len(lines) |-> mid[j]]
      /\ \A j \in 1 .. Len(lines) : j # line => mid[j] = lines[j]
      /\ mid[line] = [ld |-> lines[line].ld, line |-> at,
                      line_len |-> lines[line].line_len + lines[line + 1].line_len]
  <2>1. DOMAIN lines = 1 .. Len(lines)
    BY <1>1 DEF AreLines
  <2>2. lines[line] = [ld |-> lines[line].ld, line |-> lines[line].line, line_len |-> lines[line].line_len]
    BY <1>4 DEF IsLine
  <2>3. /\ mid = [j \in 1 .. Len(lines) |-> mid[j]]
        /\ \A j \in 1 .. Len(lines) : j # line => mid[j] = lines[j]
    BY <2>1
  <2>4. mid[line] = [ld |-> lines[line].ld, line |-> at, line_len |-> lines[line].line_len + lines[line + 1].line_len]
    BY <1>1, <2>1, <2>2
  <2> QED
    BY ONLY <2>3, <2>4
<1> HIDE DEF mid
<1>8. IsLine(mid[line]) /\ mid[line].line_len >= lines[line].line_len
  <2>1. mid[line].line_len = lines[line].line_len + lines[line + 1].line_len
    BY <1>7
  <2>2. mid[line] = [ld |-> mid[line].ld, line |-> mid[line].line, line_len |-> mid[line].line_len]
    BY <1>7
  <2> QED
    BY <1>4, <2>1, <2>2 DEF IsLine
<1>9. AreLines(mid) /\ Len(mid) = Len(lines)
  BY <1>1, <1>7, <1>8, LineSet
<1>10. AreLines(lines') /\ Len(lines') = Len(lines) - 1 /\ lines'[line] = mid[line]
  BY <1>1, <1>3, <1>6, <1>9, LineRemoved
<1>11. LinesInv'
  BY <1>1, <1>5, <1>10 DEF LinesInv
<1>12. PlaceInv'
  <2>1. line' \in 1 .. Len(lines')
    BY <1>1, <1>3, <1>5, <1>10
  <2>2. /\ pos \in Nat /\ len = 0
    BY <1>2 DEF Inv, PlaceInv
  <2>3. pos <= lines'[line].line_len /\ lines'[line].line_len \in Nat
    BY <1>2, <1>4, <1>8, <1>10 DEF IsLine
  <2> QED
    BY <1>2, <1>5, <2>1, <2>2, <2>3 DEF PlaceInv
<1>13. MarksInv'
  <2>0. len = 0 /\ pos \in Nat
    BY <1>2 DEF Inv, PlaceInv
  <2>1. ASSUME NEW k \in DOMAIN marks
        PROVE  IsMark(marks'[k], Len(lines) - 1)
    <3>1. marks[k] \in Mark /\ marks[k].line \in 1 .. Len(lines)
      BY DEF Inv, MarksInv, IsMark
    <3>2. marks'[k] = IF marks[k].line = line + 1
                        THEN [line |-> line, pos |-> marks[k].pos + lines[line].line_len]
                      ELSE IF marks[k].line > line
                        THEN [line |-> marks[k].line - 1, pos |-> marks[k].pos]
                      ELSE marks[k]
      BY <1>5, <3>1 DEF AfterJoin, Mark
    <3> QED
      BY <1>1, <1>2, <1>3, <1>4, <3>1, <3>2 DEF IsMark, Mark
  <2>2. \A k \in DOMAIN marks : marks'[k].pos \in Nat
    BY <2>1 DEF IsMark, Mark
  <2> QED
    BY <1>5, <1>10, <2>0, <2>1, <2>2 DEF MarksInv
<1>14. OwedInv'
  BY <1>2, <1>5 DEF Inv, OwedInv
<1> QED
  BY <1>11, <1>12, <1>13, <1>14 DEF Inv

(* delete_stream() deletes bytes of a line.                                *)
LEMMA DeleteInLineInv == Inv /\ DeleteInLine => Inv'
<1> SUFFICES ASSUME Inv, DeleteInLine PROVE Inv'
  OBVIOUS
<1>1. /\ AreLines(lines) /\ num_lines = Len(lines) /\ line \in 1 .. Len(lines)
      /\ Len(lines) \in Nat /\ DOMAIN lines = 1 .. Len(lines)
      /\ IsLine(lines[line]) /\ lines[line].line_len \in Nat
  BY DEF Inv, LinesInv, PlaceInv, AreLines, IsLine
<1>2. /\ op = "delete" /\ left \in Nat /\ left > 0 /\ owed = left
      /\ pos \in Nat /\ pos < lines[line].line_len /\ len = 0 /\ rest \in Seq(Byte \cup {NL})
  BY <1>1 DEF Inv, PlaceInv, OwedInv, DeleteInLine, AtEnd
<1> DEFINE n   == Min({left, lines[line].line_len - pos})
           end == lines[line].line_len - n
<1>3. n \in Nat /\ n <= left /\ n <= lines[line].line_len - pos
  <2>1. {left, lines[line].line_len - pos} \subseteq Nat
    BY <1>1, <1>2
  <2> QED
    BY <2>1, MinIs
<1>4. /\ num_lines' = num_lines /\ left' = left - n /\ owed' = owed - n
      /\ op' = op /\ line' = line /\ pos' = pos /\ len' = len /\ rest' = rest
      /\ marks' = [k \in DOMAIN marks |-> AfterDeletion(marks[k], n)]
  BY DEF DeleteInLine, MoveMarks
<1> DEFINE fromHead == n < lines[line].line_len - pos /\ pos < lines[line].line_len \div 2
           at == IF end = 0 THEN Null ELSE IF fromHead THEN Plus(lines[line].line, n) ELSE lines[line].line
<1>5. lines' = [lines EXCEPT
                 ![line].line = IF end = 0 THEN Null ELSE IF fromHead THEN Plus(@, n) ELSE @,
                 ![line].line_len = end]
  BY DEF DeleteInLine
<1> HIDE DEF n, fromHead
<1>6. /\ lines' = [j \in 1 .. Len(lines) |-> lines'[j]]
      /\ \A j \in 1 .. Len(lines) : j # line => lines'[j] = lines[j]
      /\ lines'[line] = [ld |-> lines[line].ld, line |-> at, line_len |-> end]
  BY <1>1, <1>5 DEF IsLine
<1> HIDE DEF at
<1>7. IsLine(lines'[line]) /\ lines'[line].line_len = lines[line].line_len - n
  BY <1>1, <1>2, <1>3, <1>6 DEF IsLine
<1>8. AreLines(lines') /\ Len(lines') = Len(lines)
  BY <1>1, <1>6, <1>7, LineSet
<1>9. LinesInv'
  BY <1>1, <1>4, <1>8 DEF LinesInv
<1>10. PlaceInv'
  BY <1>1, <1>2, <1>3, <1>4, <1>7, <1>8 DEF PlaceInv
<1>11. MarksInv'
  <2>1. ASSUME NEW k \in DOMAIN marks
        PROVE  IsMark(marks'[k], Len(lines))
    <3>1. marks[k] \in Mark /\ marks[k].line \in 1 .. Len(lines)
      BY DEF Inv, MarksInv, IsMark
    <3>2. marks'[k] = IF marks[k].line # line \/ marks[k].pos < pos THEN marks[k]
                      ELSE [line |-> marks[k].line,
                            pos  |-> IF marks[k].pos < pos + n THEN pos ELSE marks[k].pos - n]
      BY <1>4, <3>1 DEF AfterDeletion, Mark
    <3> QED
      BY <1>1, <1>2, <1>3, <3>1, <3>2 DEF IsMark, Mark
  <2>2. \A k \in DOMAIN marks : marks'[k].pos \in Nat
    BY <2>1 DEF IsMark, Mark
  <2> QED
    BY <1>2, <1>4, <1>8, <2>1, <2>2 DEF MarksInv
<1>12. OwedInv'
  BY <1>2, <1>3, <1>4 DEF OwedInv
<1> QED
  BY <1>9, <1>10, <1>11, <1>12 DEF Inv

(* The two functions begin.                                                *)
LEMMA BeginInv ==
  ASSUME Inv, NEW l \in DOMAIN lines, NEW p \in 0 .. lines[l].line_len,
         \/ \E s \in Streams : InsertStream(l, p, s)
         \/ \E n \in 1 .. MaxDel : DeleteStream(l, p, n)
  PROVE  Inv'
<1>1. /\ op = "none" /\ line' = l /\ pos' = p /\ len' = len
      /\ lines' = lines /\ num_lines' = num_lines /\ marks' = marks
      /\ op' \in {"insert", "delete"}
  BY DEF InsertStream, DeleteStream, textVars
<1>2. /\ len = 0 /\ left \in Nat /\ rest \in Seq(Byte \cup {NL})
  BY <1>1 DEF Inv, PlaceInv, OwedInv
<1>3. l \in 1 .. Len(lines) /\ lines[l].line_len \in Nat
  BY DEF Inv, LinesInv, AreLines, IsLine
<1>4. LinesInv'
  BY <1>1 DEF Inv, LinesInv
<1>5. PlaceInv'
  BY <1>1, <1>2, <1>3 DEF PlaceInv
<1>6. MarksInv'
  <2>1. \A k \in DOMAIN marks : IsMark(marks[k], Len(lines)) /\ marks[k].pos \in Nat
    BY DEF Inv, MarksInv, IsMark, Mark
  <2> QED
    BY <1>1, <1>2, <1>3, <2>1 DEF Inv, MarksInv
<1>7. OwedInv'
  <2>1. CASE \E s \in Streams : InsertStream(l, p, s)
    <3>1. PICK s \in Streams : InsertStream(l, p, s)
      BY <2>1
    <3>2. s \in Seq(Byte \cup {NL}) /\ rest' = s /\ owed' = -Len(s) /\ op' = "insert" /\ left' = left
      BY <3>1, StreamsAssumption DEF InsertStream
    <3> QED
      BY <1>2, <3>2 DEF OwedInv
  <2>2. CASE \E n \in 1 .. MaxDel : DeleteStream(l, p, n)
    <3>1. PICK n \in 1 .. MaxDel : DeleteStream(l, p, n)
      BY <2>2
    <3>2. left' = n /\ owed' = n /\ op' = "delete" /\ rest' = rest /\ n \in Nat
      BY <3>1, LineBounds DEF DeleteStream
    <3> QED
      BY <1>2, <3>2 DEF OwedInv
  <2> QED
    BY <2>1, <2>2
<1> QED
  BY <1>4, <1>5, <1>6, <1>7 DEF Inv

(* The lines are not joined, but the marks have been moved: those of the   *)
(* second line are on the first one, those after it one line higher.       *)
LEMMA MarksUp ==
  ASSUME Inv, DeleteFails
  PROVE  /\ marks' = [k \in DOMAIN marks |-> marks'[k]]
         /\ \A k \in DOMAIN marks : IsMark(marks'[k], Len(lines))
<1>1. /\ line \in 1 .. Len(lines) /\ line # Len(lines) /\ Len(lines) \in Nat
      /\ lines[line].line_len \in Nat
      /\ marks' = [k \in DOMAIN marks |-> AfterJoin(marks[k], lines[line].line_len)]
  BY DEF Inv, LinesInv, PlaceInv, AreLines, IsLine, DeleteFails, MoveMarks, AtEnd, AtEndOfText
<1>2. ASSUME NEW k \in DOMAIN marks
      PROVE  IsMark(marks'[k], Len(lines))
  <2>1. marks[k] \in Mark /\ marks[k].line \in 1 .. Len(lines)
    BY DEF Inv, MarksInv, IsMark
  <2>2. marks'[k] = IF marks[k].line = line + 1
                      THEN [line |-> line, pos |-> marks[k].pos + lines[line].line_len]
                    ELSE IF marks[k].line > line
                      THEN [line |-> marks[k].line - 1, pos |-> marks[k].pos]
                    ELSE marks[k]
    BY <1>1, <2>1 DEF AfterJoin, Mark
  <2> QED
    BY <1>1, <2>1, <2>2 DEF IsMark, Mark
<1> QED
  BY <1>1, <1>2

(* They return, with the step for undo() corrected or not.                 *)
LEMMA ReturnInv ==
  ASSUME Inv, InsertEnd \/ InsertFails \/ DeleteEnd \/ DeleteFails
  PROVE  Inv'
<1>1. /\ op' = "none" /\ line' = 1 /\ pos' = 0 /\ len' = 0 /\ rest' = <<>> /\ left' = 0
      /\ lines' = lines /\ num_lines' = num_lines
  BY DEF InsertEnd, InsertFails, DeleteEnd, DeleteFails, Return, textVars
<1>2. LinesInv'
  BY <1>1 DEF Inv, LinesInv
<1>3. PlaceInv'
  BY <1>1 DEF Inv, LinesInv, AreLines, IsLine, PlaceInv
<1>4. MarksInv'
  <2>1. /\ marks' = [k \in DOMAIN marks |-> marks'[k]] /\ DOMAIN marks' = DOMAIN marks
        /\ \A k \in DOMAIN marks : IsMark(marks'[k], Len(lines))
    <3>1. CASE DeleteFails
      BY <3>1, MarksUp
    <3>2. CASE InsertEnd \/ InsertFails \/ DeleteEnd
      BY <3>2 DEF InsertEnd, InsertFails, DeleteEnd, Inv, MarksInv
    <3> QED
      BY <3>1, <3>2
  <2>2. \A k \in DOMAIN marks : marks'[k].pos \in Nat
    BY <2>1 DEF IsMark, Mark
  <2> QED
    BY <1>1, <2>1, <2>2 DEF MarksInv
<1>5. owed' \in Int /\ owed' <= 0
  <2>1. CASE InsertEnd \/ InsertFails
    <3>1. owed' = owed /\ op = "insert"
      BY <2>1 DEF InsertEnd, InsertFails
    <3>2. owed = -Len(rest) /\ Len(rest) \in Nat
      BY <3>1 DEF Inv, OwedInv
    <3> QED
      BY <3>1, <3>2
  <2>2. CASE DeleteEnd \/ DeleteFails
    <3>1. owed' = owed - left /\ op = "delete"
      BY <2>2 DEF DeleteEnd, DeleteFails
    <3>2. owed = left /\ left \in Nat
      BY <3>1 DEF Inv, OwedInv
    <3> QED
      BY <3>1, <3>2
  <2> QED
    BY <2>1, <2>2
<1>6. OwedInv'
  BY <1>1, <1>5 DEF OwedInv
<1> QED
  BY <1>2, <1>3, <1>4, <1>6 DEF Inv

(* MARK_A, SETBOOKMARK_A and UNSETBOOKMARK_A.                              *)
LEMMA SetMarkInv ==
  ASSUME Inv, NEW m \in Marks,
         \/ \E l \in DOMAIN lines : \E p \in 0 .. lines[l].line_len + 1 : SetMark(m, l, p)
         \/ UnsetMark(m)
  PROVE  Inv'
<1>1. /\ op = "none" /\ op' = op /\ line' = line /\ pos' = pos /\ len' = len /\ rest' = rest
      /\ left' = left /\ owed' = owed /\ lines' = lines /\ num_lines' = num_lines
  BY DEF SetMark, UnsetMark, textVars, runVars
<1>2. LinesInv' /\ PlaceInv' /\ OwedInv'
  BY <1>1 DEF Inv, LinesInv, PlaceInv, OwedInv
<1>3. len = 0 /\ pos \in Nat /\ \A k \in DOMAIN marks : IsMark(marks[k], Len(lines))
  BY <1>1 DEF Inv, PlaceInv, MarksInv
<1>4. ASSUME NEW l \in DOMAIN lines, NEW p \in 0 .. lines[l].line_len + 1, SetMark(m, l, p)
      PROVE  marks' = [k \in DOMAIN marks' |-> marks'[k]] /\ \A k \in DOMAIN marks' : IsMark(marks'[k], Len(lines))
  <2>1. l \in 1 .. Len(lines) /\ lines[l].line_len \in Nat /\ Len(lines) \in Nat
    BY DEF Inv, LinesInv, AreLines, IsLine
  <2>2. IsMark([line |-> l, pos |-> p], Len(lines))
    BY <2>1 DEF IsMark, Mark
  <2>3. marks' = [k \in DOMAIN marks \cup {m} |-> IF k = m THEN [line |-> l, pos |-> p] ELSE marks[k]]
    BY <1>4 DEF SetMark
  <2> QED
    BY <1>3, <2>2, <2>3
<1>5. ASSUME UnsetMark(m)
      PROVE  marks' = [k \in DOMAIN marks' |-> marks'[k]] /\ \A k \in DOMAIN marks' : IsMark(marks'[k], Len(lines))
  BY <1>3, <1>5 DEF UnsetMark, Restrict
<1>6. MarksInv'
  <2>1. marks' = [k \in DOMAIN marks' |-> marks'[k]] /\ \A k \in DOMAIN marks' : IsMark(marks'[k], Len(lines))
    BY <1>4, <1>5
  <2>2. \A k \in DOMAIN marks' : marks'[k].pos \in Nat
    BY <2>1 DEF IsMark, Mark
  <2> QED
    BY <1>1, <1>3, <2>1, <2>2 DEF MarksInv
<1> QED
  BY <1>2, <1>6 DEF Inv
-----------------------------------------------------------------------------
(* Every step of TextLines keeps the invariant.                            *)
LEMMA StepInv == Inv /\ [Next]_vars => Inv'
<1> SUFFICES ASSUME Inv, [Next]_vars PROVE Inv'
  OBVIOUS
<1>1. CASE \E l \in DOMAIN lines : \E p \in 0 .. lines[l].line_len :
             \/ \E s \in Streams : InsertStream(l, p, s)
             \/ \E n \in 1 .. MaxDel : DeleteStream(l, p, n)
  BY <1>1, BeginInv
<1>2. CASE InsertPiece
  BY <1>2, InsertPieceInv
<1>3. CASE BreakLine
  BY <1>3, BreakLineInv
<1>4. CASE JoinLines
  BY <1>4, JoinLinesInv
<1>5. CASE DeleteInLine
  BY <1>5, DeleteInLineInv
<1>6. CASE InsertEnd \/ InsertFails \/ DeleteEnd \/ DeleteFails
  BY <1>6, ReturnInv
<1>7. CASE \E m \in Marks, l \in DOMAIN lines : \E p \in 0 .. lines[l].line_len + 1 : SetMark(m, l, p)
  BY <1>7, SetMarkInv
<1>8. CASE \E m \in Marks : UnsetMark(m)
  BY <1>8, SetMarkInv
<1>9. CASE UNCHANGED vars
  BY <1>9 DEF Inv, LinesInv, PlaceInv, MarksInv, OwedInv, vars, textVars, runVars
<1> QED
  BY <1>1, <1>2, <1>3, <1>4, <1>5, <1>6, <1>7, <1>8, <1>9 DEF Next

(* The invariant holds in every state.                                     *)
LEMMA Invariance == Spec => []Inv
<1>1. Init => Inv
  BY InitInv
<1>2. Inv /\ [Next]_vars => Inv'
  BY StepInv
<1> QED
  BY <1>1, <1>2, PTL DEF Spec

(* The step that delete_stream() leaves in the undo buffer is never longer *)
(* than what it deleted, whether the document ended first or the memory    *)
(* for a joined line was not there: undo() would otherwise take bytes of   *)
(* another step from the undo stream.                                      *)
THEOREM DeletionsRecorded == Spec => []DeletionRecorded
<1>1. Inv => DeletionRecorded
  BY DEF Inv, OwedInv, DeletionRecorded
<1> QED
  BY <1>1, Invariance, PTL

(* The lines that there are, and places in them.                           *)
PlacesExist ==
  /\ num_lines = Len(lines) /\ line \in 1 .. Len(lines)
  /\ pos \in 0 .. lines[line].line_len
  /\ \A k \in DOMAIN marks : marks[k].line \in 1 .. Len(lines) /\ marks[k].pos \in Nat

(* The mark and the bookmarks stay on lines of the document, at positions  *)
(* that are not negative, through every insertion and deletion of buffer.c *)
(* and between two of their turns; also after a deletion for which memory  *)
(* runs out, which has moved them though the lines were not joined (they   *)
(* may then be past the end of their line).  The line and the position at  *)
(* which the two functions work are in the document, and num_lines is how  *)
(* many lines it has.                                                      *)
THEOREM MarksStay == Spec => []PlacesExist
<1>1. Inv => PlacesExist
  <2> SUFFICES ASSUME Inv PROVE PlacesExist
    OBVIOUS
  <2>1. num_lines = Len(lines) /\ line \in 1 .. Len(lines)
    BY DEF Inv, LinesInv, PlaceInv
  <2>2. pos \in 0 .. lines[line].line_len
    BY DEF Inv, LinesInv, AreLines, IsLine, PlaceInv
  <2>3. \A k \in DOMAIN marks : marks[k].line \in 1 .. Len(lines) /\ marks[k].pos \in Nat
    BY DEF Inv, MarksInv, IsMark, Mark
  <2> QED
    BY <2>1, <2>2, <2>3 DEF PlacesExist
<1> QED
  BY <1>1, Invariance, PTL
-----------------------------------------------------------------------------
(* A line with bytes has them in a pool, and one without has none; the     *)
(* addresses of the bytes of a line.                                       *)
IsOwner(ld) ==
  \/ ld.line = Null /\ ld.line_len = 0
  \/ /\ ld.line_len \in Nat \ {0}
     /\ ld.line = <<ld.line[1], ld.line[2]>>
     /\ ld.line[1] \in PoolIds /\ ld.line[2] \in Nat
Owns(ld) == Span(ld.line, ld.line_len)

(* The bytes in use are those of the lines s, each of one of them.         *)
OwnedBy(s, m) ==
  /\ ArePools(m)
  /\ \A i \in 1 .. Len(s) : IsOwner(s[i])
  /\ \A i, j \in 1 .. Len(s) : i # j => Owns(s[i]) \cap Owns(s[j]) = {}
  /\ \A a : a \in Used(m) <=> \E i \in 1 .. Len(s) : a \in Owns(s[i])

(* The descriptors in use are those of the lines s, each of one of them.   *)
Descs(s) == {s[i].ld : i \in 1 .. Len(s)}
GivenTo(s, ps) ==
  /\ AreDescs(ps, Descs(s))
  /\ \A i \in 1 .. Len(s) : s[i].ld \in DescPoolIds \X (Nat \ {0})
  /\ \A i, j \in 1 .. Len(s) : i # j => s[i].ld # s[j].ld

(* The memory of the document; what is there and what is still to be put   *)
(* in it are within the bound.                                             *)
MemInv ==
  /\ OwnedBy(lines, mem)
  /\ GivenTo(lines, descs)
  /\ Total + Len(rest) <= MaxText
  /\ DOMAIN marks \subseteq Marks

(* An empty line owns nothing.                                             *)
LEMMA EmptyOwns ==
  ASSUME NEW ld, ld.line = Null, ld.line_len = 0
  PROVE  IsOwner(ld) /\ Owns(ld) = {}
<1>1. ld.line[2] = 0
  BY DEF Null
<1>2. 0 .. 0 + 0 - 1 = {}
  OBVIOUS
<1>3. Owns(ld) = {}
  BY <1>1, <1>2 DEF Owns, Span, Bytes_
<1> QED
  BY <1>3 DEF IsOwner

(* A line that has a byte.                                                 *)
LEMMA LineOwns ==
  ASSUME NEW s, NEW m, OwnedBy(s, m), NEW i \in 1 .. Len(s), s[i].line_len # 0 \/ s[i].line # Null
  PROVE  /\ s[i].line_len \in Nat \ {0} /\ s[i].line # Null
         /\ s[i].line = <<s[i].line[1], s[i].line[2]>>
         /\ s[i].line[1] \in PoolIds /\ s[i].line[2] \in Nat
         /\ Span(s[i].line, s[i].line_len) \subseteq Used(m)
<1>1. IsOwner(s[i]) /\ Owns(s[i]) \subseteq Used(m)
  BY DEF OwnedBy
<1>2. /\ s[i].line_len \in Nat \ {0} /\ s[i].line = <<s[i].line[1], s[i].line[2]>>
      /\ s[i].line[1] \in PoolIds /\ s[i].line[2] \in Nat
  BY <1>1 DEF IsOwner
<1>3. s[i].line # Null
  <2>1. s[i].line[1] # 0
    BY <1>2 DEF PoolIds
  <2> QED
    BY <2>1 DEF Null
<1> QED
  BY <1>1, <1>2, <1>3 DEF Owns

(* A line changes, and its bytes are somewhere else.                       *)
LEMMA LineMoved ==
  ASSUME NEW s, NEW m, OwnedBy(s, m), NEW i \in 1 .. Len(s),
         NEW t, Len(t) = Len(s), \A j \in 1 .. Len(s) : j # i => t[j] = s[j],
         IsOwner(t[i]), NEW r, Moves(m, r, Owns(s[i]), Owns(t[i]))
  PROVE  OwnedBy(t, r)
<1>1. /\ \A j \in 1 .. Len(s) : IsOwner(s[j])
      /\ \A j, k \in 1 .. Len(s) : j # k => Owns(s[j]) \cap Owns(s[k]) = {}
      /\ \A a : a \in Used(m) <=> \E j \in 1 .. Len(s) : a \in Owns(s[j])
  BY DEF OwnedBy
<1>2. /\ ArePools(r) /\ Used(r) = (Used(m) \ Owns(s[i])) \cup Owns(t[i])
      /\ Owns(t[i]) \cap (Used(m) \ Owns(s[i])) = {}
  BY DEF Moves
<1>3. \A j \in 1 .. Len(s) : j # i => Owns(t[j]) = Owns(s[j])
  OBVIOUS
<1>4. \A j \in 1 .. Len(s) : IsOwner(t[j])
  BY <1>1
<1>5. \A j \in 1 .. Len(s) : j # i => Owns(s[j]) \subseteq Used(m) \ Owns(s[i])
  BY <1>1
<1>6. \A j, k \in 1 .. Len(s) : j # k => Owns(t[j]) \cap Owns(t[k]) = {}
  <2>1. \A j \in 1 .. Len(s) : j # i => Owns(t[j]) \cap Owns(t[i]) = {}
    BY <1>2, <1>3, <1>5
  <2> QED
    BY <1>1, <1>3, <2>1
<1>7. ASSUME NEW a PROVE a \in Used(r) <=> \E j \in 1 .. Len(s) : a \in Owns(t[j])
  <2>1. ASSUME a \in Used(r) PROVE \E j \in 1 .. Len(s) : a \in Owns(t[j])
    <3>1. CASE a \in Owns(t[i])
      BY <3>1
    <3>2. CASE a \notin Owns(t[i])
      <4>1. a \in Used(m) /\ a \notin Owns(s[i])
        BY <1>2, <2>1, <3>2
      <4>2. PICK j \in 1 .. Len(s) : a \in Owns(s[j])
        BY <1>1, <4>1
      <4>3. j # i
        BY <4>1, <4>2
      <4> QED
        BY <1>3, <4>2, <4>3
    <3> QED
      BY <3>1, <3>2
  <2>2. ASSUME NEW j \in 1 .. Len(s), a \in Owns(t[j]) PROVE a \in Used(r)
    <3>1. CASE j = i
      BY <1>2, <2>2, <3>1
    <3>2. CASE j # i
      BY <1>2, <1>3, <1>5, <2>2, <3>2
    <3> QED
      BY <3>1, <3>2
  <2> QED
    BY <2>1, <2>2
<1> QED
  BY <1>2, <1>4, <1>6, <1>7 DEF OwnedBy

(* A line is broken, and the bytes stay where they are.                    *)
LEMMA LineBroken ==
  ASSUME NEW s, NEW m, OwnedBy(s, m), Len(s) \in Nat, NEW i \in 1 .. Len(s),
         NEW t, Len(t) = Len(s) + 1,
         \A j \in 1 .. Len(s) + 1 : j < i => t[j] = s[j],
         \A j \in 1 .. Len(s) + 1 : j > i + 1 => t[j] = s[j - 1],
         IsOwner(t[i]), IsOwner(t[i + 1]),
         Owns(t[i]) \cup Owns(t[i + 1]) = Owns(s[i]), Owns(t[i]) \cap Owns(t[i + 1]) = {}
  PROVE  OwnedBy(t, m)
<1> DEFINE N == Len(s)
           from(j) == IF j <= i THEN j ELSE j - 1
<1>1. /\ \A j \in 1 .. N : IsOwner(s[j])
      /\ \A j, k \in 1 .. N : j # k => Owns(s[j]) \cap Owns(s[k]) = {}
      /\ \A a : a \in Used(m) <=> \E j \in 1 .. N : a \in Owns(s[j])
      /\ ArePools(m)
  BY DEF OwnedBy
<1>2. N \in Nat /\ i \in 1 .. N
  OBVIOUS
<1>a. \A j \in 1 .. N + 1 : j < i => t[j] = s[j]
  OBVIOUS
<1>b. \A j \in 1 .. N + 1 : j > i + 1 => t[j] = s[j - 1]
  OBVIOUS
<1> HIDE DEF N
<1>3. \A j \in 1 .. N + 1 : j < i \/ j = i \/ j = i + 1 \/ j > i + 1
  BY ONLY <1>2
<1>4. \A j \in 1 .. N + 1 : IsOwner(t[j])
  <2> TAKE j \in 1 .. N + 1
  <2>1. CASE j < i
    BY <1>1, <1>2, <1>a, <2>1
  <2>2. CASE j > i + 1
    <3>1. j - 1 \in 1 .. N
      BY <1>2, <2>2
    <3> QED
      BY <1>1, <1>b, <2>2, <3>1
  <2> QED
    BY <1>3, <2>1, <2>2
<1>5. \A j \in 1 .. N + 1 : from(j) \in 1 .. N
  BY ONLY <1>2
<1>6. \A j \in 1 .. N + 1 : Owns(t[j]) \subseteq Owns(s[from(j)])
  <2> TAKE j \in 1 .. N + 1
  <2>1. CASE j < i
    <3>1. from(j) = j /\ t[j] = s[j]
      BY <1>2, <1>a, <2>1
    <3> QED
      BY <3>1
  <2>2. CASE j > i + 1
    <3>1. from(j) = j - 1 /\ t[j] = s[j - 1]
      BY <1>2, <1>b, <2>2
    <3> QED
      BY <3>1
  <2>3. from(i) = i /\ from(i + 1) = i
    BY <1>2
  <2>4. CASE j = i \/ j = i + 1
    BY <2>3, <2>4
  <2> QED
    BY <1>3, <2>1, <2>2, <2>4
<1>7. \A j, k \in 1 .. N + 1 : j # k /\ from(j) = from(k) => (j = i /\ k = i + 1) \/ (j = i + 1 /\ k = i)
  BY ONLY <1>2
<1>8. \A j, k \in 1 .. N + 1 : j # k => Owns(t[j]) \cap Owns(t[k]) = {}
  <2> HIDE DEF from
  <2> TAKE j, k \in 1 .. N + 1
  <2>1. CASE from(j) # from(k)
    <3>1. Owns(s[from(j)]) \cap Owns(s[from(k)]) = {}
      BY <1>1, <1>5, <2>1
    <3> QED
      BY <1>6, <3>1
  <2>2. CASE from(j) = from(k)
    BY <1>7, <2>2
  <2> QED
    BY <2>1, <2>2
<1>9. ASSUME NEW a PROVE a \in Used(m) <=> \E j \in 1 .. N + 1 : a \in Owns(t[j])
  <2>1. ASSUME NEW j \in 1 .. N + 1, a \in Owns(t[j]) PROVE a \in Used(m)
    <3> HIDE DEF from
    <3> QED
      BY <1>1, <1>5, <1>6, <2>1
  <2>2. ASSUME a \in Used(m) PROVE \E j \in 1 .. N + 1 : a \in Owns(t[j])
    <3>1. PICK k \in 1 .. N : a \in Owns(s[k])
      BY <1>1, <2>2
    <3>2. CASE k < i
      <4>1. k \in 1 .. N + 1 /\ t[k] = s[k]
        BY <1>2, <1>a, <3>2
      <4> QED
        BY <3>1, <4>1
    <3>3. CASE k = i
      <4>1. i \in 1 .. N + 1 /\ i + 1 \in 1 .. N + 1
        BY ONLY <1>2
      <4> QED
        BY <3>1, <3>3, <4>1
    <3>4. CASE k > i
      <4>1. k + 1 \in 1 .. N + 1 /\ k + 1 > i + 1 /\ (k + 1) - 1 = k
        BY ONLY <1>2, <3>4
      <4>2. t[k + 1] = s[k]
        BY <1>b, <4>1
      <4> QED
        BY <3>1, <4>1, <4>2
    <3> QED
      BY <1>2, <3>2, <3>3, <3>4
  <2> QED
    BY <2>1, <2>2
<1>10. Len(t) = N + 1
  BY DEF N
<1> QED
  BY <1>1, <1>4, <1>8, <1>9, <1>10 DEF OwnedBy

(* Two lines are joined, and the bytes of both are somewhere else.         *)
LEMMA LinesJoined ==
  ASSUME NEW s, NEW m, OwnedBy(s, m), Len(s) \in Nat, NEW i \in 1 .. Len(s), i + 1 \in 1 .. Len(s),
         NEW t, Len(t) = Len(s) - 1,
         \A j \in 1 .. Len(s) - 1 : j < i => t[j] = s[j],
         \A j \in 1 .. Len(s) - 1 : j > i => t[j] = s[j + 1],
         IsOwner(t[i]), NEW r, Moves(m, r, Owns(s[i]) \cup Owns(s[i + 1]), Owns(t[i]))
  PROVE  OwnedBy(t, r)
<1> DEFINE N == Len(s)
           V == Owns(s[i]) \cup Owns(s[i + 1])
           from(j) == IF j < i THEN j ELSE j + 1
<1>1. /\ \A j \in 1 .. N : IsOwner(s[j])
      /\ \A j, k \in 1 .. N : j # k => Owns(s[j]) \cap Owns(s[k]) = {}
      /\ \A a : a \in Used(m) <=> \E j \in 1 .. N : a \in Owns(s[j])
  BY DEF OwnedBy
<1>2. N \in Nat /\ i \in 1 .. N /\ i + 1 \in 1 .. N
  OBVIOUS
<1>a. \A j \in 1 .. N - 1 : j < i => t[j] = s[j]
  OBVIOUS
<1>b. \A j \in 1 .. N - 1 : j > i => t[j] = s[j + 1]
  OBVIOUS
<1>3. /\ ArePools(r) /\ Used(r) = (Used(m) \ V) \cup Owns(t[i])
      /\ Owns(t[i]) \cap (Used(m) \ V) = {}
  BY DEF Moves
<1> HIDE DEF N
<1>4. /\ \A j \in 1 .. N - 1 : j # i => from(j) \in 1 .. N /\ from(j) # i /\ from(j) # i + 1
      /\ \A j, k \in 1 .. N - 1 : from(j) = from(k) => j = k
      /\ i \in 1 .. N - 1
  BY ONLY <1>2
<1>5. \A j \in 1 .. N - 1 : j # i => t[j] = s[from(j)]
  <2> TAKE j \in 1 .. N - 1
  <2>1. CASE j < i
    BY <1>a, <2>1
  <2>2. CASE j > i
    <3>1. ~(j < i)
      BY <1>2, <2>2
    <3> QED
      BY <1>b, <2>2, <3>1
  <2> QED
    BY <1>2, <2>1, <2>2
<1>6. \A k \in 1 .. N : k # i /\ k # i + 1 => \E j \in 1 .. N - 1 : j # i /\ from(j) = k
  <2> TAKE k \in 1 .. N
  <2>1. CASE k < i
    <3>1. k \in 1 .. N - 1 /\ k # i /\ from(k) = k
      BY ONLY <1>2, <2>1
    <3> QED
      BY <3>1
  <2>2. CASE k > i + 1
    <3>1. k - 1 \in 1 .. N - 1 /\ k - 1 # i /\ from(k - 1) = k
      BY ONLY <1>2, <2>2
    <3> QED
      BY <3>1
  <2>3. k < i \/ k = i \/ k = i + 1 \/ k > i + 1
    BY ONLY <1>2
  <2> QED
    BY <2>1, <2>2, <2>3
<1> HIDE DEF from
<1>7. \A j \in 1 .. N - 1 : IsOwner(t[j])
  BY <1>1, <1>4, <1>5
<1>8. \A j \in 1 .. N - 1 : j # i => Owns(t[j]) \subseteq Used(m) \ V
  BY <1>1, <1>2, <1>4, <1>5
<1>9. \A j, k \in 1 .. N - 1 : j # k => Owns(t[j]) \cap Owns(t[k]) = {}
  <2>1. \A j \in 1 .. N - 1 : j # i => Owns(t[j]) \cap Owns(t[i]) = {}
    BY <1>3, <1>8
  <2>2. ASSUME NEW j \in 1 .. N - 1, NEW k \in 1 .. N - 1, j # k, j # i, k # i
        PROVE  Owns(t[j]) \cap Owns(t[k]) = {}
    <3>1. from(j) \in 1 .. N /\ from(k) \in 1 .. N /\ from(j) # from(k)
      BY <1>4, <2>2
    <3>2. Owns(s[from(j)]) \cap Owns(s[from(k)]) = {}
      BY <1>1, <3>1
    <3> QED
      BY <1>5, <2>2, <3>2
  <2> QED
    BY <2>1, <2>2
<1>10. ASSUME NEW a PROVE a \in Used(r) <=> \E j \in 1 .. N - 1 : a \in Owns(t[j])
  <2>1. ASSUME NEW j \in 1 .. N - 1, a \in Owns(t[j]) PROVE a \in Used(r)
    BY <1>3, <1>8, <2>1
  <2>2. ASSUME a \in Used(r) PROVE \E j \in 1 .. N - 1 : a \in Owns(t[j])
    <3>1. CASE a \in Owns(t[i])
      BY <1>4, <3>1
    <3>2. CASE a \notin Owns(t[i])
      <4>1. a \in Used(m) /\ a \notin V
        BY <1>3, <2>2, <3>2
      <4>2. PICK k \in 1 .. N : a \in Owns(s[k])
        BY <1>1, <4>1
      <4>3. k # i /\ k # i + 1
        BY <4>1, <4>2
      <4>4. PICK j \in 1 .. N - 1 : j # i /\ from(j) = k
        BY <1>6, <4>3
      <4> QED
        BY <1>5, <4>2, <4>4
    <3> QED
      BY <3>1, <3>2
  <2> QED
    BY <2>1, <2>2
<1>11. Len(t) = N - 1
  BY DEF N
<1> QED
  BY <1>3, <1>7, <1>9, <1>10, <1>11 DEF OwnedBy
-----------------------------------------------------------------------------
(* Lines change, and their descriptors do not.                             *)
LEMMA SameDescs ==
  ASSUME NEW s, NEW ps, GivenTo(s, ps), NEW t, Len(t) = Len(s), \A j \in 1 .. Len(s) : t[j].ld = s[j].ld
  PROVE  GivenTo(t, ps)
<1>1. Descs(t) = Descs(s)
  BY DEF Descs
<1> QED
  BY <1>1 DEF GivenTo

(* There are as many descriptors in use as lines.                          *)
LEMMA DescsCount ==
  ASSUME NEW s, Len(s) \in Nat
  PROVE  IsFiniteSet(Descs(s)) /\ Cardinality(Descs(s)) <= Len(s)
<1> DEFINE f == [i \in 1 .. Len(s) |-> s[i].ld]
           N == Len(s)
<1>1. N \in Nat
  OBVIOUS
<1>2. IsFiniteSet(1 .. N) /\ Cardinality(1 .. N) = N
  <2>1. 1 \in Int /\ N \in Int /\ (IF 1 > N THEN 0 ELSE N - 1 + 1) = N
    BY ONLY <1>1
  <2> HIDE DEF N
  <2> QED
    BY <2>1, FS_Interval
<1>3. f \in Surjection(1 .. N, Descs(s))
  BY DEF Surjection, Descs
<1>4. IsFiniteSet(Descs(s)) /\ Cardinality(Descs(s)) <= Cardinality(1 .. N)
  BY <1>2, <1>3, FS_Surjection
<1> QED
  BY <1>2, <1>4

(* A new line has a descriptor that no other has.                          *)
LEMMA DescAdded ==
  ASSUME NEW s, NEW ps, GivenTo(s, ps), Len(s) \in Nat, Len(s) < MaxDescPools,
         NEW g, g = alloc_line_desc(ps), NEW i \in 1 .. Len(s),
         NEW t, Len(t) = Len(s) + 1,
         \A j \in 1 .. Len(s) + 1 : j <= i => t[j].ld = s[j].ld,
         \A j \in 1 .. Len(s) + 1 : j > i + 1 => t[j].ld = s[j - 1].ld,
         t[i + 1].ld = g.ld
  PROVE  GivenTo(t, g.pools)
<1> DEFINE N == Len(s)
           from(j) == IF j <= i THEN j ELSE j - 1
<1>1. /\ AreDescs(ps, Descs(s))
      /\ \A j \in 1 .. N : s[j].ld \in DescPoolIds \X (Nat \ {0})
      /\ \A j, k \in 1 .. N : j # k => s[j].ld # s[k].ld
  BY DEF GivenTo
<1>2. N \in Nat /\ i \in 1 .. N /\ N < MaxDescPools /\ Len(t) = N + 1
  OBVIOUS
<1>a. \A j \in 1 .. N + 1 : j <= i => t[j].ld = s[j].ld
  OBVIOUS
<1>b. \A j \in 1 .. N + 1 : j > i + 1 => t[j].ld = s[j - 1].ld
  OBVIOUS
<1>3. IsFiniteSet(Descs(s)) /\ Cardinality(Descs(s)) <= N
  BY DescsCount
<1> HIDE DEF N
<1>4. DescPoolIds \ UsedIds(ps) # {}
  <2>1. Cardinality(Descs(s)) \in Nat
    BY <1>3, FS_CardinalityType
  <2>2. Cardinality(Descs(s)) < MaxDescPools
    BY <1>2, <1>3, <2>1, DescAssumption
  <2> QED
    BY <1>1, <2>2, DescPoolsFew
<1>5. /\ g.ld \notin Descs(s) /\ g.ld \in DescPoolIds \X (Nat \ {0})
      /\ AreDescs(g.pools, Descs(s) \cup {g.ld})
  BY <1>1, <1>4, AllocDesc
<1>6. \A j \in 1 .. N : s[j].ld \in Descs(s)
  BY DEF Descs, N
<1>7. /\ \A j \in 1 .. N + 1 : j # i + 1 => from(j) \in 1 .. N
      /\ \A j, k \in 1 .. N + 1 : j # i + 1 /\ k # i + 1 /\ from(j) = from(k) => j = k
      /\ i + 1 \in 1 .. N + 1
  BY ONLY <1>2
<1>8. \A j \in 1 .. N + 1 : j # i + 1 => t[j].ld = s[from(j)].ld
  <2> TAKE j \in 1 .. N + 1
  <2>1. CASE j <= i
    BY <1>a, <2>1
  <2>2. CASE j > i + 1
    <3>1. ~(j <= i)
      BY <1>2, <2>2
    <3> QED
      BY <1>b, <2>2, <3>1
  <2>3. j <= i \/ j = i + 1 \/ j > i + 1
    BY ONLY <1>2
  <2> QED
    BY <2>1, <2>2, <2>3
<1>9. \A k \in 1 .. N : \E j \in 1 .. N + 1 : j # i + 1 /\ from(j) = k
  <2> TAKE k \in 1 .. N
  <2>1. CASE k <= i
    <3>1. k \in 1 .. N + 1 /\ k # i + 1 /\ from(k) = k
      BY ONLY <1>2, <2>1
    <3> QED
      BY <3>1
  <2>2. CASE ~(k <= i)
    <3>1. k + 1 \in 1 .. N + 1 /\ k + 1 # i + 1 /\ from(k + 1) = k
      BY ONLY <1>2, <2>2
    <3> QED
      BY <3>1
  <2> QED
    BY <2>1, <2>2
<1> HIDE DEF from
<1>10. Descs(t) = Descs(s) \cup {g.ld}
  <2>1. \A d : d \in Descs(t) <=> \E j \in 1 .. N + 1 : d = t[j].ld
    BY <1>2 DEF Descs
  <2>2. \A d : d \in Descs(s) <=> \E j \in 1 .. N : d = s[j].ld
    BY DEF Descs, N
  <2>3. ASSUME NEW d \in Descs(t) PROVE d \in Descs(s) \cup {g.ld}
    <3>1. PICK j \in 1 .. N + 1 : d = t[j].ld
      BY <2>1
    <3>2. CASE j = i + 1
      BY <3>1, <3>2
    <3>3. CASE j # i + 1
      BY <1>6, <1>7, <1>8, <3>1, <3>3
    <3> QED
      BY <3>2, <3>3
  <2>4. ASSUME NEW d \in Descs(s) PROVE d \in Descs(t)
    <3>1. PICK k \in 1 .. N : d = s[k].ld
      BY <2>2
    <3>2. PICK j \in 1 .. N + 1 : j # i + 1 /\ from(j) = k
      BY <1>9
    <3> QED
      BY <1>8, <2>1, <3>1, <3>2
  <2>5. g.ld \in Descs(t)
    BY <1>7, <2>1
  <2> QED
    BY <2>3, <2>4, <2>5
<1>11. \A j \in 1 .. N + 1 : t[j].ld \in DescPoolIds \X (Nat \ {0})
  BY <1>1, <1>5, <1>7, <1>8
<1>12. \A j, k \in 1 .. N + 1 : j # k => t[j].ld # t[k].ld
  <2>1. \A j \in 1 .. N + 1 : j # i + 1 => t[j].ld # t[i + 1].ld
    BY <1>5, <1>6, <1>7, <1>8
  <2>2. ASSUME NEW j \in 1 .. N + 1, NEW k \in 1 .. N + 1, j # k, j # i + 1, k # i + 1
        PROVE  t[j].ld # t[k].ld
    <3>1. from(j) \in 1 .. N /\ from(k) \in 1 .. N /\ from(j) # from(k)
      BY <1>7, <2>2
    <3> QED
      BY SMTT(20), <1>1, <1>8, <2>2, <3>1
  <2> QED
    BY <2>1, <2>2
<1> QED
  BY <1>2, <1>5, <1>10, <1>11, <1>12 DEF GivenTo

(* A line that is gone has given back its descriptor.                      *)
LEMMA DescRemoved ==
  ASSUME NEW s, NEW ps, GivenTo(s, ps), Len(s) \in Nat, NEW i \in 1 .. Len(s),
         NEW t, Len(t) = Len(s) - 1,
         \A j \in 1 .. Len(s) - 1 : j < i => t[j].ld = s[j].ld,
         \A j \in 1 .. Len(s) - 1 : ~(j < i) => t[j].ld = s[j + 1].ld,
         NEW r, r = free_line_desc(ps, s[i].ld)
  PROVE  GivenTo(t, r)
<1> DEFINE N == Len(s)
           from(j) == IF j < i THEN j ELSE j + 1
<1>1. /\ AreDescs(ps, Descs(s))
      /\ \A j \in 1 .. N : s[j].ld \in DescPoolIds \X (Nat \ {0})
      /\ \A j, k \in 1 .. N : j # k => s[j].ld # s[k].ld
  BY DEF GivenTo
<1>2. N \in Nat /\ i \in 1 .. N /\ Len(t) = N - 1
  OBVIOUS
<1>a. \A j \in 1 .. N - 1 : t[j].ld = s[from(j)].ld
  OBVIOUS
<1> HIDE DEF N
<1>3. \A j \in 1 .. N : s[j].ld \in Descs(s)
  BY DEF Descs, N
<1>4. AreDescs(r, Descs(s) \ {s[i].ld})
  BY <1>1, <1>2, <1>3, FreeDesc
<1>5. /\ \A j \in 1 .. N - 1 : from(j) \in 1 .. N /\ from(j) # i
      /\ \A j, k \in 1 .. N - 1 : from(j) = from(k) => j = k
  BY ONLY <1>2
<1>6. \A k \in 1 .. N : k # i => \E j \in 1 .. N - 1 : from(j) = k
  <2> TAKE k \in 1 .. N
  <2>1. CASE k < i
    <3>1. k \in 1 .. N - 1 /\ from(k) = k
      BY ONLY <1>2, <2>1
    <3> QED
      BY <3>1
  <2>2. CASE k > i
    <3>1. k - 1 \in 1 .. N - 1 /\ from(k - 1) = k
      BY ONLY <1>2, <2>2
    <3> QED
      BY <3>1
  <2>3. k < i \/ k = i \/ k > i
    BY ONLY <1>2
  <2> QED
    BY <2>1, <2>2, <2>3
<1> HIDE DEF from
<1>7. Descs(t) = Descs(s) \ {s[i].ld}
  <2>1. \A d : d \in Descs(t) <=> \E j \in 1 .. N - 1 : d = t[j].ld
    BY <1>2 DEF Descs
  <2>2. \A d : d \in Descs(s) <=> \E j \in 1 .. N : d = s[j].ld
    BY DEF Descs, N
  <2>3. ASSUME NEW d \in Descs(t) PROVE d \in Descs(s) \ {s[i].ld}
    <3>1. PICK j \in 1 .. N - 1 : d = t[j].ld
      BY <2>1
    <3>2. d = s[from(j)].ld /\ from(j) \in 1 .. N /\ from(j) # i
      BY <1>5, <1>a, <3>1
    <3> QED
      BY <1>1, <1>2, <1>3, <3>2
  <2>4. ASSUME NEW d \in Descs(s), d # s[i].ld PROVE d \in Descs(t)
    <3>1. PICK k \in 1 .. N : d = s[k].ld
      BY <2>2
    <3>2. PICK j \in 1 .. N - 1 : from(j) = k
      BY <1>6, <2>4, <3>1
    <3> QED
      BY <1>a, <2>1, <3>1, <3>2
  <2> QED
    BY <2>3, <2>4
<1>8. \A j \in 1 .. N - 1 : t[j].ld \in DescPoolIds \X (Nat \ {0})
  BY <1>1, <1>5, <1>a
<1>9. \A j, k \in 1 .. N - 1 : j # k => t[j].ld # t[k].ld
  BY <1>1, <1>5, <1>a
<1> QED
  BY <1>2, <1>4, <1>7, <1>8, <1>9 DEF GivenTo
-----------------------------------------------------------------------------
(* A line has as many bytes as its length.                                 *)
LEMMA OwnsCount ==
  ASSUME NEW ld, IsOwner(ld)
  PROVE  /\ IsFiniteSet(Owns(ld)) /\ Cardinality(Owns(ld)) = ld.line_len
         /\ ld.line_len \in Nat
<1>1. CASE ld.line = Null /\ ld.line_len = 0
  <2>1. Owns(ld) = {}
    BY <1>1, EmptyOwns
  <2> QED
    BY <1>1, <2>1, FS_EmptySet
<1>2. CASE ld.line_len \in Nat \ {0} /\ ld.line[2] \in Nat
  <2> DEFINE x == ld.line[2]
             n == ld.line_len
  <2>1. x \in Int /\ x + n - 1 \in Int /\ ~(x > x + n - 1) /\ (x + n - 1) - x + 1 = n /\ n \in Nat
    BY <1>2
  <2> HIDE DEF x, n
  <2>2. Cardinality(x .. x + n - 1) = IF x > x + n - 1 THEN 0 ELSE (x + n - 1) - x + 1
    BY ONLY <2>1, FS_Interval
  <2>3. IsFiniteSet(x .. x + n - 1)
    BY ONLY <2>1, FS_Interval
  <2>4. Cardinality(x .. x + n - 1) = n
    BY ONLY <2>1, <2>2
  <2>5. Owns(ld) = Bytes_(ld.line[1], x .. x + n - 1)
    BY DEF Owns, Span, x, n
  <2>6. IsFiniteSet(Owns(ld)) /\ Cardinality(Owns(ld)) = n
    BY <2>3, <2>4, <2>5, BytesCount
  <2> QED
    BY <2>1, <2>6 DEF n
<1> QED
  BY <1>1, <1>2 DEF IsOwner

(* How many bytes are in use when some have gone from V to W.              *)
LEMMA MovesCount ==
  ASSUME NEW m, ArePools(m), NEW r, NEW V, V \subseteq Used(m), NEW W, IsFiniteSet(W), Moves(m, r, V, W)
  PROVE  /\ r.allocated - r.free = (m.allocated - m.free) - Cardinality(V) + Cardinality(W)
         /\ m.allocated - m.free \in Nat
<1>1. /\ IsFiniteSet(Used(m)) /\ m.allocated - m.free = Cardinality(Used(m))
      /\ r.allocated - r.free = Cardinality(Used(r))
      /\ Used(r) = (Used(m) \ V) \cup W /\ W \cap (Used(m) \ V) = {}
  BY DEF Moves, ArePools
<1> DEFINE U == Used(m) \ V
<1>2. /\ IsFiniteSet(U) /\ Cardinality(U) = Cardinality(Used(m)) - Cardinality(V)
      /\ Cardinality(Used(m)) \in Nat /\ Cardinality(V) \in Nat
  BY <1>1, CountTaken
<1>3. Used(r) = U \cup W /\ U \cap W = {}
  BY <1>1
<1> HIDE DEF U
<1>4. Cardinality(Used(r)) = Cardinality(U) + Cardinality(W) /\ Cardinality(W) \in Nat
  BY <1>2, <1>3, CountAdded
<1> DEFINE u == Cardinality(Used(m))
           v == Cardinality(V)
           w == Cardinality(W)
           z == Cardinality(U)
           y == Cardinality(Used(r))
<1>5. u \in Nat /\ v \in Nat /\ w \in Nat /\ z = u - v /\ y = z + w
  BY <1>2, <1>4
<1> HIDE DEF u, v, w, z, y
<1>6. y = u - v + w /\ u \in Nat
  BY ONLY <1>5
<1> QED
  BY ONLY <1>1, <1>6 DEF u, v, w, y

(* There is always an identity for a new pool.                             *)
LEMMA PoolsLeft ==
  ASSUME Inv, MemInv
  PROVE  PoolIds \ DOMAIN mem.pool # {}
<1> DEFINE N == Len(lines)
           k == Len(rest)
           u == Cardinality(Used(mem))
<1>1. ArePools(mem)
  BY DEF MemInv, OwnedBy
<1>2. mem.allocated - mem.free = u /\ IsFiniteSet(Used(mem)) /\ mem.allocated \in Int /\ mem.free \in Int
  BY <1>1 DEF ArePools
<1>3. u \in Nat
  BY <1>2, FS_CardinalityType
<1>4. N \in Nat \ {0} /\ rest \in Seq(Byte \cup {NL})
  BY DEF Inv, LinesInv, AreLines, OwedInv
<1>5. k \in Nat
  BY <1>4
<1>6. N - 1 + mem.allocated - mem.free + k <= MaxText
  BY DEF MemInv, Total
<1>7. MaxText \in Nat /\ MaxPools > MaxText + 1 /\ MaxPools \in Nat
  BY LineBounds, PoolAssumption
<1> HIDE DEF N, k, u
<1>8. u < MaxPools
  BY ONLY <1>2, <1>3, <1>4, <1>5, <1>6, <1>7
<1> QED
  BY <1>1, <1>8, PoolsFew DEF u

(* The first piece of the stream has no line end.                          *)
LEMMA PieceIs ==
  ASSUME rest \in Seq(Byte \cup {NL})
  PROVE  SubSeq(rest, 1, PieceLen) \in Seq(Byte) /\ Len(SubSeq(rest, 1, PieceLen)) = PieceLen
<1> DEFINE T == {Len(rest)} \cup {i - 1 : i \in {j \in DOMAIN rest : rest[j] = NL}}
           n == PieceLen
<1>1. Len(rest) \in Nat /\ DOMAIN rest = 1 .. Len(rest)
  OBVIOUS
<1>2. T \subseteq Nat /\ Len(rest) \in T
  BY <1>1
<1>3. n = Min(T)
  BY DEF PieceLen
<1> HIDE DEF T, n
<1>4. \A y \in T : n <= y
  BY <1>2, <1>3, MinIs
<1>5. n \in Nat /\ n <= Len(rest)
  BY PieceLenNat DEF n
<1>6. ASSUME NEW j \in 1 .. n PROVE rest[j] \in Byte
  <2>1. j \in DOMAIN rest /\ rest[j] \in Byte \cup {NL} /\ j \in Nat /\ j <= n
    BY <1>1, <1>5
  <2>2. SUFFICES ASSUME rest[j] = NL PROVE FALSE
    BY <2>1
  <2>3. j - 1 \in T
    BY <2>1, <2>2 DEF T
  <2> QED
    BY <1>4, <1>5, <2>1, <2>3
<1>7. SubSeq(rest, 1, n) = [j \in 1 .. n |-> rest[j]]
  BY <1>1, <1>5
<1>8. SubSeq(rest, 1, n) \in Seq(Byte) /\ Len(SubSeq(rest, 1, n)) = n
  BY <1>5, <1>6, <1>7
<1> QED
  BY <1>8 DEF n

(* Bytes are put among others.                                             *)
LEMMA Spliced ==
  ASSUME NEW S, NEW t \in Seq(S), NEW u \in Seq(S), NEW k \in 0 .. Len(t)
  PROVE  /\ SubSeq(t, 1, k) \o u \o SubSeq(t, k + 1, Len(t)) \in Seq(S)
         /\ Len(SubSeq(t, 1, k) \o u \o SubSeq(t, k + 1, Len(t))) = Len(t) + Len(u)
<1> DEFINE a == SubSeq(t, 1, k)
           b == SubSeq(t, k + 1, Len(t))
<1>1. Len(t) \in Nat /\ Len(u) \in Nat
  OBVIOUS
<1>2. a \in Seq(S) /\ Len(a) = k
  <2>1. a = [j \in 1 .. k |-> t[j]]
    BY <1>1
  <2> QED
    BY <1>1, <2>1
<1>3. b \in Seq(S) /\ Len(b) = Len(t) - k
  <2>1. b = [j \in 1 .. Len(t) - k |-> t[k + j]]
    BY <1>1
  <2> QED
    BY <1>1, <2>1
<1> HIDE DEF a, b
<1>4. a \o u \in Seq(S) /\ Len(a \o u) = k + Len(u)
  BY <1>2
<1> DEFINE c == a \o u
<1> HIDE DEF c
<1>5. c \in Seq(S) /\ Len(c) = k + Len(u)
  BY <1>4 DEF c
<1>6. c \o b \in Seq(S) /\ Len(c \o b) = Len(c) + Len(b)
  BY ONLY <1>3, <1>5, ConcatProperties
<1>7. Len(c \o b) = Len(t) + Len(u)
  BY ONLY <1>1, <1>3, <1>5, <1>6, k \in 0 .. Len(t)
<1> QED
  BY <1>6, <1>7 DEF a, b, c

(* An address that is given out is a pool and an offset.                   *)
LEMMA AllocPair ==
  ASSUME NEW m, NEW n
  PROVE  alloc_chars(m, n).at = <<alloc_chars(m, n).at[1], alloc_chars(m, n).at[2]>>
<1>1. CASE HasRoom(m, n)
  <2>1. \E x, y : alloc_chars(m, n).at = <<x, y>>
    BY <1>1 DEF alloc_chars
  <2> QED
    BY <2>1
<1>2. CASE ~HasRoom(m, n)
  <2>1. \E x, y : alloc_chars(m, n).at = <<x, y>>
    BY <1>2 DEF alloc_chars, NewPool
  <2> QED
    BY <2>1
<1> QED
  BY <1>1, <1>2

(* A line that has n bytes at an address.                                  *)
LEMMA OwnerAt ==
  ASSUME NEW ld, ld.line = <<ld.line[1], ld.line[2]>>, ld.line[1] \in PoolIds, ld.line[2] \in Nat,
         ld.line_len \in Nat \ {0}
  PROVE  IsOwner(ld)
BY DEF IsOwner

(* insert_stream() puts a piece in a line that was empty.                  *)
LEMMA PieceInEmpty ==
  ASSUME NEW m, ArePools(m), PoolIds \ DOMAIN m.pool # {}, NEW n \in Nat \ {0},
         NEW s \in Seq(Byte), Len(s) = n, NEW g, g = alloc_chars(m, n),
         NEW r, r = Write(g.mem, g.at, s),
         NEW old, old.line = Null, old.line_len = 0,
         NEW new, new.line = g.at, new.line_len = n
  PROVE  Moves(m, r, Owns(old), Owns(new)) /\ IsOwner(new) /\ Holds(r, new.line, s)
<1>1. Gives(m, r, Span(g.at, n)) /\ g.at[1] \in PoolIds /\ g.at[2] \in Nat
      /\ Stored(m, r, g.at, s)
  BY AllocGives
<1>2. Owns(old) = {} /\ Owns(new) = Span(g.at, n)
  BY EmptyOwns DEF Owns
<1>3. IsOwner(new)
  BY <1>1, AllocPair, OwnerAt
<1>4. Gives(m, r, Owns(new) \ Owns(old)) /\ Owns(old) \subseteq Used(m) /\ Owns(old) \subseteq Owns(new)
  <2>1. Owns(new) \ Owns(old) = Span(g.at, n)
    BY <1>2
  <2> QED
    BY <1>1, <1>2, <2>1
<1>5. Keeps(m, r, Used(m) \ Owns(old)) /\ Holds(r, new.line, s)
  <2>1. Span(g.at, Len(s)) \ Owns(old) = Owns(new) \ Owns(old) /\ Owns(old) \subseteq Span(g.at, Len(s))
    BY <1>2
  <2> QED
    BY <1>1, <1>4, <2>1, StoredNew
<1> QED
  BY <1>3, <1>4, <1>5, Grown

(* It finds the bytes around the line.                                     *)
LEMMA PieceAround ==
  ASSUME NEW m, ArePools(m), NEW n \in Nat \ {0}, NEW flag \in BOOLEAN,
         NEW old, old.line_len \in Nat \ {0}, old.line[2] \in Nat, Owns(old) \subseteq Used(m),
         NEW w, w = alloc_chars_around(m, old.line, old.line_len, n, flag), w.after >= 0,
         NEW s \in Seq(Byte), Len(s) = old.line_len + n,
         NEW r, r = Write(w.mem, Plus(old.line, w.after - n), s),
         NEW new, new.line = Plus(old.line, w.after - n), new.line_len = old.line_len + n
  PROVE  /\ Moves(m, r, Owns(old), Owns(new)) /\ IsOwner(new) /\ Holds(r, new.line, s)
         /\ Gives(m, r, Owns(new) \ Owns(old)) /\ Owns(old) \subseteq Owns(new)
         /\ Keeps(m, r, Used(m) \ Owns(old))
<1> DEFINE p == old.line
           n0 == old.line_len
           at == Plus(p, w.after - n)
<1>1. p[2] \in Nat /\ n0 \in Nat \ {0} /\ Span(p, n0) \subseteq Used(m) /\ n \in Nat
  BY DEF Owns
<1>2. w = alloc_chars_around(m, p, n0, n, flag) /\ Len(s) = n0 + n /\ r = Write(w.mem, at, s)
  OBVIOUS
<1>3. at = <<at[1], at[2]>> /\ new.line = at /\ new.line_len = n0 + n
  BY DEF Plus
<1>a. at = Plus(p, w.after - n)
  OBVIOUS
<1> HIDE DEF p, n0, at
<1>4. /\ Gives(m, r, Span(at, n0 + n) \ Span(p, n0))
      /\ Span(p, n0) \subseteq Span(at, n0 + n)
      /\ at[1] \in PoolIds /\ at[2] \in Nat /\ Stored(m, r, at, s)
  BY ZenonT(60), <1>1, <1>2, <1>a, AroundGives
<1>5. Owns(new) = Span(at, n0 + n)
  BY <1>3 DEF Owns
<1>6. Owns(old) = Span(p, n0)
  BY DEF Owns, p, n0
<1>7. n0 + n \in Nat \ {0}
  BY ONLY <1>1, n \in Nat \ {0}
<1>8. IsOwner(new)
  BY <1>3, <1>4, <1>7, OwnerAt
<1>9. /\ Gives(m, r, Owns(new) \ Owns(old)) /\ Owns(old) \subseteq Owns(new)
      /\ Owns(old) \subseteq Used(m)
  BY <1>1, <1>4, <1>5, <1>6
<1>10. Keeps(m, r, Used(m) \ Owns(old)) /\ Holds(r, new.line, s)
  <2>1. Span(at, Len(s)) = Owns(new)
    BY <1>2, <1>5
  <2> QED
    BY <1>3, <1>4, <1>9, <2>1, StoredNew
<1> QED
  BY <1>8, <1>9, <1>10, Grown

(* Or else the line moves.                                                 *)
LEMMA PieceMoved ==
  ASSUME NEW m, ArePools(m), PoolIds \ DOMAIN m.pool # {}, NEW n \in Nat \ {0},
         NEW s \in Seq(Byte), Len(s) = n, NEW g, g = alloc_chars(m, n),
         NEW w, w = Write(g.mem, g.at, s),
         NEW old, old.line_len \in Nat \ {0}, old.line[2] \in Nat, Owns(old) \subseteq Used(m),
         NEW r, r = free_chars(w, old.line, old.line_len),
         NEW new, new.line = g.at, new.line_len = n
  PROVE  Moves(m, r, Owns(old), Owns(new)) /\ IsOwner(new) /\ Holds(r, new.line, s)
<1>1. Gives(m, w, Span(g.at, n)) /\ g.at[1] \in PoolIds /\ g.at[2] \in Nat
      /\ Stored(m, w, g.at, s)
  BY AllocGives
<1>2. Owns(old) = Span(old.line, old.line_len) /\ Owns(new) = Span(g.at, n)
  BY DEF Owns
<1>3. ArePools(w) /\ Used(m) \subseteq Used(w)
  BY <1>1 DEF Gives
<1>4. Span(old.line, old.line_len) \subseteq Used(w)
  BY <1>2, <1>3
<1>5. Takes(w, r, Span(old.line, old.line_len))
  BY <1>3, <1>4, FreeTakes
<1>6. IsOwner(new)
  BY <1>1, AllocPair, OwnerAt
<1>7. Keeps(m, w, Used(m)) /\ Holds(w, g.at, s)
  <2>1. Gives(m, w, Span(g.at, Len(s)))
    BY <1>1
  <2> QED
    BY <1>1, <2>1, StoredFresh
<1>8. Keeps(m, w, Used(m) \ Owns(old))
  BY <1>7 DEF Keeps
<1>9. Owns(new) \subseteq Used(r)
  BY <1>1, <1>2, <1>5 DEF Gives, Takes
<1>10. Holds(r, g.at, s)
  <2>1. Keeps(w, r, Used(r)) /\ Span(g.at, Len(s)) \subseteq Used(r) /\ Len(s) \in Nat /\ g.at[2] \in Int
    BY <1>1, <1>2, <1>5, <1>9 DEF Takes
  <2> QED
    BY <1>7, <2>1, HoldsStill
<1> QED
  BY <1>1, <1>2, <1>5, <1>6, <1>8, <1>10, MovedAway

(* A line with other bytes.                                                *)
LEMMA LineExcept ==
  ASSUME NEW d, IsLine(d), NEW at, NEW n, NEW e, e = [d EXCEPT !.line = at, !.line_len = n]
  PROVE  e = [ld |-> d.ld, line |-> at, line_len |-> n]
<1>1. d = [ld |-> d.ld, line |-> d.line, line_len |-> d.line_len]
  BY DEF IsLine
<1>2. DOMAIN d = {"ld", "line", "line_len"} /\ d = [f \in {"ld", "line", "line_len"} |-> d[f]]
  BY ONLY <1>1
<1>3. /\ DOMAIN e = {"ld", "line", "line_len"} /\ e = [f \in {"ld", "line", "line_len"} |-> e[f]]
      /\ e.ld = d.ld /\ e.line = at /\ e.line_len = n
  BY <1>2
<1> QED
  BY ONLY <1>3

(* A line has other bytes, and its descriptor and the other lines stay.    *)
Changed(s, i, at, n, t) ==
  /\ Len(t) = Len(s) /\ t = [j \in 1 .. Len(s) |-> t[j]]
  /\ \A j \in 1 .. Len(s) : j # i => t[j] = s[j]
  /\ t[i] = [ld |-> s[i].ld, line |-> at, line_len |-> n]

(* What the lines are when one of them is changed.                         *)
LEMMA LineChanged ==
  ASSUME NEW s, AreLines(s), NEW i \in 1 .. Len(s), NEW at, NEW n,
         NEW t, t = [s EXCEPT ![i].line = at, ![i].line_len = n]
  PROVE  Changed(s, i, at, n, t)
<1>1. Len(s) \in Nat /\ s = [j \in 1 .. Len(s) |-> s[j]] /\ IsLine(s[i])
  BY DEF AreLines
<1>2. DOMAIN s = 1 .. Len(s)
  BY <1>1
<1>3. /\ t = [j \in 1 .. Len(s) |-> t[j]]
      /\ \A j \in 1 .. Len(s) : j # i => t[j] = s[j]
      /\ t[i] = [s[i] EXCEPT !.line = at, !.line_len = n]
  BY <1>2
<1>4. t[i] = [ld |-> s[i].ld, line |-> at, line_len |-> n]
  <2> DEFINE d == s[i]
             e == t[i]
  <2>1. IsLine(d) /\ e = [d EXCEPT !.line = at, !.line_len = n]
    BY <1>1, <1>3
  <2> HIDE DEF d, e
  <2>2. e = [ld |-> d.ld, line |-> at, line_len |-> n]
    BY <2>1, LineExcept
  <2> QED
    BY <2>2 DEF d, e
<1>5. Len(t) = Len(s)
  BY <1>1, <1>3
<1> QED
  BY <1>3, <1>4, <1>5 DEF Changed

(* The bytes of a line without the n after its first q.                    *)
Without(r, new, text, q, n) ==
  \A i \in 1 .. Len(text) - n : Cell(r, At(new.line, i)) = text[IF i <= q THEN i ELSE i + n]

(* What the bytes of the lines are after a piece has been put in a line,   *)
(* after a line has been broken or joined, and after a deletion.           *)
PieceDone ==
  LET ld == lines[line]
      t  == Text(ld)
  IN  /\ Len(lines') = Len(lines) /\ \A j \in 1 .. Len(lines) : j # line => lines'[j] = lines[j]
      /\ lines'[line].line_len = ld.line_len + PieceLen
      /\ Moves(mem, mem', Owns(ld), Owns(lines'[line]))
      /\ Holds(mem', lines'[line].line,
               SubSeq(t, 1, pos) \o SubSeq(rest, 1, PieceLen) \o SubSeq(t, pos + 1, Len(t)))

BreakDone ==
  LET ld  == lines[line]
      cut == pos + len
  IN  /\ mem' = mem /\ Len(lines') = Len(lines) + 1
      /\ \A j \in 1 .. Len(lines) + 1 : j < line => lines'[j] = lines[j]
      /\ \A j \in 1 .. Len(lines) + 1 : j > line + 1 => lines'[j] = lines[j - 1]
      /\ lines'[line].line_len = cut
      /\ cut > 0 => lines'[line].line = ld.line
      /\ lines'[line + 1].line_len = ld.line_len - cut
      /\ cut < ld.line_len => lines'[line + 1].line = Plus(ld.line, cut)

DeletionDone ==
  LET ld == lines[line]
      n  == Min({left, ld.line_len - pos})
  IN  /\ Len(lines') = Len(lines) /\ \A j \in 1 .. Len(lines) : j # line => lines'[j] = lines[j]
      /\ n \in Nat \ {0} /\ pos + n <= ld.line_len /\ lines'[line].line_len = ld.line_len - n
      /\ Moves(mem, mem', Owns(ld), Owns(lines'[line]))
      /\ Without(mem', lines'[line], Text(ld), pos, n)

JoinDone ==
  LET ld   == lines[line]
      next == lines[line + 1]
  IN  /\ line + 1 \in 1 .. Len(lines) /\ Len(lines') = Len(lines) - 1
      /\ \A k \in 1 .. Len(lines) - 1 : k < line => lines'[k] = lines[k]
      /\ \A k \in 1 .. Len(lines) - 1 : k > line => lines'[k] = lines[k + 1]
      /\ lines'[line].line_len = ld.line_len + next.line_len
      /\ Moves(mem, mem', Owns(ld) \cup Owns(next), Owns(lines'[line]))
      /\ Holds(mem', lines'[line].line, Text(ld) \o Text(next))

(* insert_stream() puts a piece in a line: its bytes were free.            *)
LEMMA InsertPieceMem == Inv /\ MemInv /\ InsertPiece => MemInv' /\ PieceDone
<1> SUFFICES ASSUME Inv, MemInv, InsertPiece PROVE MemInv' /\ PieceDone
  OBVIOUS
<1> DEFINE n   == PieceLen
           ld  == lines[line]
           piece == SubSeq(rest, 1, n)
           text == Text(ld)
           new == IF ld.line = Null THEN piece
                  ELSE SubSeq(text, 1, pos) \o piece \o SubSeq(text, pos + 1, ld.line_len)
           around == alloc_chars_around(mem, ld.line, ld.line_len, n, InTheMiddle(ld))
           else   == alloc_chars(mem, IF ld.line = Null THEN n ELSE ld.line_len + n)
           at  == IF ld.line # Null /\ around.after >= 0 THEN Plus(ld.line, around.after - n) ELSE else.at
           nld == lines'[line]
<1>1. /\ mem' = IF ld.line = Null THEN Write(else.mem, at, new)
                ELSE IF around.after >= 0 THEN Write(around.mem, at, new)
                ELSE free_chars(Write(else.mem, at, new), ld.line, ld.line_len)
      /\ lines' = [lines EXCEPT ![line].line = at, ![line].line_len = @ + n]
      /\ rest' = SubSeq(rest, n + 1, Len(rest)) /\ descs' = descs
      /\ DOMAIN marks' = DOMAIN marks /\ n > 0
  BY DEF InsertPiece, MoveMarks
<1>2. /\ AreLines(lines) /\ line \in 1 .. Len(lines) /\ IsLine(ld) /\ Len(lines) \in Nat \ {0}
      /\ DOMAIN lines = 1 .. Len(lines)
  BY DEF Inv, LinesInv, PlaceInv, AreLines
<1>3. rest \in Seq(Byte \cup {NL}) /\ pos \in Nat /\ pos <= ld.line_len /\ ld.line_len \in Nat
  BY <1>2 DEF Inv, OwedInv, PlaceInv, IsLine
<1>4. n \in Nat \ {0} /\ n <= Len(rest)
  BY <1>1, <1>3, PieceLenNat
<1>5. piece \in Seq(Byte) /\ Len(piece) = n
  BY <1>3, PieceIs
<1>6. ArePools(mem) /\ IsOwner(ld) /\ Owns(ld) \subseteq Used(mem) /\ PoolIds \ DOMAIN mem.pool # {}
  BY <1>2, PoolsLeft DEF MemInv, OwnedBy
<1> HIDE DEF n, piece, new, around, else, at
<1>7. /\ Len(lines') = Len(lines)
      /\ \A j \in 1 .. Len(lines) : j # line => lines'[j] = lines[j]
      /\ nld = [ld |-> ld.ld, line |-> at, line_len |-> ld.line_len + n]
  <2> DEFINE k == ld.line_len + n
  <2>1. lines' = [lines EXCEPT ![line].line = at, ![line].line_len = k]
    BY <1>1, <1>2
  <2> HIDE DEF k
  <2>2. Changed(lines, line, at, k, lines')
    BY <1>2, <2>1, LineChanged
  <2> QED
    BY <2>2 DEF Changed, k
<1> HIDE DEF nld
<1>8. nld.line = at /\ nld.line_len = ld.line_len + n /\ nld.ld = ld.ld
  BY <1>7
<1> DEFINE whole == SubSeq(text, 1, pos) \o piece \o SubSeq(text, pos + 1, Len(text))
<1>9. Moves(mem, mem', Owns(ld), Owns(nld)) /\ IsOwner(nld) /\ Holds(mem', nld.line, whole)
  <2>1. CASE ld.line = Null
    <3>1. ld.line_len = 0
      <4>1. ~(ld.line[1] \in PoolIds)
        BY <2>1 DEF Null, PoolIds
      <4> QED
        BY <1>6, <4>1 DEF IsOwner
    <3>2. else = alloc_chars(mem, n) /\ at = else.at /\ new = piece /\ mem' = Write(else.mem, else.at, piece)
      BY <1>1, <2>1 DEF else, at, new
    <3>3. nld.line = else.at /\ nld.line_len = n
      BY <1>4, <1>8, <3>1, <3>2
    <3>4. whole = piece
      <4>1. text = <<>>
        BY <3>1 DEF Text, Read
      <4>2. pos = 0 /\ Len(text) = 0
        BY <1>3, <3>1, <4>1
      <4> HIDE DEF text
      <4>3. SubSeq(text, 1, pos) = <<>> /\ SubSeq(text, pos + 1, Len(text)) = <<>>
        BY <4>2
      <4>4. <<>> \o piece \o <<>> = piece
        BY <1>5
      <4> QED
        BY <4>3, <4>4
    <3> HIDE DEF whole
    <3>5. Moves(mem, mem', Owns(ld), Owns(nld)) /\ IsOwner(nld) /\ Holds(mem', nld.line, piece)
      BY <1>4, <1>5, <1>6, <2>1, <3>1, <3>2, <3>3, PieceInEmpty
    <3> QED
      BY <3>4, <3>5
  <2>2. CASE ld.line # Null
    <3>1. ld.line_len \in Nat \ {0} /\ ld.line[2] \in Nat
      BY <1>6, <2>2 DEF IsOwner
    <3>2. text \in Seq(Byte) /\ Len(text) = ld.line_len
      <4>1. Span(ld.line, ld.line_len) \subseteq Used(mem)
        BY <1>6 DEF Owns
      <4> QED
        BY <1>6, <3>1, <4>1, ReadIs DEF Text
    <3> HIDE DEF text
    <3>3. new = SubSeq(text, 1, pos) \o piece \o SubSeq(text, pos + 1, Len(text)) /\ whole = new
      BY <2>2, <3>2 DEF new
    <3>4. pos \in 0 .. Len(text)
      BY <1>3, <3>2
    <3>5. new \in Seq(Byte) /\ Len(new) = ld.line_len + n
      BY <1>5, <3>2, <3>3, <3>4, Spliced
    <3> HIDE DEF whole
    <3>6. CASE around.after >= 0
      <4>1. /\ at = Plus(ld.line, around.after - n)
            /\ mem' = Write(around.mem, Plus(ld.line, around.after - n), new)
        BY <1>1, <2>2, <3>6 DEF at
      <4>2. InTheMiddle(ld) \in BOOLEAN
        BY DEF InTheMiddle
      <4>3. around = alloc_chars_around(mem, ld.line, ld.line_len, n, InTheMiddle(ld))
        BY DEF around
      <4>4. nld.line = Plus(ld.line, around.after - n)
        BY <1>8, <4>1
      <4> QED
        BY <1>4, <1>6, <1>8, <3>1, <3>5, <3>3, <3>6, <4>1, <4>2, <4>3, <4>4, PieceAround
    <3>7. CASE ~(around.after >= 0)
      <4> DEFINE k == ld.line_len + n
                 w == Write(else.mem, else.at, new)
      <4>1. /\ at = else.at /\ else = alloc_chars(mem, k)
            /\ mem' = free_chars(w, ld.line, ld.line_len)
        BY <1>1, <2>2, <3>7 DEF at, else
      <4>2. k \in Nat \ {0} /\ Len(new) = k
        BY <1>4, <3>1, <3>5
      <4>3. nld.line = else.at /\ nld.line_len = k
        BY <1>8, <4>1
      <4> HIDE DEF k
      <4> QED
        BY <1>6, <3>1, <3>3, <3>5, <4>1, <4>2, <4>3, PieceMoved
    <3> QED
      BY <3>6, <3>7
  <2> QED
    BY <2>1, <2>2
<1>10. OwnedBy(lines', mem')
  BY <1>2, <1>7, <1>9, LineMoved DEF MemInv, nld
<1>11. GivenTo(lines', descs')
  <2>1. \A j \in 1 .. Len(lines) : lines'[j].ld = lines[j].ld
    BY <1>7, <1>8 DEF nld
  <2> QED
    BY <1>1, <1>7, <2>1, SameDescs DEF MemInv
<1>12. Total' + Len(rest') <= MaxText
  <2> DEFINE u == mem.allocated - mem.free
             v == mem'.allocated - mem'.free
             N == Len(lines)
             x == ld.line_len
             k == Len(rest)
             j == Len(rest')
  <2>1. v = u - x + (x + n) /\ u \in Nat /\ x \in Nat
    <3>1. IsFiniteSet(Owns(nld)) /\ Cardinality(Owns(nld)) = x + n
      BY <1>8, <1>9, OwnsCount
    <3>2. Cardinality(Owns(ld)) = x
      BY <1>6, OwnsCount
    <3> QED
      BY <1>3, <1>6, <1>9, <3>1, <3>2, MovesCount
  <2>2. j = k - n /\ k \in Nat
    <3>1. Len(SubSeq(rest, n + 1, Len(rest))) = Len(rest) - n /\ Len(rest) \in Nat
      BY <1>3, <1>4, SubSeqProperties
    <3> QED
      BY <1>1, <3>1
  <2>3. /\ mem.allocated \in Int /\ mem.free \in Int /\ mem'.allocated \in Int /\ mem'.free \in Int
    BY <1>6, <1>9 DEF ArePools, Moves
  <2>4. N - 1 + mem.allocated - mem.free + k <= MaxText /\ MaxText \in Nat
    BY LineBounds DEF MemInv, Total
  <2>5. Total' + Len(rest') = N - 1 + mem'.allocated - mem'.free + j
    BY <1>7 DEF Total
  <2> HIDE DEF N, k, j, x
  <2>6. N \in Nat /\ n \in Nat
    BY <1>2, <1>4 DEF N
  <2>7. N - 1 + mem'.allocated - mem'.free + j <= MaxText
    BY ONLY <2>1, <2>2, <2>3, <2>4, <2>6
  <2> QED
    BY <2>5, <2>7
<1>13. DOMAIN marks' \subseteq Marks
  BY <1>1 DEF MemInv
<1>14. PieceDone
  <2> DEFINE lt == lines'[line]
  <2>1. lt.line_len = ld.line_len + n /\ Moves(mem, mem', Owns(ld), Owns(lt)) /\ Holds(mem', lt.line, whole)
    BY <1>8, <1>9 DEF nld
  <2> QED
    BY <1>7, <2>1 DEF PieceDone, n, piece
<1>15. MemInv'
  BY <1>10, <1>11, <1>12, <1>13 DEF MemInv
<1> QED
  BY <1>14, <1>15

(* A line whose k bytes are at an address, or that is empty.               *)
LEMMA AtOwns ==
  ASSUME NEW p, p = <<p[1], p[2]>>, p[1] \in PoolIds, p[2] \in Nat, NEW k \in Nat,
         NEW new, new.line = (IF k = 0 THEN Null ELSE p), new.line_len = k
  PROVE  IsOwner(new) /\ Owns(new) = Span(p, k)
<1>1. CASE k = 0
  <2>1. IsOwner(new) /\ Owns(new) = {}
    BY <1>1, EmptyOwns
  <2>2. p[2] .. p[2] + 0 - 1 = {}
    OBVIOUS
  <2> QED
    BY <1>1, <2>1, <2>2 DEF Span, Bytes_
<1>2. CASE k # 0
  <2>1. new.line = p /\ new.line_len = k /\ k \in Nat \ {0}
    BY <1>2
  <2> QED
    BY <2>1, OwnerAt DEF Owns
<1> QED
  BY <1>1, <1>2

(* The two parts of a line that is broken own what it did.                 *)
LEMMA BrokenOwns ==
  ASSUME NEW ld, IsOwner(ld), NEW cut \in Nat, cut <= ld.line_len,
         NEW old, old.line = (IF cut = 0 THEN Null ELSE ld.line), old.line_len = cut,
         NEW new, new.line = (IF cut < ld.line_len THEN Plus(ld.line, cut) ELSE Null),
         new.line_len = ld.line_len - cut
  PROVE  /\ IsOwner(old) /\ IsOwner(new)
         /\ Owns(old) \cup Owns(new) = Owns(ld) /\ Owns(old) \cap Owns(new) = {}
<1>1. ld.line_len \in Nat
  BY OwnsCount
<1>2. CASE ld.line_len = 0
  <2>1. /\ old.line = Null /\ old.line_len = 0 /\ new.line = Null /\ new.line_len = 0
        /\ ld.line = Null
    BY <1>1, <1>2 DEF IsOwner
  <2>2. IsOwner(old) /\ IsOwner(new) /\ Owns(old) = {} /\ Owns(new) = {} /\ Owns(ld) = {}
    BY <1>2, <2>1, EmptyOwns
  <2> QED
    BY <2>2
<1>3. CASE ld.line_len # 0
  <2> DEFINE p == ld.line
             n == ld.line_len
             k == n - cut
  <2>1. n \in Nat \ {0} /\ p = <<p[1], p[2]>> /\ p[1] \in PoolIds /\ p[2] \in Nat
    BY <1>3 DEF IsOwner
  <2>2. Owns(ld) = Span(p, n)
    BY DEF Owns
  <2>3. k \in Nat /\ cut + k = n /\ (cut < n <=> k # 0) /\ new.line_len = k
    BY <1>1
  <2>4. new.line = (IF cut < n THEN Plus(p, cut) ELSE Null)
    OBVIOUS
  <2>5. old.line = (IF cut = 0 THEN Null ELSE p)
    OBVIOUS
  <2> HIDE DEF p, n, k
  <2>6. /\ Span(p, cut) \cup Span(Plus(p, cut), k) = Span(p, n)
        /\ Span(p, cut) \cap Span(Plus(p, cut), k) = {}
        /\ Plus(p, cut)[1] = p[1] /\ Plus(p, cut)[2] = p[2] + cut
    BY <2>1, <2>3, SpanSplit
  <2>7. IsOwner(old) /\ Owns(old) = Span(p, cut)
    BY <2>1, <2>5, AtOwns
  <2>8. IsOwner(new) /\ Owns(new) = Span(Plus(p, cut), k)
    <3> DEFINE q == Plus(p, cut)
    <3>1. q = <<q[1], q[2]>>
      BY DEF Plus
    <3>2. q[1] \in PoolIds /\ q[2] \in Nat
      BY <2>1, <2>6
    <3>3. new.line = IF k = 0 THEN Null ELSE q
      BY <2>3, <2>4
    <3> HIDE DEF q
    <3>4. IsOwner(new) /\ Owns(new) = Span(q, k)
      BY <2>3, <3>1, <3>2, <3>3, AtOwns
    <3> QED
      BY <3>4 DEF q
  <2> QED
    BY <2>2, <2>6, <2>7, <2>8
<1> QED
  BY <1>2, <1>3

(* insert_stream() breaks a line: no byte moves, and the new line gets a   *)
(* descriptor that was free.                                               *)
LEMMA BreakLineMem == Inv /\ MemInv /\ BreakLine => MemInv' /\ BreakDone
<1> SUFFICES ASSUME Inv, MemInv, BreakLine PROVE MemInv' /\ BreakDone
  OBVIOUS
<1> DEFINE ld  == lines[line]
           cut == pos + len
           got == alloc_line_desc(descs)
           new == IF cut < ld.line_len
                  THEN [ld |-> got.ld, line |-> Plus(ld.line, cut), line_len |-> ld.line_len - cut]
                  ELSE [ld |-> got.ld, line |-> Null, line_len |-> 0]
           at  == IF cut = 0 THEN Null ELSE ld.line
           old == [ld EXCEPT !.line = IF cut = 0 THEN Null ELSE @, !.line_len = cut]
           mid == [lines EXCEPT ![line] = old]
           N   == Len(lines)
<1>1. /\ lines' = InsertAt(mid, line + 1, new) /\ descs' = got.pools /\ mem' = mem
      /\ rest' = Tail(rest) /\ rest # <<>> /\ DOMAIN marks' = DOMAIN marks
  BY DEF BreakLine, MoveMarks
<1>2. /\ AreLines(lines) /\ line \in 1 .. N /\ IsLine(ld) /\ N \in Nat \ {0}
      /\ DOMAIN lines = 1 .. N /\ lines = [j \in 1 .. N |-> lines[j]]
  BY DEF Inv, LinesInv, PlaceInv, AreLines
<1>3. rest \in Seq(Byte \cup {NL}) /\ cut \in Nat /\ cut <= ld.line_len /\ ld.line_len \in Nat
  BY <1>2 DEF Inv, OwedInv, PlaceInv, IsLine
<1>4. IsOwner(ld) /\ OwnedBy(lines, mem) /\ GivenTo(lines, descs) /\ ArePools(mem)
  BY <1>2 DEF MemInv, OwnedBy
<1>5. /\ new.line = (IF cut < ld.line_len THEN Plus(ld.line, cut) ELSE Null)
      /\ new.line_len = ld.line_len - cut /\ new.ld = got.ld
  BY <1>3
<1>6. old = [ld |-> ld.ld, line |-> at, line_len |-> cut]
  <2>1. old = [ld EXCEPT !.line = at, !.line_len = cut]
    OBVIOUS
  <2> HIDE DEF ld, at, cut, old
  <2> QED
    BY <1>2, <2>1, LineExcept
<1>7. mid = [j \in 1 .. N |-> IF j = line THEN old ELSE lines[j]]
  BY <1>2
<1> HIDE DEF new, old, mid, got, cut, N
<1>8. old.line = at /\ old.line_len = cut /\ old.ld = ld.ld
  BY <1>6
<1>9. lines' = [j \in 1 .. N + 1 |-> IF j < line + 1 THEN mid[j] ELSE IF j = line + 1 THEN new ELSE mid[j - 1]]
  <2> DEFINE S == {mid[j] : j \in 1 .. N} \cup {new}
  <2>1. mid \in Seq(S) /\ Len(mid) = N /\ new \in S
    BY <1>2, <1>7
  <2> HIDE DEF S
  <2>2. line + 1 \in 1 .. Len(mid) + 1
    BY <1>2, <2>1
  <2> QED
    BY SMTT(20), <1>1, <2>1, <2>2, Inserted
<1>10. /\ Len(lines') = N + 1
       /\ \A j \in 1 .. N + 1 : j < line => lines'[j] = lines[j]
       /\ \A j \in 1 .. N + 1 : j > line + 1 => lines'[j] = lines[j - 1]
       /\ lines'[line] = old /\ lines'[line + 1] = new
  <2>1. Len(lines') = N + 1
    BY <1>2, <1>9
  <2>2. \A j \in 1 .. N + 1 : lines'[j] = IF j < line + 1 THEN mid[j] ELSE IF j = line + 1 THEN new ELSE mid[j - 1]
    BY <1>9
  <2>3. \A j \in 1 .. N : mid[j] = IF j = line THEN old ELSE lines[j]
    BY <1>7
  <2>4. line \in 1 .. N + 1 /\ line + 1 \in 1 .. N + 1 /\ line < line + 1 /\ ~(line + 1 < line + 1)
    BY ONLY <1>2
  <2>5. lines'[line] = old /\ lines'[line + 1] = new
    BY <1>2, <2>2, <2>3, <2>4
  <2>6. ASSUME NEW j \in 1 .. N + 1, j < line PROVE lines'[j] = lines[j]
    <3>1. j \in 1 .. N /\ j < line + 1 /\ j # line
      BY ONLY <1>2, <2>6, j \in 1 .. N + 1
    <3> QED
      BY <2>2, <2>3, <3>1
  <2>7. ASSUME NEW j \in 1 .. N + 1, j > line + 1 PROVE lines'[j] = lines[j - 1]
    <3>1. j - 1 \in 1 .. N /\ ~(j < line + 1) /\ j # line + 1 /\ j - 1 # line
      BY ONLY <1>2, <2>7, j \in 1 .. N + 1
    <3> QED
      BY <2>2, <2>3, <3>1
  <2> QED
    BY <2>1, <2>5, <2>6, <2>7
<1>11. /\ IsOwner(old) /\ IsOwner(new)
       /\ Owns(old) \cup Owns(new) = Owns(ld) /\ Owns(old) \cap Owns(new) = {}
  <2> HIDE DEF ld
  <2> QED
    BY <1>3, <1>4, <1>5, <1>8, BrokenOwns
<1>12. OwnedBy(lines', mem')
  <2>1. IsOwner(lines'[line]) /\ IsOwner(lines'[line + 1])
    BY <1>10, <1>11
  <2>2. Owns(lines'[line]) \cup Owns(lines'[line + 1]) = Owns(lines[line])
    BY <1>10, <1>11
  <2>3. Owns(lines'[line]) \cap Owns(lines'[line + 1]) = {}
    BY <1>10, <1>11
  <2>4. OwnedBy(lines', mem)
    BY <1>2, <1>4, <1>10, <2>1, <2>2, <2>3, LineBroken DEF N
  <2> QED
    BY <1>1, <2>4
<1> DEFINE u == mem.allocated - mem.free
           k == Len(rest)
<1>13. u \in Nat /\ mem.allocated \in Int /\ mem.free \in Int
  BY <1>4, FS_CardinalityType DEF ArePools
<1>14. k \in Nat \ {0} /\ Len(rest') = k - 1
  BY <1>1, <1>3
<1>15. N - 1 + mem.allocated - mem.free + k <= MaxText /\ MaxText \in Nat /\ MaxDescPools > MaxText + 1
  BY LineBounds DEF MemInv, Total, N
<1> HIDE DEF k
<1>16. N < MaxDescPools
  BY ONLY <1>2, <1>13, <1>14, <1>15, DescAssumption
<1>17. GivenTo(lines', descs')
  <2>1. \A j \in 1 .. N + 1 : j <= line => lines'[j].ld = lines[j].ld
    <3> TAKE j \in 1 .. N + 1
    <3>1. CASE j < line
      BY <1>10, <3>1
    <3>2. CASE j = line
      BY <1>8, <1>10, <3>2
    <3>3. j <= line => j < line \/ j = line
      BY <1>2
    <3> QED
      BY <3>1, <3>2, <3>3
  <2>2. \A j \in 1 .. N + 1 : j > line + 1 => lines'[j].ld = lines[j - 1].ld
    BY <1>10
  <2>3. lines'[line + 1].ld = got.ld
    BY <1>5, <1>10
  <2>4. got = alloc_line_desc(descs)
    BY DEF got
  <2>5. GivenTo(lines', got.pools)
    BY <1>2, <1>4, <1>10, <1>16, <2>1, <2>2, <2>3, <2>4, DescAdded DEF N
  <2> QED
    BY <1>1, <2>5
<1>18. Total' + Len(rest') <= MaxText
  <2>1. Total' + Len(rest') = (N + 1) - 1 + mem.allocated - mem.free + (k - 1)
    BY <1>1, <1>10, <1>14 DEF Total
  <2>2. (N + 1) - 1 + mem.allocated - mem.free + (k - 1) <= MaxText
    BY ONLY <1>2, <1>13, <1>14, <1>15
  <2> QED
    BY <2>1, <2>2
<1>19. DOMAIN marks' \subseteq Marks
  BY <1>1 DEF MemInv
<1>20. BreakDone
  <2>1. /\ lines'[line].line_len = cut
        /\ cut > 0 => lines'[line].line = ld.line
        /\ lines'[line + 1].line_len = ld.line_len - cut
        /\ cut < ld.line_len => lines'[line + 1].line = Plus(ld.line, cut)
    BY <1>3, <1>5, <1>8, <1>10
  <2> QED
    BY <1>1, <1>10, <2>1 DEF BreakDone, N, cut
<1>21. MemInv'
  BY <1>12, <1>17, <1>18, <1>19 DEF MemInv
<1> QED
  BY <1>20, <1>21
-----------------------------------------------------------------------------
(* A part of a range of bytes.                                             *)
LEMMA SubSpan ==
  ASSUME NEW p, p[2] \in Nat, NEW a \in Nat, NEW k \in Nat, NEW n \in Nat, a + k <= n
  PROVE  Span(Plus(p, a), k) \subseteq Span(p, n)
<1>1. /\ Span(p, a) \cup Span(Plus(p, a), n - a) = Span(p, n)
      /\ Plus(p, a)[2] = p[2] + a
  <2>1. n - a \in Nat /\ a + (n - a) = n
    OBVIOUS
  <2> DEFINE b == n - a
  <2> HIDE DEF b
  <2>2. b \in Nat /\ a + b = n
    BY <2>1 DEF b
  <2>3. Span(p, a) \cup Span(Plus(p, a), b) = Span(p, a + b) /\ Plus(p, a)[2] = p[2] + a
    BY <2>2, SpanSplit
  <2> QED
    BY <2>2, <2>3 DEF b
<1> DEFINE q == Plus(p, a)
           l == n - a - k
<1>2. q[2] \in Nat /\ l \in Nat /\ k + l = n - a
  BY <1>1
<1> HIDE DEF q, l
<1>3. Span(q, k) \cup Span(Plus(q, k), l) = Span(q, k + l)
  BY <1>2, SpanSplit
<1>4. Span(q, k + l) = Span(q, n - a)
  BY <1>2
<1>5. Span(q, k) \subseteq Span(q, n - a)
  BY <1>3, <1>4
<1> QED
  BY <1>1, <1>5 DEF q

(* Bytes of a line are written over with bytes of it.                      *)
LEMMA PartWritten ==
  ASSUME NEW m, ArePools(m), NEW p, p[2] \in Nat, NEW n \in Nat \ {0}, Span(p, n) \subseteq Used(m),
         NEW a \in Nat, NEW s \in Seq(Byte), a + Len(s) <= n,
         NEW r, r = Write(m, Plus(p, a), s)
  PROVE  ArePools(r) /\ Used(r) = Used(m) /\ Stored(m, r, Plus(p, a), s)
<1> DEFINE q == Plus(p, a)
           k == Len(s)
           x == p[2]
           size == m.pool[p[1]].size
<1>1. k \in Nat /\ q[1] = p[1] /\ q[2] = x + a /\ x \in Nat /\ a + k <= n
  BY DEF Plus
<1>2. p[1] \in DOMAIN m.pool /\ x + n <= size
  BY SpanIn
<1>3. size \in Nat
  BY <1>2 DEF ArePools, IsPool, IsRaw
<1> HIDE DEF x, size, k
<1>4. Span(q, k) \subseteq Used(m)
  <2>1. Span(q, k) \subseteq Span(p, n)
    BY <1>1, SubSpan
  <2> QED
    BY <2>1
<1> HIDE DEF q
<1>5. q[2] \in Nat /\ q[2] + k <= size
  BY ONLY <1>1, <1>2, <1>3, a \in Nat, n \in Nat \ {0}
<1>6. q[1] \in DOMAIN m.pool /\ q[2] + Len(s) <= m.pool[q[1]].size
  BY <1>1, <1>2, <1>5 DEF k, size
<1>7. Span(q, Len(s)) \subseteq Used(m)
  BY <1>4 DEF k
<1>8. r = Write(m, q, s)
  BY DEF q
<1>9. ArePools(r) /\ Used(r) = Used(m) /\ Stored(m, r, q, s)
  BY <1>5, <1>6, <1>7, <1>8, WrittenOver
<1> QED
  BY <1>9 DEF q

(* The end of a line, or all of it, is deleted.                            *)
LEMMA EndDeleted ==
  ASSUME NEW m, ArePools(m), NEW old, IsOwner(old), Owns(old) \subseteq Used(m),
         NEW pos_ \in Nat, NEW n \in Nat \ {0}, pos_ + n = old.line_len,
         NEW w, ArePools(w), Used(w) = Used(m), Keeps(m, w, Used(m) \ Owns(old)),
         NEW r, r = free_chars(w, Plus(old.line, pos_), n),
         NEW new, new.line = (IF pos_ = 0 THEN Null ELSE old.line), new.line_len = pos_
  PROVE  Moves(m, r, Owns(old), Owns(new)) /\ IsOwner(new) /\ Keeps(w, r, Owns(new))
<1> DEFINE p == old.line
           q == Plus(p, pos_)
<1>1. p = <<p[1], p[2]>> /\ p[1] \in PoolIds /\ p[2] \in Nat
  <2>1. old.line_len # 0
    BY pos_ + n = old.line_len
  <2> QED
    BY <2>1 DEF IsOwner
<1>2. Owns(old) = Span(p, pos_ + n)
  BY DEF Owns
<1>a. r = free_chars(w, q, n)
  OBVIOUS
<1>b. new.line = IF pos_ = 0 THEN Null ELSE p
  OBVIOUS
<1> HIDE DEF p
<1>3. /\ Span(p, pos_) \cup Span(q, n) = Span(p, pos_ + n)
      /\ Span(p, pos_) \cap Span(q, n) = {}
      /\ q[2] = p[2] + pos_
  BY <1>1, SpanSplit
<1>4. q[2] \in Nat
  BY <1>1, <1>3
<1>5. IsOwner(new) /\ Owns(new) = Span(p, pos_)
  BY <1>1, <1>b, AtOwns
<1> HIDE DEF q
<1>6. Span(q, n) \subseteq Used(w)
  BY <1>2, <1>3
<1>7. Takes(w, r, Span(q, n))
  BY <1>4, <1>6, <1>a, FreeTakes
<1>8. Span(q, n) \cup Owns(new) = Owns(old) /\ Span(q, n) \cap Owns(new) = {}
  BY <1>2, <1>3, <1>5
<1>9. Keeps(w, r, Owns(new))
  <2>1. Owns(new) \subseteq Used(r)
    BY <1>7, <1>8 DEF Takes
  <2> QED
    BY <1>7, <2>1 DEF Takes, Keeps
<1> QED
  BY <1>5, <1>7, <1>8, <1>9, Shrunk

(* The beginning of a line is deleted.                                     *)
LEMMA HeadDeleted ==
  ASSUME NEW m, ArePools(m), NEW old, IsOwner(old), Owns(old) \subseteq Used(m),
         NEW n \in Nat \ {0}, NEW k \in Nat \ {0}, n + k = old.line_len,
         NEW w, ArePools(w), Used(w) = Used(m), Keeps(m, w, Used(m) \ Owns(old)),
         NEW r, r = free_chars(w, old.line, n),
         NEW new, new.line = Plus(old.line, n), new.line_len = k
  PROVE  Moves(m, r, Owns(old), Owns(new)) /\ IsOwner(new) /\ Keeps(w, r, Owns(new))
<1> DEFINE p == old.line
           q == Plus(p, n)
<1>1. p = <<p[1], p[2]>> /\ p[1] \in PoolIds /\ p[2] \in Nat
  <2>1. old.line_len # 0
    BY n + k = old.line_len
  <2> QED
    BY <2>1 DEF IsOwner
<1>2. Owns(old) = Span(p, n + k)
  BY DEF Owns
<1>a. r = free_chars(w, p, n) /\ new.line = q
  OBVIOUS
<1> HIDE DEF p
<1>3. /\ Span(p, n) \cup Span(q, k) = Span(p, n + k)
      /\ Span(p, n) \cap Span(q, k) = {}
      /\ q[1] = p[1] /\ q[2] = p[2] + n
  BY <1>1, SpanSplit
<1>4. q = <<q[1], q[2]>> /\ q[1] \in PoolIds /\ q[2] \in Nat
  BY <1>1, <1>3 DEF Plus
<1> HIDE DEF q
<1>5. IsOwner(new) /\ Owns(new) = Span(q, k)
  BY <1>4, <1>a, OwnerAt DEF Owns
<1>6. Span(p, n) \subseteq Used(w)
  BY <1>2, <1>3
<1>7. Takes(w, r, Span(p, n))
  BY <1>1, <1>6, <1>a, FreeTakes
<1>8. Span(p, n) \cup Owns(new) = Owns(old) /\ Span(p, n) \cap Owns(new) = {}
  BY <1>2, <1>3, <1>5
<1>9. Keeps(w, r, Owns(new))
  <2>1. Owns(new) \subseteq Used(r)
    BY <1>7, <1>8 DEF Takes
  <2> QED
    BY <1>7, <2>1 DEF Takes, Keeps
<1> QED
  BY <1>5, <1>7, <1>8, <1>9, Shrunk

(* Fewer bytes than before are within the bound.                           *)
LEMMA MemBound ==
  ASSUME Inv, MemInv, NEW k \in Int, Len(lines') = Len(lines) + k, rest' = rest,
         NEW V, V \subseteq Used(mem), NEW W, IsFiniteSet(W), Moves(mem, mem', V, W),
         k + Cardinality(W) <= Cardinality(V)
  PROVE  Total' + Len(rest') <= MaxText
<1> DEFINE N == Len(lines)
           j == Len(rest)
           v == Cardinality(V)
           w == Cardinality(W)
           a == mem.allocated
           f == mem.free
           b == mem'.allocated
           g == mem'.free
<1>1. N \in Nat /\ rest \in Seq(Byte \cup {NL}) /\ ArePools(mem)
  BY DEF Inv, LinesInv, AreLines, OwedInv, MemInv, OwnedBy
<1>2. j \in Nat
  BY <1>1
<1>3. v \in Nat /\ w \in Nat
  <2>1. IsFiniteSet(V)
    BY <1>1, FS_Subset DEF ArePools
  <2> QED
    BY <2>1, FS_CardinalityType
<1>4. b - g = (a - f) - v + w
  BY <1>1, MovesCount
<1>5. a \in Int /\ f \in Int /\ b \in Int /\ g \in Int
  BY <1>1 DEF ArePools, Moves
<1>6. N - 1 + a - f + j <= MaxText /\ MaxText \in Nat
  BY LineBounds DEF MemInv, Total
<1>7. Total' + Len(rest') = (N + k) - 1 + b - g + j
  BY DEF Total
<1>8. k + w <= v
  OBVIOUS
<1> HIDE DEF N, j, v, w, a, f, b, g
<1>9. (N + k) - 1 + b - g + j <= MaxText
  BY ONLY <1>1, <1>2, <1>3, <1>4, <1>5, <1>6, <1>8, k \in Int
<1> QED
  BY <1>7, <1>9

(* A byte of a run of bytes at p, and its address.                         *)
LEMMA AtSpan ==
  ASSUME NEW p, p[2] \in Nat, NEW k \in Nat, NEW i \in Nat \ {0}
  PROVE  /\ At(p, i) \in Span(p, k) <=> i <= k
         /\ \A a \in Nat : a < i => At(p, i) = At(Plus(p, a), i - a)
         /\ \A a \in Nat : i <= a => At(p, i) \notin Span(Plus(p, a), k)
  BY DEF At, Span, Bytes_, Plus

(* The end of the line has been moved to where the deleted bytes were.     *)
LEMMA TailDone ==
  ASSUME NEW m, NEW old, IsOwner(old), old.line_len # 0, Owns(old) \subseteq Used(m),
         NEW text, Len(text) = old.line_len, text = Read(m, old.line, old.line_len),
         NEW q \in Nat, NEW n \in Nat \ {0}, q + n <= old.line_len,
         NEW tail, Len(tail) = old.line_len - (q + n),
         \A j \in 1 .. old.line_len - (q + n) : tail[j] = text[q + n + j],
         NEW w, Stored(m, w, Plus(old.line, q), tail),
         NEW new, new.line = (IF old.line_len - n = 0 THEN Null ELSE old.line), new.line_len = old.line_len - n,
         NEW r, Keeps(w, r, Owns(new))
  PROVE  Without(r, new, text, q, n)
<1> DEFINE p == old.line
           L == old.line_len
           T == Plus(p, q)
<1>1. L \in Nat \ {0} /\ p[2] \in Nat
  BY DEF IsOwner
<1> SUFFICES ASSUME NEW i \in 1 .. L - n
             PROVE  Cell(r, At(new.line, i)) = text[IF i <= q THEN i ELSE i + n]
  BY DEF Without
<1>2. i \in Nat \ {0} /\ i <= L - n /\ L - n \in Nat \ {0} /\ i <= L /\ i \in 1 .. L
  BY <1>1
<1>3. new.line = p
  BY <1>2
<1>4. At(p, i) \in Owns(new) /\ At(p, i) \in Used(m)
  BY <1>1, <1>2, <1>3, AtSpan DEF Owns
<1>5. Cell(r, At(p, i)) = Cell(w, At(p, i))
  BY <1>4 DEF Keeps
<1>6. Cell(m, At(p, i)) = text[i]
  <2>1. text = [k \in 1 .. L |-> m.pool[p[1]].pool[p[2] + k - 1]]
    BY DEF Read
  <2>2. text[i] = m.pool[p[1]].pool[p[2] + i - 1]
    BY <1>2, <2>1
  <2> QED
    BY <2>2 DEF Cell, At
<1>7. CASE i <= q
  <2>1. Len(tail) \in Nat
    BY <1>1
  <2>2. At(p, i) \notin Span(T, Len(tail))
    BY <1>1, <1>2, <1>7, <2>1, AtSpan
  <2>3. Cell(w, At(p, i)) = Cell(m, At(p, i))
    BY <1>4, <2>2 DEF Stored, Keeps
  <2> QED
    BY <1>3, <1>5, <1>6, <1>7, <2>3
<1>8. CASE ~(i <= q)
  <2>1. q < i /\ i - q \in 1 .. L - (q + n) /\ q + n + (i - q) = i + n
    BY <1>1, <1>2, <1>8
  <2>2. At(p, i) = At(T, i - q)
    BY <1>1, <1>2 DEF At, Plus
  <2>3. Cell(w, At(T, i - q)) = tail[i - q]
    BY <2>1 DEF Stored, Holds
  <2>4. tail[i - q] = text[i + n]
    BY <2>1
  <2> QED
    BY <1>3, <1>5, <1>8, <2>2, <2>3, <2>4
<1> QED
  BY <1>7, <1>8

(* The beginning of the line has been moved up to them.                    *)
LEMMA HeadDone ==
  ASSUME NEW m, NEW old, IsOwner(old), old.line_len # 0, Owns(old) \subseteq Used(m),
         NEW text, Len(text) = old.line_len, text = Read(m, old.line, old.line_len),
         NEW q \in Nat, NEW n \in Nat \ {0}, q + n <= old.line_len,
         NEW head, Len(head) = q, \A j \in 1 .. q : head[j] = text[j],
         NEW w, Stored(m, w, Plus(old.line, n), head),
         NEW new, new.line = Plus(old.line, n), new.line_len = old.line_len - n,
         NEW r, Keeps(w, r, Owns(new))
  PROVE  Without(r, new, text, q, n)
<1> DEFINE p == old.line
           L == old.line_len
           T == Plus(p, n)
<1>1. L \in Nat \ {0} /\ p[2] \in Nat /\ T[2] \in Nat
  BY DEF IsOwner, Plus
<1> SUFFICES ASSUME NEW i \in 1 .. L - n
             PROVE  Cell(r, At(T, i)) = text[IF i <= q THEN i ELSE i + n]
  BY DEF Without
<1>2. i \in Nat \ {0} /\ i <= L - n /\ L - n \in Nat \ {0} /\ n + i \in 1 .. L /\ n < n + i /\ (n + i) - n = i
  BY <1>1
<1> HIDE DEF L, T
<1>3. At(T, i) \in Owns(new)
  BY <1>1, <1>2, AtSpan DEF Owns, L, T
<1>4. At(T, i) = At(p, n + i)
  BY <1>1, <1>2, AtSpan DEF T
<1>5. At(T, i) \in Used(m)
  <2>1. At(p, n + i) \in Span(p, L)
    BY <1>1, <1>2, AtSpan
  <2> QED
    BY <1>4, <2>1 DEF Owns, L
<1>6. Cell(r, At(T, i)) = Cell(w, At(T, i))
  BY <1>3 DEF Keeps
<1>7. CASE i <= q
  <2>1. i \in 1 .. q
    BY <1>2, <1>7
  <2>2. Cell(w, At(T, i)) = head[i]
    BY <2>1 DEF Stored, Holds, T
  <2> QED
    BY <1>6, <1>7, <2>1, <2>2
<1>8. CASE ~(i <= q)
  <2>1. At(T, i) \notin Span(T, q)
    BY <1>1, <1>2, <1>8, AtSpan
  <2>2. Cell(w, At(T, i)) = Cell(m, At(T, i))
    BY <1>5, <2>1 DEF Stored, Keeps, T
  <2>3. text = [k \in 1 .. L |-> m.pool[p[1]].pool[p[2] + k - 1]]
    BY DEF Read, L
  <2>4. text[n + i] = m.pool[p[1]].pool[p[2] + (n + i) - 1]
    BY <1>2, <2>3
  <2>5. Cell(m, At(p, n + i)) = text[n + i]
    BY <2>4 DEF Cell, At
  <2>6. n + i = i + n
    BY <1>2
  <2> QED
    BY <1>4, <1>6, <1>8, <2>2, <2>5, <2>6
<1> QED
  BY <1>7, <1>8

(* delete_stream() deletes bytes of a line: they become free, whichever of *)
(* the two parts that remain is moved.                                     *)
LEMMA DeleteInLineMem == Inv /\ MemInv /\ DeleteInLine => MemInv' /\ DeletionDone
<1> SUFFICES ASSUME Inv, MemInv, DeleteInLine PROVE MemInv' /\ DeletionDone
  OBVIOUS
<1> DEFINE ld  == lines[line]
           n   == Min({left, ld.line_len - pos})
           end == ld.line_len - n
           text == Text(ld)
           head == SubSeq(text, 1, pos)
           tail == SubSeq(text, pos + n + 1, ld.line_len)
           fromHead == n < ld.line_len - pos /\ pos < ld.line_len \div 2
           at == IF end = 0 THEN Null ELSE IF fromHead THEN Plus(ld.line, n) ELSE ld.line
           nld == lines'[line]
           L == ld.line_len
<1>1. /\ mem' = IF n = ld.line_len - pos THEN free_chars(mem, Plus(ld.line, pos), n)
                ELSE IF fromHead THEN free_chars(Write(mem, Plus(ld.line, n), head), ld.line, n)
                ELSE free_chars(Write(mem, Plus(ld.line, pos), tail), Plus(ld.line, end), n)
      /\ lines' = [lines EXCEPT
                    ![line].line = IF end = 0 THEN Null ELSE IF fromHead THEN Plus(@, n) ELSE @,
                    ![line].line_len = end]
      /\ rest' = rest /\ descs' = descs /\ DOMAIN marks' = DOMAIN marks
      /\ op = "delete" /\ left > 0 /\ pos # ld.line_len
  BY DEF DeleteInLine, MoveMarks, AtEnd
<1>2. /\ AreLines(lines) /\ line \in 1 .. Len(lines) /\ IsLine(ld) /\ Len(lines) \in Nat \ {0}
      /\ DOMAIN lines = 1 .. Len(lines)
  BY DEF Inv, LinesInv, PlaceInv, AreLines
<1>3. pos \in Nat /\ pos <= L /\ L \in Nat /\ left \in Nat \ {0}
  BY <1>1, <1>2 DEF Inv, OwedInv, PlaceInv, IsLine
<1>4. n \in Nat \ {0} /\ pos + n <= L
  <2> DEFINE T == {left, L - pos}
  <2>1. T \subseteq Nat /\ T # {} /\ n = Min(T)
    BY <1>1, <1>3
  <2> HIDE DEF T, n, L
  <2>2. n \in T /\ \A y \in T : n <= y
    BY <2>1, MinIs
  <2>3. (n = left \/ n = L - pos) /\ n <= L - pos
    BY <2>2 DEF T
  <2>4. L # pos
    BY <1>1 DEF L
  <2> QED
    BY ONLY <1>3, <2>3, <2>4
<1>5. ArePools(mem) /\ IsOwner(ld) /\ Owns(ld) \subseteq Used(mem)
  BY <1>2 DEF MemInv, OwnedBy
<1>6. end \in Nat /\ L \in Nat \ {0}
  BY ONLY <1>3, <1>4
<1>7. /\ L \in Nat \ {0} /\ ld.line = <<ld.line[1], ld.line[2]>>
      /\ ld.line[1] \in PoolIds /\ ld.line[2] \in Nat
  BY <1>5, <1>6 DEF IsOwner
<1>8. text \in Seq(Byte) /\ Len(text) = L
  <2>1. Span(ld.line, ld.line_len) \subseteq Used(mem)
    BY <1>5 DEF Owns
  <2> QED
    BY <1>5, <1>7, <2>1, ReadIs DEF Text
<1> HIDE DEF text
<1>9. Changed(lines, line, at, end, lines')
  <2>1. lines' = [lines EXCEPT ![line].line = at, ![line].line_len = end]
    BY <1>1, <1>2
  <2> HIDE DEF at, end
  <2> QED
    BY <1>2, <2>1, LineChanged
<1>10. /\ Len(lines') = Len(lines)
       /\ \A j \in 1 .. Len(lines) : j # line => lines'[j] = lines[j]
       /\ nld = [ld |-> ld.ld, line |-> at, line_len |-> end]
  BY <1>9 DEF Changed
<1>11. nld.line = at /\ nld.line_len = end /\ nld.ld = ld.ld
  BY <1>10
<1> HIDE DEF nld
<1>w. text = Read(mem, ld.line, ld.line_len)
  BY DEF text, Text
<1>12. Moves(mem, mem', Owns(ld), Owns(nld)) /\ IsOwner(nld) /\ Without(mem', nld, text, pos, n)
  <2>1. CASE n = L - pos
    <3>1. end = pos /\ pos + n = L /\ ~fromHead
      BY ONLY <1>3, <1>4, <2>1
    <3>2. mem' = free_chars(mem, Plus(ld.line, pos), n)
      BY <1>1, <2>1
    <3>3. nld.line = (IF pos = 0 THEN Null ELSE ld.line) /\ nld.line_len = pos
      BY <1>11, <3>1
    <3>4. Keeps(mem, mem, Used(mem) \ Owns(ld))
      BY DEF Keeps
    <3> HIDE DEF n, end, fromHead, at
    <3>5. /\ Moves(mem, mem', Owns(ld), Owns(nld)) /\ IsOwner(nld)
          /\ Keeps(mem, mem', Owns(nld))
      BY <1>3, <1>4, <1>5, <3>1, <3>2, <3>3, <3>4, EndDeleted DEF L
    <3>6. /\ Len(<<>>) = L - (pos + n) /\ Stored(mem, mem, Plus(ld.line, pos), <<>>)
          /\ \A j \in 1 .. L - (pos + n) : <<>>[j] = text[pos + n + j]
      <4>1. L - (pos + n) = 0
        BY ONLY <1>3, <1>4, <2>1
      <4> QED
        BY <4>1 DEF Stored, Keeps, Holds
    <3>7. L - n = pos
      BY ONLY <1>3, <1>4, <2>1
    <3> QED
      BY <1>w, <1>3, <1>4, <1>5, <1>6, <1>8, <3>3, <3>5, <3>6, <3>7, TailDone DEF L
  <2>2. CASE n # L - pos /\ fromHead
    <3> DEFINE w == Write(mem, Plus(ld.line, n), head)
    <3>1. end \in Nat \ {0} /\ n + end = L
      BY ONLY <1>3, <1>4, <2>2
    <3>2. mem' = free_chars(w, ld.line, n)
      BY <1>1, <2>2
    <3>3. nld.line = Plus(ld.line, n) /\ nld.line_len = end
      BY <1>11, <2>2, <3>1
    <3>4. head \in Seq(Byte) /\ Len(head) = pos
      BY <1>3, <1>8, SubSeqProperties
    <3> HIDE DEF n, end, fromHead, at, head
    <3>5. n + Len(head) <= ld.line_len
      BY <1>3, <1>4, <3>4
    <3>6. Span(ld.line, ld.line_len) \subseteq Used(mem)
      BY <1>5 DEF Owns
    <3>7. ArePools(w) /\ Used(w) = Used(mem) /\ Stored(mem, w, Plus(ld.line, n), head)
      BY <1>4, <1>5, <1>7, <3>4, <3>5, <3>6, PartWritten
    <3>8. Keeps(mem, w, Used(mem) \ Owns(ld))
      <4>1. Span(Plus(ld.line, n), Len(head)) \subseteq Span(ld.line, ld.line_len)
        BY <1>3, <1>4, <1>7, <3>4, <3>5, SubSpan
      <4> QED
        BY <3>7, <4>1 DEF Stored, Keeps, Owns
    <3> HIDE DEF w
    <3>9. /\ Moves(mem, mem', Owns(ld), Owns(nld)) /\ IsOwner(nld)
          /\ Keeps(w, mem', Owns(nld))
      BY <1>4, <1>5, <3>1, <3>2, <3>3, <3>7, <3>8, HeadDeleted DEF L
    <3>10. \A j \in 1 .. pos : head[j] = text[j]
      BY <1>3, <1>8 DEF head
    <3>11. nld.line_len = L - n
      BY ONLY <3>1, <3>3, <1>3, <1>4
    <3> QED
      BY <1>w, <1>3, <1>4, <1>5, <1>6, <1>8, <3>3, <3>4, <3>7, <3>9, <3>10, <3>11, HeadDone DEF L
  <2>3. CASE n # L - pos /\ ~fromHead
    <3> DEFINE w == Write(mem, Plus(ld.line, pos), tail)
    <3>1. end \in Nat \ {0} /\ end + n = L
      BY ONLY <1>3, <1>4, <2>3
    <3>2. mem' = free_chars(w, Plus(ld.line, end), n)
      BY <1>1, <2>3
    <3>3. nld.line = (IF end = 0 THEN Null ELSE ld.line) /\ nld.line_len = end
      BY <1>11, <2>3
    <3>4. tail \in Seq(Byte) /\ Len(tail) = L - (pos + n)
      <4> HIDE DEF n
      <4>1. pos + n + 1 \in 1 .. L + 1 /\ L - (pos + n + 1) + 1 = L - (pos + n)
        BY ONLY <1>3, <1>4
      <4>2. tail = [j \in 1 .. L - (pos + n) |-> text[pos + n + j]]
        BY <1>3, <1>4, <1>8
      <4>3. L - (pos + n) \in Nat /\ \A j \in 1 .. L - (pos + n) : pos + n + j \in 1 .. L
        BY ONLY <1>3, <1>4
      <4>4. \A j \in 1 .. L - (pos + n) : text[pos + n + j] \in Byte
        BY <1>8, <4>3
      <4> HIDE DEF tail
      <4> QED
        BY <4>2, <4>3, <4>4
    <3>t. \A j \in 1 .. L - (pos + n) : tail[j] = text[pos + n + j]
      <4> HIDE DEF n
      <4>1. tail = [j \in 1 .. L - (pos + n) |-> text[pos + n + j]]
        BY <1>3, <1>4, <1>8
      <4> HIDE DEF tail
      <4> QED
        BY <4>1
    <3> HIDE DEF n, end, fromHead, at, tail
    <3>5. pos + Len(tail) <= ld.line_len
      BY <1>3, <1>4, <3>4
    <3>6. Span(ld.line, ld.line_len) \subseteq Used(mem)
      BY <1>5 DEF Owns
    <3>7. ArePools(w) /\ Used(w) = Used(mem) /\ Stored(mem, w, Plus(ld.line, pos), tail)
      BY <1>3, <1>5, <1>7, <3>4, <3>5, <3>6, PartWritten
    <3>8. Keeps(mem, w, Used(mem) \ Owns(ld))
      <4>1. Span(Plus(ld.line, pos), Len(tail)) \subseteq Span(ld.line, ld.line_len)
        BY <1>3, <1>4, <1>7, <3>4, <3>5, SubSpan
      <4> QED
        BY <3>7, <4>1 DEF Stored, Keeps, Owns
    <3> HIDE DEF w
    <3>9. /\ Moves(mem, mem', Owns(ld), Owns(nld)) /\ IsOwner(nld)
          /\ Keeps(w, mem', Owns(nld))
      BY <1>4, <1>5, <3>1, <3>2, <3>3, <3>7, <3>8, EndDeleted DEF L
    <3>10. L - n = end
      BY ONLY <3>1, <1>3, <1>4
    <3> QED
      BY <1>w, <1>3, <1>4, <1>5, <1>6, <1>8, <3>3, <3>4, <3>7, <3>9, <3>10, <3>t, TailDone DEF L
  <2> QED
    BY <2>1, <2>2, <2>3
<1> HIDE DEF n, end, fromHead, at, ld
<1>13. OwnedBy(lines', mem')
  BY <1>2, <1>10, <1>12, LineMoved DEF MemInv, nld, ld
<1>14. GivenTo(lines', descs')
  <2>1. \A j \in 1 .. Len(lines) : lines'[j].ld = lines[j].ld
    BY <1>10, <1>11 DEF nld, ld
  <2> QED
    BY ZenonT(60), <1>1, <1>10, <2>1, SameDescs DEF MemInv
<1>15. Total' + Len(rest') <= MaxText
  <2>1. IsFiniteSet(Owns(nld)) /\ Cardinality(Owns(nld)) = end
    BY <1>11, <1>12, OwnsCount
  <2>2. Cardinality(Owns(ld)) = L
    BY <1>5, OwnsCount
  <2>3. 0 + Cardinality(Owns(nld)) <= Cardinality(Owns(ld))
    <3>1. 0 + end <= L
      BY ONLY <1>3, <1>4 DEF end, L
    <3> QED
      BY <2>1, <2>2, <3>1
  <2>4. Len(lines') = Len(lines) + 0
    BY <1>2, <1>10
  <2>5. Moves(mem, mem', Owns(ld), Owns(nld)) /\ rest' = rest
    BY <1>1, <1>12
  <2> QED
    BY SMTT(20), <1>5, <2>1, <2>3, <2>4, <2>5, MemBound
<1>16. DOMAIN marks' \subseteq Marks
  BY <1>1 DEF MemInv
<1>17. DeletionDone
  <2>1. /\ Moves(mem, mem', Owns(ld), Owns(nld))
        /\ Without(mem', nld, text, pos, n)
    BY <1>12
  <2>2. nld.line_len = L - n
    BY <1>11 DEF end
  <2> DEFINE k == Min({left, ld.line_len - pos})
             lt == lines'[line]
  <2>3. n = k /\ lt = nld /\ text = Text(ld)
    BY DEF n, nld, text
  <2> HIDE DEF k, text, lt
  <2> QED
    BY <1>4, <1>10, <2>1, <2>2, <2>3 DEF DeletionDone, k, lt, ld, L
<1>18. MemInv'
  BY <1>13, <1>14, <1>15, <1>16 DEF MemInv
<1> QED
  BY <1>17, <1>18
-----------------------------------------------------------------------------
(* Two lines that are to be joined, and the line that they become.         *)
Joining(m, ld, next, new) ==
  /\ ArePools(m) /\ IsOwner(ld) /\ IsOwner(next)
  /\ Owns(ld) \subseteq Used(m) /\ Owns(next) \subseteq Used(m) /\ Owns(next) \cap Owns(ld) = {}
  /\ new.line_len = ld.line_len + next.line_len

(* Their bytes are one after the other already, or one of them is empty.   *)
LEMMA JoinedInPlace ==
  ASSUME NEW m, NEW ld, NEW next, NEW new, Joining(m, ld, next, new), Adjacent(ld, next),
         new.line = (IF ld.line = Null THEN next.line ELSE ld.line)
  PROVE  Moves(m, m, Owns(ld) \cup Owns(next), Owns(new)) /\ IsOwner(new)
         /\ Holds(m, new.line, Read(m, ld.line, ld.line_len) \o Read(m, next.line, next.line_len))
<1>1. /\ ArePools(m) /\ IsOwner(ld) /\ IsOwner(next)
      /\ Owns(ld) \subseteq Used(m) /\ Owns(next) \subseteq Used(m)
      /\ new.line_len = ld.line_len + next.line_len
  BY DEF Joining
<1>2. \A x : IsOwner(x) /\ x.line = Null => x.line_len = 0 /\ Owns(x) = {}
  <2> TAKE x
  <2> SUFFICES ASSUME IsOwner(x), x.line = Null PROVE x.line_len = 0 /\ Owns(x) = {}
    OBVIOUS
  <2>1. ~(x.line[1] \in PoolIds)
    BY DEF Null, PoolIds
  <2>2. x.line_len = 0
    BY <2>1 DEF IsOwner
  <2> QED
    BY <2>2, EmptyOwns
<1>3. ld.line_len \in Nat /\ next.line_len \in Nat
  BY <1>1, OwnsCount
<1>4. Owns(new) = Owns(ld) \cup Owns(next) /\ IsOwner(new)
  <2>1. CASE ld.line = Null
    <3>1. ld.line_len = 0 /\ Owns(ld) = {}
      BY <1>1, <1>2, <2>1
    <3>2. new.line = next.line /\ new.line_len = next.line_len
      BY <1>1, <1>3, <2>1, <3>1
    <3>3. Owns(new) = Owns(next)
      BY <3>2 DEF Owns
    <3>4. IsOwner(new)
      BY <1>1, <3>2 DEF IsOwner
    <3> QED
      BY <3>1, <3>3, <3>4
  <2>2. CASE ld.line # Null /\ next.line = Null
    <3>1. next.line_len = 0 /\ Owns(next) = {}
      BY <1>1, <1>2, <2>2
    <3>2. new.line = ld.line /\ new.line_len = ld.line_len
      BY <1>1, <1>3, <2>2, <3>1
    <3>3. Owns(new) = Owns(ld)
      BY <3>2 DEF Owns
    <3>4. IsOwner(new)
      BY <1>1, <3>2 DEF IsOwner
    <3> QED
      BY <3>1, <3>3, <3>4
  <2>3. CASE ld.line # Null /\ next.line # Null
    <3> DEFINE p == ld.line
               a == ld.line_len
               b == next.line_len
    <3>1. Plus(p, a) = next.line
      BY <2>3 DEF Adjacent
    <3>2. a \in Nat \ {0} /\ p = <<p[1], p[2]>> /\ p[1] \in PoolIds /\ p[2] \in Nat
      BY <1>1, <2>3 DEF IsOwner
    <3>3. Owns(ld) = Span(p, a) /\ Owns(next) = Span(Plus(p, a), b) /\ b \in Nat
      BY <1>3, <3>1 DEF Owns
    <3>4. new.line = p /\ new.line_len = a + b
      BY <1>1, <2>3
    <3> HIDE DEF p, a, b
    <3>5. Span(p, a) \cup Span(Plus(p, a), b) = Span(p, a + b)
      BY <3>2, <3>3, SpanSplit
    <3>6. a + b \in Nat \ {0}
      BY ONLY <3>2, <3>3
    <3>7. IsOwner(new) /\ Owns(new) = Span(p, a + b)
      BY <3>2, <3>4, <3>6, OwnerAt DEF Owns
    <3> QED
      BY <3>3, <3>5, <3>7
  <2> QED
    BY <2>1, <2>2, <2>3
<1> DEFINE a == ld.line_len
           b == next.line_len
           t == Read(m, ld.line, a)
           u == Read(m, next.line, b)
<1>5. /\ t = [i \in 1 .. a |-> Cell(m, At(ld.line, i))]
      /\ u = [i \in 1 .. b |-> Cell(m, At(next.line, i))]
  BY DEF Read, Cell, At
<1>6. a \in Nat /\ b \in Nat /\ new.line_len = a + b
  BY <1>1, <1>3
<1>7. Holds(m, new.line, t \o u)
  <2>1. \A i \in 1 .. a : Cell(m, At(new.line, i)) = Cell(m, At(ld.line, i))
    <3>1. ld.line = Null => a = 0
      BY <1>1, <1>2
    <3> QED
      BY <1>6, <3>1
  <2>2. \A i \in 1 .. b : Cell(m, At(new.line, a + i)) = Cell(m, At(next.line, i))
    <3>1. CASE ld.line = Null
      <4>1. a = 0 /\ new.line = next.line
        BY <1>1, <1>2, <3>1
      <4> QED
        BY <4>1
    <3>2. CASE ld.line # Null /\ next.line = Null
      <4>1. b = 0
        BY <1>1, <1>2, <3>2
      <4> QED
        BY <4>1
    <3>3. CASE ld.line # Null /\ next.line # Null
      <4>1. next.line = <<ld.line[1], ld.line[2] + a>> /\ new.line = ld.line
        BY <3>3 DEF Adjacent, Plus
      <4>2. ld.line[2] \in Nat
        BY <1>1, <3>3 DEF IsOwner
      <4>3. next.line[1] = ld.line[1] /\ next.line[2] = ld.line[2] + a
        BY <4>1
      <4>4. \A i \in 1 .. b : ld.line[2] + (a + i) - 1 = next.line[2] + i - 1
        BY <1>6, <4>2, <4>3
      <4> QED
        BY <4>1, <4>3, <4>4 DEF At
    <3> QED
      BY <3>1, <3>2, <3>3
  <2>3. /\ Len(t \o u) = a + b
        /\ \A i \in 1 .. a + b : (t \o u)[i] = IF i <= a THEN t[i] ELSE u[i - a]
    <3> DEFINE f(i) == Cell(m, At(ld.line, i))
               g(i) == Cell(m, At(next.line, i))
    <3>1. t = [i \in 1 .. a |-> f(i)] /\ u = [i \in 1 .. b |-> g(i)]
      BY <1>5
    <3> HIDE DEF f, g, t, u, a, b
    <3>2. Len(t) = a /\ Len(u) = b
      BY <1>6, <3>1
    <3> QED
      BY <1>6, <3>1, <3>2
  <2> HIDE DEF a, b
  <2>4. ASSUME NEW i \in 1 .. a + b PROVE Cell(m, At(new.line, i)) = (t \o u)[i]
    <3>1. CASE i <= a
      <4>1. i \in 1 .. a
        BY <3>1
      <4> QED
        BY <1>5, <2>1, <2>3, <3>1, <4>1
    <3>2. CASE ~(i <= a)
      <4>1. i - a \in 1 .. b /\ a + (i - a) = i
        BY <1>6, <3>2
      <4>2. Cell(m, At(new.line, a + (i - a))) = Cell(m, At(next.line, i - a))
        BY <2>2, <4>1
      <4>3. u[i - a] = Cell(m, At(next.line, i - a))
        BY <1>5, <4>1
      <4> QED
        BY <2>3, <3>2, <4>1, <4>2, <4>3
    <3> QED
      BY <3>1, <3>2
  <2> QED
    BY <2>3, <2>4 DEF Holds
<1> QED
  BY <1>1, <1>4, <1>7 DEF Moves, Keeps

(* The bytes of one line join those of the other, around which there is    *)
(* room.                                                                   *)
LEMMA JoinedAround ==
  ASSUME NEW m, ArePools(m), NEW old, NEW other,
         old.line_len \in Nat \ {0}, old.line[2] \in Nat, Owns(old) \subseteq Used(m),
         other.line_len \in Nat \ {0}, other.line[2] \in Nat, Owns(other) \subseteq Used(m),
         Owns(other) \cap Owns(old) = {}, NEW flag \in BOOLEAN,
         NEW w, w = alloc_chars_around(m, old.line, old.line_len, other.line_len, flag), w.after >= 0,
         NEW s \in Seq(Byte), Len(s) = old.line_len + other.line_len,
         NEW x, x = Write(w.mem, Plus(old.line, w.after - other.line_len), s),
         NEW r, r = free_chars(x, other.line, other.line_len),
         NEW new, new.line = Plus(old.line, w.after - other.line_len),
         new.line_len = old.line_len + other.line_len
  PROVE  Moves(m, r, Owns(old) \cup Owns(other), Owns(new)) /\ IsOwner(new)
         /\ Holds(r, new.line, s)
<1>1. /\ IsOwner(new) /\ Gives(m, x, Owns(new) \ Owns(old)) /\ Owns(old) \subseteq Owns(new)
      /\ Keeps(m, x, Used(m) \ Owns(old)) /\ Holds(x, new.line, s) /\ new.line[2] \in Nat
  <2> DEFINE n == other.line_len
  <2>1. /\ n \in Nat \ {0} /\ w = alloc_chars_around(m, old.line, old.line_len, n, flag)
        /\ Len(s) = old.line_len + n /\ x = Write(w.mem, Plus(old.line, w.after - n), s)
        /\ new.line = Plus(old.line, w.after - n) /\ new.line_len = old.line_len + n
    OBVIOUS
  <2> HIDE DEF n
  <2>2. /\ Moves(m, x, Owns(old), Owns(new)) /\ IsOwner(new)
        /\ Gives(m, x, Owns(new) \ Owns(old)) /\ Owns(old) \subseteq Owns(new)
        /\ Keeps(m, x, Used(m) \ Owns(old)) /\ Holds(x, new.line, s)
    BY <2>1, PieceAround
  <2>3. new.line[2] \in Nat
    BY <2>1, <2>2 DEF IsOwner
  <2> QED
    BY <2>2, <2>3
<1>2. ArePools(x) /\ Used(m) \subseteq Used(x)
  BY <1>1 DEF Gives
<1>3. Owns(other) = Span(other.line, other.line_len)
  BY DEF Owns
<1>4. Span(other.line, other.line_len) \subseteq Used(x)
  BY <1>2, <1>3
<1>5. Takes(x, r, Span(other.line, other.line_len))
  BY <1>2, <1>4, FreeTakes
<1>6. Takes(x, r, Owns(other))
  BY <1>3, <1>5
<1>7. Keeps(m, x, Used(m) \ (Owns(old) \cup Owns(other)))
  BY <1>1 DEF Keeps
<1>8. Owns(new) \subseteq Used(r)
  BY <1>1, <1>6 DEF Gives, Takes
<1>9. Holds(r, new.line, s)
  <2>1. Span(new.line, Len(s)) \subseteq Used(r) /\ Keeps(x, r, Used(r)) /\ Len(s) \in Nat /\ new.line[2] \in Int
    BY <1>1, <1>6, <1>8 DEF Owns, Takes
  <2> QED
    BY <1>1, <2>1, HoldsStill
<1> QED
  BY <1>1, <1>6, <1>7, <1>9, MovedNext

(* Both move.                                                              *)
LEMMA JoinedElsewhere ==
  ASSUME NEW m, ArePools(m), PoolIds \ DOMAIN m.pool # {}, NEW ld, NEW next,
         ld.line_len \in Nat \ {0}, ld.line[2] \in Nat, Owns(ld) \subseteq Used(m),
         next.line_len \in Nat \ {0}, next.line[2] \in Nat, Owns(next) \subseteq Used(m),
         Owns(next) \cap Owns(ld) = {},
         NEW n \in Nat \ {0}, NEW s \in Seq(Byte), Len(s) = n,
         NEW g, g = alloc_chars(m, n), NEW w, w = Write(g.mem, g.at, s),
         NEW x, x = free_chars(w, ld.line, ld.line_len),
         NEW r, r = free_chars(x, next.line, next.line_len),
         NEW new, new.line = g.at, new.line_len = n
  PROVE  Moves(m, r, Owns(ld) \cup Owns(next), Owns(new)) /\ IsOwner(new)
         /\ Holds(r, new.line, s)
<1>1. Gives(m, w, Span(g.at, n)) /\ g.at[1] \in PoolIds /\ g.at[2] \in Nat
      /\ Stored(m, w, g.at, s)
  BY AllocGives
<1>2. /\ Owns(ld) = Span(ld.line, ld.line_len) /\ Owns(next) = Span(next.line, next.line_len)
      /\ Owns(new) = Span(g.at, n)
  BY DEF Owns
<1>3. IsOwner(new)
  BY <1>1, AllocPair, OwnerAt
<1>4. ArePools(w) /\ Used(m) \subseteq Used(w)
  BY <1>1 DEF Gives
<1>5. Span(ld.line, ld.line_len) \subseteq Used(w)
  BY <1>2, <1>4
<1>6. Takes(w, x, Span(ld.line, ld.line_len))
  BY <1>4, <1>5, FreeTakes
<1>7. ArePools(x) /\ Used(x) = Used(w) \ Owns(ld)
  BY <1>2, <1>6 DEF Takes
<1>8. Span(next.line, next.line_len) \subseteq Used(x)
  BY <1>2, <1>4, <1>7
<1>9. Takes(x, r, Span(next.line, next.line_len))
  BY <1>7, <1>8, FreeTakes
<1>10. Takes(w, r, Owns(ld) \cup Owns(next))
  <2>1. ArePools(r) /\ Used(r) = Used(x) \ Owns(next)
    BY <1>2, <1>9 DEF Takes
  <2>2. Keeps(w, r, Used(r))
    BY <1>6, <1>7, <1>9, <2>1 DEF Takes, Keeps
  <2> QED
    BY <1>7, <2>1, <2>2 DEF Takes
<1>11. Gives(m, w, Owns(new))
  BY <1>1, <1>2
<1>12. Keeps(m, w, Used(m)) /\ Holds(w, g.at, s)
  <2>1. Gives(m, w, Span(g.at, Len(s)))
    BY <1>1
  <2> QED
    BY <1>1, <2>1, StoredFresh
<1>13. Keeps(m, w, Used(m) \ (Owns(ld) \cup Owns(next)))
  BY <1>12 DEF Keeps
<1>14. Owns(new) \subseteq Used(r)
  BY <1>10, <1>11 DEF Gives, Takes
<1>15. Holds(r, g.at, s)
  <2>1. Keeps(w, r, Used(r)) /\ Span(g.at, Len(s)) \subseteq Used(r) /\ Len(s) \in Nat /\ g.at[2] \in Int
    BY <1>1, <1>2, <1>10, <1>14 DEF Takes
  <2> QED
    BY <1>12, <2>1, HoldsStill
<1> QED
  BY <1>3, <1>10, <1>11, <1>13, <1>15, MovedAway

(* Whichever of the four ways it is, the joined line has the bytes.        *)
LEMMA JoinedMoves ==
  ASSUME NEW ld, NEW next, NEW new, Joining(mem, ld, next, new), PoolIds \ DOMAIN mem.pool # {},
         new.line = Joined(ld, next).at
  PROVE  Moves(mem, Joined(ld, next).mem, Owns(ld) \cup Owns(next), Owns(new)) /\ IsOwner(new)
         /\ Holds(Joined(ld, next).mem, new.line, Text(ld) \o Text(next))
<1> DEFINE a == ld.line_len
           b == next.line_len
           both == Text(ld) \o Text(next)
           n == alloc_chars_around(mem, ld.line, a, b, FALSE)
           m == alloc_chars_around(mem, next.line, b, a, TRUE)
           p == alloc_chars(mem, a + b)
           nAt == Plus(ld.line, n.after - b)
           mAt == Plus(next.line, m.after - a)
           j == Joined(ld, next)
<1>1. /\ ArePools(mem) /\ IsOwner(ld) /\ IsOwner(next)
      /\ Owns(ld) \subseteq Used(mem) /\ Owns(next) \subseteq Used(mem) /\ Owns(next) \cap Owns(ld) = {}
      /\ new.line_len = a + b
  BY DEF Joining
<1>2. j = IF Adjacent(ld, next)
            THEN [mem |-> mem, at |-> IF ld.line = Null THEN next.line ELSE ld.line]
          ELSE IF n.after >= 0
            THEN [mem |-> free_chars(Write(n.mem, nAt, both), next.line, b), at |-> nAt]
          ELSE IF m.after >= 0
            THEN [mem |-> free_chars(Write(m.mem, mAt, both), ld.line, a), at |-> mAt]
          ELSE [mem |-> free_chars(free_chars(Write(p.mem, p.at, both), ld.line, a), next.line, b),
                at |-> p.at]
  BY DEF Joined
<1> HIDE DEF j, n, m, p, both
<1>3. new.line = j.at
  BY DEF j
<1>4. CASE Adjacent(ld, next)
  <2>1. j.mem = mem /\ new.line = IF ld.line = Null THEN next.line ELSE ld.line
    BY <1>2, <1>3, <1>4
  <2>2. /\ Moves(mem, mem, Owns(ld) \cup Owns(next), Owns(new)) /\ IsOwner(new)
        /\ Holds(mem, new.line, Read(mem, ld.line, ld.line_len) \o Read(mem, next.line, next.line_len))
    BY <1>4, <2>1, JoinedInPlace
  <2> QED
    BY <2>1, <2>2 DEF j, Text
<1>5. CASE ~Adjacent(ld, next)
  <2>1. ld.line # Null /\ next.line # Null
    BY <1>5 DEF Adjacent
  <2>2. a \in Nat \ {0} /\ ld.line[2] \in Nat /\ b \in Nat \ {0} /\ next.line[2] \in Nat
    BY <1>1, <2>1 DEF IsOwner
  <2>3. both \in Seq(Byte) /\ Len(both) = a + b
    <3>1. Span(ld.line, a) \subseteq Used(mem) /\ Span(next.line, b) \subseteq Used(mem)
      BY <1>1 DEF Owns
    <3>2. Text(ld) \in Seq(Byte) /\ Len(Text(ld)) = a
      BY <1>1, <2>2, <3>1, ReadIs DEF Text
    <3>3. Text(next) \in Seq(Byte) /\ Len(Text(next)) = b
      BY <1>1, <2>2, <3>1, ReadIs DEF Text
    <3> DEFINE t == Text(ld)
               u == Text(next)
    <3>4. both = t \o u /\ t \in Seq(Byte) /\ Len(t) = a /\ u \in Seq(Byte) /\ Len(u) = b
      BY <3>2, <3>3 DEF both
    <3> HIDE DEF t, u
    <3>5. t \o u \in Seq(Byte) /\ Len(t \o u) = Len(t) + Len(u)
      BY ONLY <3>4, ConcatProperties
    <3> QED
      BY ONLY <3>4, <3>5
  <2>4. a + b \in Nat \ {0} /\ a + b = b + a
    BY ONLY <2>2
  <2>5. CASE n.after >= 0
    <3> DEFINE x == Write(n.mem, nAt, both)
               r == free_chars(x, next.line, b)
    <3>1. j.mem = r /\ new.line = nAt
      BY <1>2, <1>3, <1>5, <2>5
    <3>2. Moves(mem, r, Owns(ld) \cup Owns(next), Owns(new)) /\ IsOwner(new) /\ Holds(r, new.line, both)
      <4>1. n = alloc_chars_around(mem, ld.line, ld.line_len, next.line_len, FALSE)
        BY DEF n
      <4>2. new.line = Plus(ld.line, n.after - next.line_len) /\ new.line_len = ld.line_len + next.line_len
        BY <1>1, <3>1
      <4>3. Len(both) = ld.line_len + next.line_len /\ FALSE \in BOOLEAN
        BY <2>3
      <4>4. x = Write(n.mem, Plus(ld.line, n.after - next.line_len), both) /\ r = free_chars(x, next.line, next.line_len)
        OBVIOUS
      <4> HIDE DEF x, r
      <4> QED
        BY <1>1, <2>2, <2>3, <2>5, <4>1, <4>2, <4>3, <4>4, JoinedAround
    <3> QED
      BY <3>1, <3>2 DEF j, both
  <2>6. CASE ~(n.after >= 0) /\ m.after >= 0
    <3> DEFINE x == Write(m.mem, mAt, both)
               r == free_chars(x, ld.line, a)
    <3>1. j.mem = r /\ new.line = mAt
      BY <1>2, <1>3, <1>5, <2>6
    <3>2. Moves(mem, r, Owns(next) \cup Owns(ld), Owns(new)) /\ IsOwner(new) /\ Holds(r, new.line, both)
      <4>1. m = alloc_chars_around(mem, next.line, next.line_len, ld.line_len, TRUE)
        BY DEF m
      <4>2. new.line = Plus(next.line, m.after - ld.line_len) /\ new.line_len = next.line_len + ld.line_len
        BY <1>1, <2>4, <3>1
      <4>3. Len(both) = next.line_len + ld.line_len /\ TRUE \in BOOLEAN
        BY <2>3, <2>4
      <4>4. x = Write(m.mem, Plus(next.line, m.after - ld.line_len), both) /\ r = free_chars(x, ld.line, ld.line_len)
        OBVIOUS
      <4>5. Owns(ld) \cap Owns(next) = {}
        BY <1>1
      <4> HIDE DEF x, r
      <4> QED
        BY <1>1, <2>2, <2>3, <2>6, <4>1, <4>2, <4>3, <4>4, <4>5, JoinedAround
    <3>3. Owns(next) \cup Owns(ld) = Owns(ld) \cup Owns(next)
      OBVIOUS
    <3> QED
      BY <3>1, <3>2, <3>3 DEF j, both
  <2>7. CASE ~(n.after >= 0) /\ ~(m.after >= 0)
    <3> DEFINE w == Write(p.mem, p.at, both)
               x == free_chars(w, ld.line, ld.line_len)
               r == free_chars(x, next.line, next.line_len)
               k == a + b
    <3>1. j.mem = r /\ new.line = p.at
      BY <1>2, <1>3, <1>5, <2>7
    <3>2. p = alloc_chars(mem, k) /\ Len(both) = k /\ k \in Nat \ {0} /\ new.line_len = k
      BY <1>1, <2>3, <2>4 DEF p
    <3> HIDE DEF w, x, r, k
    <3>3. Moves(mem, r, Owns(ld) \cup Owns(next), Owns(new)) /\ IsOwner(new) /\ Holds(r, new.line, both)
      <4>1. w = Write(p.mem, p.at, both) /\ x = free_chars(w, ld.line, ld.line_len) /\ r = free_chars(x, next.line, next.line_len)
        BY DEF w, x, r
      <4> QED
        BY ZenonT(60), <1>1, <2>2, <2>3, <3>1, <3>2, <4>1, JoinedElsewhere
    <3> QED
      BY <3>1, <3>3 DEF j, both
  <2> QED
    BY <2>5, <2>6, <2>7
<1> QED
  BY <1>4, <1>5

(* delete_stream() joins a line with the next one: the bytes of both are   *)
(* those of the joined line, and the descriptor of the next line is free.  *)
LEMMA JoinLinesMem == Inv /\ MemInv /\ JoinLines => MemInv' /\ JoinDone
<1> SUFFICES ASSUME Inv, MemInv, JoinLines PROVE MemInv' /\ JoinDone
  OBVIOUS
<1> DEFINE N    == Len(lines)
           ld   == lines[line]
           next == lines[line + 1]
           j    == Joined(ld, next)
           at   == j.at
           n    == ld.line_len + next.line_len
           mid  == [lines EXCEPT ![line].line = at, ![line].line_len = @ + next.line_len]
           nld  == lines'[line]
<1>1. /\ lines' = RemoveAt(mid, line + 1) /\ descs' = free_line_desc(descs, next.ld)
      /\ mem' = j.mem /\ rest' = rest /\ DOMAIN marks' = DOMAIN marks
      /\ line # N
  BY DEF JoinLines, MoveMarks, AtEnd, AtEndOfText
<1>2. /\ AreLines(lines) /\ line \in 1 .. N /\ N \in Nat \ {0} /\ DOMAIN lines = 1 .. N
  BY DEF Inv, LinesInv, PlaceInv, AreLines
<1>3. line + 1 \in 1 .. N /\ line + 1 # line
  BY ONLY <1>1, <1>2
<1>4. OwnedBy(lines, mem) /\ GivenTo(lines, descs) /\ ArePools(mem)
  BY DEF MemInv, OwnedBy
<1>5. /\ IsOwner(ld) /\ IsOwner(next) /\ Owns(next) \cap Owns(ld) = {}
      /\ Owns(ld) \subseteq Used(mem) /\ Owns(next) \subseteq Used(mem)
  BY <1>2, <1>3, <1>4 DEF OwnedBy
<1>6. Changed(lines, line, at, n, mid)
  <2>1. mid = [lines EXCEPT ![line].line = at, ![line].line_len = n]
    BY <1>2
  <2> HIDE DEF at, n, mid
  <2> QED
    BY <1>2, <2>1, LineChanged
<1> HIDE DEF mid, at
<1>7. /\ Len(mid) = N /\ mid = [k \in 1 .. N |-> mid[k]]
      /\ \A k \in 1 .. N : k # line => mid[k] = lines[k]
      /\ mid[line].line = at /\ mid[line].line_len = n /\ mid[line].ld = ld.ld
  BY <1>6 DEF Changed
<1> HIDE DEF N
<1>8. lines' = [k \in 1 .. N - 1 |-> IF k < line + 1 THEN mid[k] ELSE mid[k + 1]]
  <2> DEFINE S == {mid[k] : k \in 1 .. N}
  <2>1. mid \in Seq(S) /\ Len(mid) = N
    BY <1>2, <1>7
  <2> HIDE DEF S
  <2>2. line + 1 \in 1 .. Len(mid)
    BY <1>3, <2>1
  <2> QED
    BY <1>1, <2>1, <2>2, Removed
<1>9. Len(lines') = N - 1 /\ N - 1 \in Nat /\ line \in 1 .. N - 1
  BY <1>1, <1>2, <1>8
<1>10. /\ \A k \in 1 .. N - 1 : k < line => lines'[k] = lines[k]
       /\ \A k \in 1 .. N - 1 : k > line => lines'[k] = lines[k + 1]
       /\ nld = mid[line]
  <2>1. \A k \in 1 .. N - 1 : lines'[k] = IF k < line + 1 THEN mid[k] ELSE mid[k + 1]
    BY <1>8
  <2>2. ASSUME NEW k \in 1 .. N - 1, k < line PROVE lines'[k] = lines[k]
    <3>1. k < line + 1 /\ k \in 1 .. N /\ k # line
      BY ONLY <1>2, <2>2, k \in 1 .. N - 1
    <3> QED
      BY <1>7, <2>1, <3>1
  <2>3. ASSUME NEW k \in 1 .. N - 1, k > line PROVE lines'[k] = lines[k + 1]
    <3>1. ~(k < line + 1) /\ k + 1 \in 1 .. N /\ k + 1 # line
      BY ONLY <1>2, <2>3, k \in 1 .. N - 1
    <3> QED
      BY <1>7, <2>1, <3>1
  <2>4. line < line + 1
    BY ONLY <1>2
  <2>5. nld = mid[line]
    BY <1>9, <2>1, <2>4
  <2> HIDE DEF nld
  <2> QED
    BY <2>2, <2>3, <2>5
<1>11. nld.line = at /\ nld.line_len = n /\ nld.ld = ld.ld
  BY <1>7, <1>10
<1>12. /\ Moves(mem, mem', Owns(ld) \cup Owns(next), Owns(nld)) /\ IsOwner(nld)
       /\ Holds(mem', nld.line, Text(ld) \o Text(next))
  <2>1. Joining(mem, ld, next, nld)
    BY <1>4, <1>5, <1>11 DEF Joining
  <2>2. PoolIds \ DOMAIN mem.pool # {}
    BY PoolsLeft
  <2>3. nld.line = Joined(ld, next).at
    BY <1>11 DEF at
  <2> HIDE DEF nld, ld, next
  <2>4. /\ Moves(mem, Joined(ld, next).mem, Owns(ld) \cup Owns(next), Owns(nld)) /\ IsOwner(nld)
        /\ Holds(Joined(ld, next).mem, nld.line, Text(ld) \o Text(next))
    BY <2>1, <2>2, <2>3, JoinedMoves
  <2> QED
    BY <1>1, <2>4
<1> HIDE DEF j
<1>13. OwnedBy(lines', mem')
  BY <1>2, <1>3, <1>4, <1>9, <1>10, <1>12, LinesJoined DEF N
<1>14. GivenTo(lines', descs')
  <2>1. ASSUME NEW k \in 1 .. N - 1, k < line + 1 PROVE lines'[k].ld = lines[k].ld
    <3>1. CASE k = line
      BY <1>11, <3>1
    <3>2. CASE k # line
      <4>1. k < line
        BY ONLY <1>2, <2>1, <3>2, k \in 1 .. N - 1
      <4> QED
        BY <1>10, <4>1
    <3> QED
      BY <3>1, <3>2
  <2>2. ASSUME NEW k \in 1 .. N - 1, ~(k < line + 1) PROVE lines'[k].ld = lines[k + 1].ld
    <3>1. k > line
      BY ONLY <1>2, <2>2, k \in 1 .. N - 1
    <3> QED
      BY <1>10, <3>1
  <2> DEFINE i == line + 1
  <2>3. i \in 1 .. N /\ descs' = free_line_desc(descs, lines[i].ld)
    BY <1>1, <1>3
  <2>4. /\ \A k \in 1 .. N - 1 : k < i => lines'[k].ld = lines[k].ld
        /\ \A k \in 1 .. N - 1 : ~(k < i) => lines'[k].ld = lines[k + 1].ld
    BY <2>1, <2>2
  <2> HIDE DEF i, nld
  <2> QED
    BY <1>2, <1>4, <1>9, <2>3, <2>4, DescRemoved DEF N
<1>15. Total' + Len(rest') <= MaxText
  <2>1. /\ IsFiniteSet(Owns(ld)) /\ Cardinality(Owns(ld)) = ld.line_len /\ ld.line_len \in Nat
        /\ IsFiniteSet(Owns(next)) /\ Cardinality(Owns(next)) = next.line_len /\ next.line_len \in Nat
        /\ IsFiniteSet(Owns(nld)) /\ Cardinality(Owns(nld)) = n
    BY <1>5, <1>11, <1>12, OwnsCount
  <2> DEFINE V == Owns(ld) \cup Owns(next)
             W == Owns(nld)
  <2>2. Cardinality(V) = ld.line_len + next.line_len
    <3> DEFINE S == Owns(ld)
               T == Owns(next)
    <3>1. IsFiniteSet(S) /\ IsFiniteSet(T) /\ S \cap T = {}
      BY <1>5, <2>1
    <3> HIDE DEF S, T
    <3>2. Cardinality(S \cup T) = Cardinality(S) + Cardinality(T)
      BY ONLY <3>1, CountAdded
    <3> QED
      BY <2>1, <3>2 DEF S, T
  <2>3. -1 + Cardinality(W) <= Cardinality(V)
    <3>1. -1 + n <= n
      BY <2>1
    <3> QED
      BY <2>1, <2>2, <3>1
  <2>4. V \subseteq Used(mem) /\ IsFiniteSet(W) /\ Moves(mem, mem', V, W)
    BY <1>5, <1>12, <2>1
  <2>5. Len(lines') = Len(lines) + (-1) /\ -1 \in Int
    BY <1>2, <1>9 DEF N
  <2> DEFINE k == -1
  <2>6. k \in Int /\ Len(lines') = Len(lines) + k /\ k + Cardinality(W) <= Cardinality(V)
    BY <2>3, <2>5
  <2> HIDE DEF V, W, k
  <2> QED
    BY <1>1, <2>4, <2>6, MemBound
<1>16. DOMAIN marks' \subseteq Marks
  BY <1>1 DEF MemInv
<1>30. JoinDone
  <2>1. nld = lines'[line] /\ nld.line_len = ld.line_len + next.line_len
    BY <1>11
  <2> HIDE DEF nld
  <2>2. line + 1 \in 1 .. Len(lines) /\ Len(lines') = Len(lines) - 1
    BY <1>3, <1>9 DEF N
  <2> QED
    BY <1>10, <1>12, <2>1, <2>2 DEF JoinDone, N
<1>31. MemInv'
  BY <1>13, <1>14, <1>15, <1>16 DEF MemInv
<1> QED
  BY <1>30, <1>31
-----------------------------------------------------------------------------
(* The memory is not touched when the two functions begin.                 *)
LEMMA BeginMem ==
  ASSUME Inv, MemInv, NEW l \in DOMAIN lines, NEW p \in 0 .. lines[l].line_len,
         \/ \E s \in Streams : InsertStream(l, p, s)
         \/ \E n \in 1 .. MaxDel : DeleteStream(l, p, n)
  PROVE  MemInv'
<1>1. mem' = mem /\ descs' = descs /\ lines' = lines /\ marks' = marks
  BY DEF InsertStream, DeleteStream, textVars
<1>2. CASE \E s \in Streams : InsertStream(l, p, s)
  <2>1. PICK s \in Streams : Total + Len(s) <= MaxText /\ rest' = s
    BY <1>2 DEF InsertStream
  <2> QED
    BY <1>1, <2>1 DEF MemInv, Total, OwnedBy, GivenTo
<1>3. CASE \E n \in 1 .. MaxDel : DeleteStream(l, p, n)
  <2>1. rest' = rest
    BY <1>3 DEF DeleteStream
  <2> QED
    BY <1>1, <2>1 DEF MemInv, Total, OwnedBy, GivenTo
<1> QED
  BY <1>2, <1>3

(* Nor when they return; what was not inserted never will be.              *)
LEMMA ReturnMem ==
  ASSUME Inv, MemInv, InsertEnd \/ InsertFails \/ DeleteEnd \/ DeleteFails
  PROVE  MemInv'
<1>1. /\ mem' = mem /\ descs' = descs /\ lines' = lines /\ rest' = <<>>
      /\ DOMAIN marks' = DOMAIN marks
  <2>1. CASE DeleteFails
    BY <2>1 DEF DeleteFails, MoveMarks, Return, textVars
  <2>2. CASE InsertEnd \/ InsertFails \/ DeleteEnd
    BY <2>2 DEF InsertEnd, InsertFails, DeleteEnd, Return, textVars
  <2> QED
    BY <2>1, <2>2
<1> DEFINE N == Len(lines)
           k == Len(rest)
           a == mem.allocated
           f == mem.free
<1>2. N \in Nat /\ rest \in Seq(Byte \cup {NL}) /\ a \in Int /\ f \in Int
  BY DEF Inv, LinesInv, AreLines, OwedInv, MemInv, OwnedBy, ArePools
<1>3. k \in Nat /\ Len(rest') = 0
  BY <1>1, <1>2
<1>4. N - 1 + a - f + k <= MaxText /\ MaxText \in Nat
  BY LineBounds DEF MemInv, Total
<1>5. Total' + Len(rest') = N - 1 + a - f + 0
  BY <1>1, <1>3 DEF Total
<1> HIDE DEF N, k, a, f
<1>6. N - 1 + a - f + 0 <= MaxText
  BY ONLY <1>2, <1>3, <1>4
<1>7. Total' + Len(rest') <= MaxText
  BY <1>5, <1>6
<1> QED
  BY <1>1, <1>7 DEF MemInv, OwnedBy, GivenTo

(* A mark has no memory of the document.                                   *)
LEMMA SetMarkMem ==
  ASSUME Inv, MemInv, NEW m \in Marks,
         \/ \E l \in DOMAIN lines : \E p \in 0 .. lines[l].line_len + 1 : SetMark(m, l, p)
         \/ UnsetMark(m)
  PROVE  MemInv'
<1>1. mem' = mem /\ descs' = descs /\ lines' = lines /\ rest' = rest
  BY DEF SetMark, UnsetMark, textVars, runVars
<1>2. DOMAIN marks' \subseteq Marks
  <2>1. DOMAIN marks \subseteq Marks
    BY DEF MemInv
  <2>2. ASSUME NEW l, NEW p, SetMark(m, l, p) PROVE DOMAIN marks' \subseteq Marks
    BY <2>1, <2>2 DEF SetMark
  <2>3. ASSUME UnsetMark(m) PROVE DOMAIN marks' \subseteq Marks
    BY <2>1, <2>3 DEF UnsetMark, Restrict
  <2> QED
    BY <2>2, <2>3
<1> QED
  BY <1>1, <1>2 DEF MemInv, Total, OwnedBy, GivenTo

(* Every step keeps the memory as it should be.                            *)
LEMMA StepMem == Inv /\ MemInv /\ [Next]_vars => MemInv'
<1> SUFFICES ASSUME Inv, MemInv, [Next]_vars PROVE MemInv'
  OBVIOUS
<1>1. CASE \E l \in DOMAIN lines : \E p \in 0 .. lines[l].line_len :
             \/ \E s \in Streams : InsertStream(l, p, s)
             \/ \E n \in 1 .. MaxDel : DeleteStream(l, p, n)
  BY <1>1, BeginMem
<1>2. CASE InsertPiece
  BY <1>2, InsertPieceMem
<1>3. CASE BreakLine
  BY <1>3, BreakLineMem
<1>4. CASE JoinLines
  BY <1>4, JoinLinesMem
<1>5. CASE DeleteInLine
  BY <1>5, DeleteInLineMem
<1>6. CASE InsertEnd \/ InsertFails \/ DeleteEnd \/ DeleteFails
  BY <1>6, ReturnMem
<1>7. CASE \E m \in Marks, l \in DOMAIN lines : \E p \in 0 .. lines[l].line_len + 1 : SetMark(m, l, p)
  BY <1>7, SetMarkMem
<1>8. CASE \E m \in Marks : UnsetMark(m)
  BY <1>8, SetMarkMem
<1>9. CASE UNCHANGED vars
  BY <1>9 DEF MemInv, Total, OwnedBy, GivenTo, vars, textVars, runVars
<1> QED
  BY <1>1, <1>2, <1>3, <1>4, <1>5, <1>6, <1>7, <1>8, <1>9 DEF Next
-----------------------------------------------------------------------------
(* A line of a file begins after the one before it.                        *)
LEMMA BreaksIncrease ==
  ASSUME NEW t \in Seq(Byte \cup {NL}), NEW j \in 1 .. LineCount(t), NEW k \in 1 .. LineCount(t), j < k
  PROVE  Break(t, j) < Break(t, k)
<1> DEFINE B == Breaks(t)
           o == Break(t, j)
           p == Break(t, k)
<1>1. B \subseteq Nat /\ IsFiniteSet(B)
  BY BreaksFinite
<1>2. o \in B /\ p \in B /\ Cardinality(Below(B, o)) = j - 1 /\ Cardinality(Below(B, p)) = k - 1
  BY BreakIs
<1> HIDE DEF B, o, p
<1>3. o \in Nat /\ p \in Nat /\ \A y \in B : y \in Nat
  BY <1>1, <1>2
<1>4. ASSUME p <= o PROVE FALSE
  <2>1. \A y \in Nat : y < p => y < o
    BY ONLY <1>3, <1>4
  <2>2. Below(B, p) \subseteq Below(B, o)
    BY <1>3, <2>1 DEF Below
  <2>3. IsFiniteSet(Below(B, o))
    BY <1>1, FS_Subset DEF Below
  <2>4. Cardinality(Below(B, p)) <= Cardinality(Below(B, o))
    BY <2>2, <2>3, FS_Subset
  <2>5. j \in Int /\ k \in Int /\ k - 1 <= j - 1
    BY <1>2, <2>4
  <2> QED
    BY ONLY <2>5, j < k
<1>5. o < p
  BY ONLY <1>3, <1>4
<1> QED
  BY <1>5 DEF o, p

(* The first line begins where the file does.                              *)
LEMMA FirstBreak ==
  ASSUME NEW t \in Seq(Byte \cup {NL})
  PROVE  1 \in 1 .. LineCount(t) /\ Break(t, 1) = 0
<1> DEFINE B == Breaks(t)
           o == Break(t, 1)
<1>1. B \subseteq Nat /\ IsFiniteSet(B) /\ 1 \in 1 .. LineCount(t)
  BY BreaksFinite
<1>2. o \in B /\ Cardinality(Below(B, o)) = 0
  BY <1>1, BreakIs
<1>3. 0 \in B
  BY DEF Breaks
<1> HIDE DEF B, o
<1>4. IsFiniteSet(Below(B, o))
  BY <1>1, FS_Subset DEF Below
<1>5. Below(B, o) = {}
  BY <1>2, <1>4, FS_EmptySet
<1>6. ~(0 < o)
  BY <1>3, <1>5 DEF Below
<1>7. o = 0
  BY <1>1, <1>2, <1>6
<1> QED
  BY <1>1, <1>7 DEF o

(* After the k-th break there is another one or there is none.             *)
LEMMA NextBreak ==
  ASSUME NEW t \in Seq(Byte \cup {NL}), NEW k \in 1 .. LineCount(t), k < LineCount(t)
  PROVE  /\ k + 1 \in 1 .. LineCount(t) /\ Break(t, k) < Break(t, k + 1)
         /\ Break(t, k) \in 0 .. Len(t) /\ Break(t, k + 1) \in 1 .. Len(t)
         /\ t[Break(t, k + 1)] = NL
         /\ LineEnd(t, k) = Break(t, k + 1) - 1
<1> DEFINE c == LineCount(t)
           n == k + 1
<1>1. c \in Nat
  BY BreaksFinite
<1>2. n \in 1 .. c /\ k < n
  BY <1>1
<1>3. Break(t, k) < Break(t, n)
  BY <1>2, BreaksIncrease
<1>4. Break(t, k) \in Breaks(t) /\ Break(t, n) \in Breaks(t)
  BY <1>2, BreakIs
<1>5. Breaks(t) \subseteq 0 .. Len(t) /\ Len(t) \in Nat
  BY BreaksFinite
<1>6. Break(t, n) \in 1 .. Len(t) /\ Break(t, k) \in 0 .. Len(t) /\ Break(t, n) # 0
  BY <1>3, <1>4, <1>5
<1>7. t[Break(t, n)] = NL
  BY <1>4, <1>6 DEF Breaks
<1> QED
  BY <1>2, <1>3, <1>6, <1>7 DEF LineEnd

(* There is no line end inside a line.                                     *)
LEMMA NoneBetween ==
  ASSUME NEW t \in Seq(Byte \cup {NL}), NEW k \in 1 .. LineCount(t),
         NEW i \in Breaks(t), Break(t, k) < i
  PROVE  k < LineCount(t) /\ Break(t, k + 1) <= i
<1> DEFINE B == Breaks(t)
           c == LineCount(t)
           o == Break(t, k)
           L == Below(B, o)
           U == L \cup {o}
           W == U \cup {i}
<1>1. B \subseteq Nat /\ IsFiniteSet(B) /\ c \in Nat /\ Cardinality(B) = c
  BY BreaksFinite DEF LineCount
<1>2. o \in B /\ Cardinality(L) = k - 1
  BY BreakIs
<1>3. i \in B /\ o < i
  OBVIOUS
<1> HIDE DEF B, o
<1>4. o \notin L /\ i \notin U /\ W \subseteq B
  BY <1>1, <1>2, <1>3 DEF Below
<1>5. IsFiniteSet(L)
  BY <1>1, FS_Subset DEF Below
<1> HIDE DEF L
<1>6. IsFiniteSet(U) /\ Cardinality(U) = k - 1 + 1
  BY <1>2, <1>4, <1>5, FS_AddElement
<1> HIDE DEF U
<1>7. IsFiniteSet(W) /\ Cardinality(W) = k - 1 + 1 + 1
  BY <1>4, <1>6, FS_AddElement
<1> HIDE DEF W
<1>8. ASSUME NEW X, IsFiniteSet(X), W \subseteq X PROVE Cardinality(X) > k
  <2>1. Cardinality(W) <= Cardinality(X) /\ Cardinality(X) \in Nat
    BY <1>8, FS_Subset, FS_CardinalityType
  <2> QED
    BY <1>7, <2>1
<1>9. k < c
  BY <1>1, <1>4, <1>8
<1> DEFINE p == Break(t, k + 1)
<1>10. p \in B /\ Cardinality(Below(B, p)) = k
  <2> DEFINE n == k + 1
  <2>1. n \in 1 .. LineCount(t) /\ n - 1 = k
    BY <1>1, <1>9 DEF c
  <2> HIDE DEF n
  <2>2. Break(t, n) \in Breaks(t) /\ Cardinality(Below(Breaks(t), Break(t, n))) = n - 1
    BY <2>1, BreakIs
  <2> QED
    BY <2>1, <2>2 DEF n, B
<1> HIDE DEF p
<1>11. p <= i
  <2>1. SUFFICES ASSUME i < p PROVE FALSE
    BY <1>1, <1>3, <1>10
  <2>2. W \subseteq Below(B, p)
    <3>1. o \in Nat /\ i \in Nat /\ p \in Nat /\ \A y \in B : y \in Nat
      BY <1>1, <1>2, <1>3, <1>10
    <3>2. o < p /\ \A y \in Nat : y < o => y < p
      BY ONLY <1>3, <2>1, <3>1
    <3>3. \A y \in L : y \in B /\ y < p
      BY <3>1, <3>2 DEF L, Below
    <3>4. \A y \in W : y \in B /\ y < p
      BY <1>2, <1>3, <2>1, <3>2, <3>3 DEF W, U
    <3> QED
      BY <3>4 DEF Below
  <2>3. IsFiniteSet(Below(B, p))
    BY <1>1, FS_Subset DEF Below
  <2>4. Cardinality(Below(B, p)) > k
    BY <1>8, <2>2, <2>3
  <2> QED
    BY <1>10, <2>4
<1> QED
  BY <1>9, <1>11 DEF c, p

(* The bytes of a file that are not line ends, and those of a line, counted *)
(* from 0.                                                                 *)
FileBytes(t) == {j \in 0 .. Len(t) - 1 : t[j + 1] # NL}
LineBytes(t, k) == Break(t, k) .. LineEnd(t, k) - 1

(* A line is in the file.                                                  *)
LEMMA LineInFile ==
  ASSUME NEW t \in Seq(Byte \cup {NL}), NEW k \in 1 .. LineCount(t)
  PROVE  /\ Break(t, k) \in Nat /\ LineEnd(t, k) \in Nat /\ Len(t) \in Nat /\ LineCount(t) \in Nat
         /\ Break(t, k) <= LineEnd(t, k) /\ LineEnd(t, k) <= Len(t)
<1>1. Breaks(t) \subseteq 0 .. Len(t) /\ Len(t) \in Nat /\ LineCount(t) \in Nat
  BY BreaksFinite
<1>2. Break(t, k) \in 0 .. Len(t)
  BY <1>1, BreakIs
<1>3. CASE k < LineCount(t)
  BY <1>1, <1>2, <1>3, NextBreak
<1>4. CASE ~(k < LineCount(t))
  <2>1. LineEnd(t, k) = Len(t)
    BY <1>4 DEF LineEnd
  <2> QED
    BY <1>1, <1>2, <2>1
<1> QED
  BY <1>3, <1>4

(* The lines of a file do not share bytes.                                 *)
LEMMA LinesApart ==
  ASSUME NEW t \in Seq(Byte \cup {NL}), NEW j \in 1 .. LineCount(t), NEW k \in 1 .. LineCount(t), j # k
  PROVE  LineBytes(t, j) \cap LineBytes(t, k) = {}
<1>1. ASSUME NEW x \in 1 .. LineCount(t), NEW y \in 1 .. LineCount(t), x < y
      PROVE  LineBytes(t, x) \cap LineBytes(t, y) = {}
  <2> DEFINE a == Break(t, x)
             b == LineEnd(t, x)
             p == Break(t, x + 1)
             c == Break(t, y)
             d == LineEnd(t, y)
  <2>1. LineCount(t) \in Nat
    BY BreaksFinite
  <2>2. x < LineCount(t)
    BY ONLY <1>1, <2>1
  <2>3. b = p - 1 /\ p \in Nat /\ x + 1 \in 1 .. LineCount(t)
    BY <2>2, NextBreak
  <2>4. a \in Nat /\ b \in Nat /\ c \in Nat /\ d \in Nat
    BY LineInFile
  <2>5. p <= c
    <3>1. CASE x + 1 = y
      BY <2>4, <3>1
    <3>2. CASE x + 1 # y
      <4> DEFINE z == x + 1
      <4>1. z \in 1 .. LineCount(t) /\ z < y
        BY <1>1, <2>1, <2>3, <3>2
      <4> HIDE DEF z
      <4>2. Break(t, z) < Break(t, y)
        BY <4>1, BreaksIncrease
      <4> QED
        BY <2>3, <2>4, <4>2 DEF z
    <3> QED
      BY <3>1, <3>2
  <2>6. LineBytes(t, x) = a .. b - 1 /\ LineBytes(t, y) = c .. d - 1
    BY DEF LineBytes
  <2> HIDE DEF a, b, c, d, p
  <2>7. \A i \in Int : ~(i \in a .. b - 1 /\ i \in c .. d - 1)
    BY ONLY <2>3, <2>4, <2>5
  <2>8. \A i \in a .. b - 1 : i \in Int
    BY <2>4
  <2> QED
    BY ONLY <2>6, <2>7, <2>8
<1>2. LineCount(t) \in Nat
  BY BreaksFinite
<1>3. j < k \/ k < j
  BY <1>2
<1>4. CASE j < k
  BY <1>1, <1>4
<1>5. CASE k < j
  BY <1>1, <1>5
<1> QED
  BY <1>3, <1>4, <1>5

(* No byte of a line is a line end.                                        *)
LEMMA LineHasNone ==
  ASSUME NEW t \in Seq(Byte \cup {NL}), NEW k \in 1 .. LineCount(t)
  PROVE  LineBytes(t, k) \subseteq FileBytes(t)
<1> SUFFICES ASSUME NEW j \in LineBytes(t, k) PROVE j \in FileBytes(t)
  OBVIOUS
<1> DEFINE a == Break(t, k)
           b == LineEnd(t, k)
           n == Len(t)
           i == j + 1
<1>1. a \in Nat /\ b \in Nat /\ n \in Nat /\ b <= n
  BY LineInFile
<1>2. j \in a .. b - 1
  BY DEF LineBytes
<1>3. j \in 0 .. n - 1 /\ i \in 1 .. n /\ a < i /\ i <= b
  BY ONLY <1>1, <1>2
<1>4. t[i] # NL
  <2>1. SUFFICES ASSUME t[i] = NL PROVE FALSE
    OBVIOUS
  <2>2. i \in Breaks(t)
    BY <1>3, <2>1 DEF Breaks
  <2> HIDE DEF i
  <2>3. k < LineCount(t) /\ Break(t, k + 1) <= i
    BY <1>3, <2>2, NoneBetween
  <2>4. b = Break(t, k + 1) - 1 /\ Break(t, k + 1) \in Nat
    BY <2>3, NextBreak
  <2>5. i \in Int
    BY <1>3
  <2> QED
    BY <1>1, <1>3, <2>3, <2>4, <2>5
<1> QED
  BY <1>3, <1>4 DEF FileBytes

(* Every byte of the file that is not a line end is in a line.             *)
LEMMA LineHasIt ==
  ASSUME NEW t \in Seq(Byte \cup {NL}), NEW j \in FileBytes(t)
  PROVE  \E k \in 1 .. LineCount(t) : j \in LineBytes(t, k)
<1> DEFINE T == {k \in 1 .. LineCount(t) : Break(t, k) <= j}
           c == LineCount(t)
           k == Max(T)
<1>1. c \in Nat /\ Len(t) \in Nat
  BY BreaksFinite
<1>2. j \in 0 .. Len(t) - 1 /\ t[j + 1] # NL /\ j \in Nat
  BY DEF FileBytes
<1>3. T # {} /\ T \subseteq 1 .. c
  BY <1>2, FirstBreak
<1>4. T \subseteq Int /\ \A x \in T : x <= c
  BY <1>1, <1>3
<1> HIDE DEF T
<1>5. k \in T /\ \A x \in T : x <= k
  <2>1. c \in Int /\ T # {} /\ T \subseteq Int /\ \A x \in T : x <= c
    BY <1>1, <1>3, <1>4
  <2> HIDE DEF c
  <2> QED
    BY ONLY <2>1, MaxIs
<1> HIDE DEF k
<1>6. k \in 1 .. LineCount(t) /\ Break(t, k) <= j /\ k \in Int
  BY <1>1, <1>5 DEF T
<1>7. Break(t, k) \in Nat /\ LineEnd(t, k) \in Nat
  BY <1>6, LineInFile
<1>8. j < LineEnd(t, k)
  <2>1. CASE k < c
    <3> DEFINE p == Break(t, k + 1)
    <3>1. k + 1 \in 1 .. c /\ p \in 1 .. Len(t) /\ t[p] = NL /\ LineEnd(t, k) = p - 1
      BY <1>6, <2>1, NextBreak
    <3>2. k + 1 \notin T
      BY <1>5, <1>6
    <3>3. ~(p <= j)
      BY <3>1, <3>2 DEF T
    <3> HIDE DEF p
    <3>4. p # j + 1
      BY <1>2, <3>1
    <3> QED
      BY <1>2, <3>1, <3>3, <3>4
  <2>2. CASE ~(k < c)
    <3>1. LineEnd(t, k) = Len(t)
      BY <2>2 DEF LineEnd
    <3> QED
      BY <1>1, <1>2, <3>1
  <2> QED
    BY <2>1, <2>2
<1>9. j \in LineBytes(t, k)
  BY <1>2, <1>6, <1>7, <1>8 DEF LineBytes
<1> QED
  BY <1>6, <1>9

(* The addresses of a line that is loaded.                                 *)
LEMMA LoadedOwns ==
  ASSUME NEW t \in Seq(Byte \cup {NL}), NEW k \in 1 .. LineCount(t)
  PROVE  IsOwner(LoadedLine(t, k)) /\ Owns(LoadedLine(t, k)) = Bytes_(1, LineBytes(t, k))
<1> DEFINE a == Break(t, k)
           b == LineEnd(t, k)
           n == b - a
           ld == LoadedLine(t, k)
<1>1. a \in Nat /\ b \in Nat /\ a <= b
  BY LineInFile
<1>2. ld.line = (IF n = 0 THEN Null ELSE <<1, a>>) /\ ld.line_len = n
  BY DEF LoadedLine
<1>3. LineBytes(t, k) = a .. b - 1
  BY DEF LineBytes
<1> HIDE DEF a, b, ld
<1>4. CASE n = 0
  <2>1. IsOwner(ld) /\ Owns(ld) = {}
    BY <1>2, <1>4, EmptyOwns
  <2>2. a .. b - 1 = {}
    BY ONLY <1>1, <1>4
  <2>3. Bytes_(1, a .. b - 1) = {}
    BY <2>2 DEF Bytes_
  <2> QED
    BY <1>3, <2>1, <2>3 DEF ld
<1>5. CASE n # 0
  <2>1. ld.line = <<1, a>> /\ n \in Nat \ {0} /\ a + n - 1 = b - 1
    BY <1>1, <1>2, <1>5
  <2>2. 1 \in PoolIds
    BY LineBounds, PoolAssumption DEF PoolIds
  <2>3. IsOwner(ld)
    BY <1>1, <1>2, <2>1, <2>2 DEF IsOwner
  <2>4. Owns(ld) = Bytes_(1, a .. a + n - 1)
    BY <1>2, <2>1 DEF Owns, Span
  <2> QED
    BY <1>3, <2>1, <2>3, <2>4 DEF ld
<1> QED
  BY <1>4, <1>5
-----------------------------------------------------------------------------
(* The pools when nothing is in use.                                       *)
LEMMA NoneUsed ==
  ASSUME NEW f \in Int, NEW m, m = [pool |-> <<>>, list |-> <<>>, free |-> f, allocated |-> f]
  PROVE  ArePools(m) /\ Used(m) = {}
<1>1. m.pool = <<>> /\ m.list = <<>> /\ m.free = f /\ m.allocated = f /\ DOMAIN m.pool = {}
  OBVIOUS
<1>2. Used(m) = {}
  BY <1>1 DEF Used
<1>3. IsFiniteSet(Used(m)) /\ Cardinality(Used(m)) = 0
  BY <1>2, FS_EmptySet
<1>4. AreRaw(m)
  BY <1>1 DEF AreRaw
<1>5. IsList(m.list, DOMAIN m.pool)
  BY <1>1 DEF IsList
<1>6. f - f = 0
  OBVIOUS
<1> QED
  BY <1>1, <1>2, <1>3, <1>4, <1>5, <1>6 DEF ArePools

(* The pool that a file is loaded in.                                      *)
LEMMA LoadedPool ==
  ASSUME NEW t \in Seq(Byte \cup {NL}), NEW size \in Nat, size >= Len(t),
         NEW used, used = {i \in DOMAIN t : t[i] # NL}, used # {},
         NEW cp, cp = [size |-> size, first_used |-> Min(used) - 1, last_used |-> Max(used) - 1,
                       pool |-> [j \in 0 .. size - 1 |-> IF j + 1 \in used THEN t[j + 1] ELSE Nul]]
  PROVE  IsPool(cp) /\ Cells(cp) = FileBytes(t)
<1> DEFINE n == Len(t)
           lo == Min(used)
           hi == Max(used)
<1>1. n \in Nat /\ DOMAIN t = 1 .. n /\ n <= size /\ n \in Int
  OBVIOUS
<1>2. used \subseteq 1 .. n /\ used \subseteq Nat /\ used \subseteq Int /\ \A y \in used : y <= n
  BY <1>1
<1> HIDE DEF n
<1>3. lo \in used /\ \A y \in used : lo <= y
  BY <1>2, MinIs
<1>4. hi \in used /\ \A y \in used : y <= hi
  BY <1>1, <1>2, MaxIs
<1> HIDE DEF lo, hi
<1>5. lo \in 1 .. n /\ hi \in 1 .. n /\ lo <= hi
  BY <1>2, <1>3, <1>4
<1>6. /\ cp.size = size /\ cp.first_used = lo - 1 /\ cp.last_used = hi - 1
      /\ cp = [size |-> cp.size, first_used |-> cp.first_used, last_used |-> cp.last_used, pool |-> cp.pool]
      /\ cp.pool = [j \in 0 .. size - 1 |-> IF j + 1 \in used THEN t[j + 1] ELSE Nul]
  BY DEF lo, hi
<1>7. \A i \in used : t[i] \in Byte /\ t[i] # Nul
  BY <1>2, ByteAssumption
<1>8. \A j \in 0 .. size - 1 : cp.pool[j] = IF j + 1 \in used THEN t[j + 1] ELSE Nul
  BY <1>6
<1>9. cp.pool \in [0 .. cp.size - 1 -> Byte \cup {Nul}]
  BY <1>6, <1>7
<1>10. IsRaw(cp)
  BY <1>5, <1>6, <1>9 DEF IsRaw
<1>11. \A j \in 0 .. size - 1 : cp.pool[j] # Nul <=> j + 1 \in used
  BY <1>7, <1>8
<1>12. assert_char_pool(cp)
  <2>1. cp.first_used \in 0 .. cp.last_used /\ cp.last_used < cp.size
    BY <1>1, <1>5, <1>6
  <2>2. lo - 1 \in 0 .. size - 1 /\ (lo - 1) + 1 = lo /\ hi - 1 \in 0 .. size - 1 /\ (hi - 1) + 1 = hi
    BY ONLY <1>1, <1>5
  <2>3. cp.pool[cp.first_used] # Nul /\ cp.pool[cp.last_used] # Nul
    BY <1>3, <1>4, <1>6, <1>11, <2>2
  <2>4. \A j \in 0 .. size - 1 : lo <= j + 1 /\ j + 1 <= hi => j \in lo - 1 .. hi - 1
    BY ONLY <1>1, <1>5
  <2>5. \A j \in 0 .. size - 1 : cp.pool[j] # Nul => j \in lo - 1 .. hi - 1
    BY <1>3, <1>4, <1>11, <2>4
  <2> QED
    BY <1>6, <2>1, <2>3, <2>5 DEF assert_char_pool
<1>13. Cells(cp) = FileBytes(t)
  <2>1. \A j : j \in Cells(cp) <=> j \in 0 .. size - 1 /\ j + 1 \in used
    BY <1>6, <1>11 DEF Cells
  <2>2. \A j : j \in FileBytes(t) <=> j \in 0 .. n - 1 /\ t[j + 1] # NL
    BY DEF FileBytes, n
  <2>3. \A i : i \in used <=> i \in 1 .. n /\ t[i] # NL
    BY <1>1
  <2>4. \A j \in 0 .. n - 1 : j \in 0 .. size - 1 /\ j + 1 \in 1 .. n
    BY ONLY <1>1, size \in Nat
  <2>5. \A j \in 0 .. size - 1 : j + 1 \in 1 .. n => j \in 0 .. n - 1
    BY ONLY <1>1, size \in Nat
  <2>6. \A j : j \in Cells(cp) <=> j \in FileBytes(t)
    BY ONLY <2>1, <2>2, <2>3, <2>4, <2>5
  <2> QED
    BY <2>6
<1> QED
  BY <1>10, <1>12, <1>13 DEF IsPool

(* What is in use after a file is loaded are its bytes.                    *)
LEMMA LoadedPools ==
  ASSUME NEW t \in Seq(Byte \cup {NL}), NEW size \in Nat, size >= Len(t), NEW m, m = LoadedMem(t, size)
  PROVE  ArePools(m) /\ Used(m) = Bytes_(1, FileBytes(t))
<1> DEFINE used == {i \in DOMAIN t : t[i] # NL}
           cp   == [size |-> size, first_used |-> Min(used) - 1, last_used |-> Max(used) - 1,
                    pool |-> [j \in 0 .. size - 1 |-> IF j + 1 \in used THEN t[j + 1] ELSE Nul]]
           D == FileBytes(t)
           c == Cardinality(used)
<1>1. m = [pool |-> IF used = {} THEN <<>> ELSE [id \in {1} |-> cp],
           list |-> IF used = {} THEN <<>> ELSE <<1>>, free |-> size - c, allocated |-> size]
  BY DEF LoadedMem
<1>2. Len(t) \in Nat /\ DOMAIN t = 1 .. Len(t)
  OBVIOUS
<1>3. IsFiniteSet(used) /\ c \in Nat
  <2>1. IsFiniteSet(1 .. Len(t))
    BY <1>2, FS_Interval
  <2>2. used \subseteq 1 .. Len(t)
    BY <1>2
  <2> HIDE DEF used
  <2> QED
    BY <2>1, <2>2, FS_Subset, FS_CardinalityType
<1>4. IsFiniteSet(D) /\ Cardinality(D) = c
  <2> DEFINE f == [i \in used |-> i - 1]
  <2>1. \A i \in used : i \in Nat /\ i - 1 \in D
    BY <1>2 DEF FileBytes
  <2>2. \A j \in D : j + 1 \in used /\ j \in Int /\ (j + 1) - 1 = j
    BY <1>2 DEF FileBytes
  <2> HIDE DEF used, D
  <2>3. f \in [used -> D]
    BY <2>1
  <2>4. \A i, j \in used : f[i] = f[j] => i = j
    BY <2>1
  <2>5. \A j \in D : \E i \in used : f[i] = j
    BY <2>2
  <2>6. f \in Bijection(used, D)
    BY <2>3, <2>4, <2>5 DEF Bijection, Injection, Surjection, IsInjective
  <2> QED
    BY <1>3, <2>6, FS_Bijection DEF ExistsBijection
<1>5. CASE used = {}
  <2>1. c = 0
    BY <1>5, FS_EmptySet
  <2>2. m = [pool |-> <<>>, list |-> <<>>, free |-> size, allocated |-> size] /\ size \in Int
    BY <1>1, <1>5, <2>1
  <2>3. ArePools(m) /\ Used(m) = {}
    BY <2>2, NoneUsed
  <2>4. D = {}
    BY <1>4, <2>1, FS_EmptySet
  <2> QED
    BY <2>3, <2>4 DEF Bytes_
<1>6. CASE used # {}
  <2>1. IsPool(cp) /\ Cells(cp) = D
    BY <1>6, LoadedPool
  <2> HIDE DEF cp, used, D
  <2>2. m = [pool |-> [id \in {1} |-> cp], list |-> <<1>>, free |-> size - c, allocated |-> size]
    BY <1>1, <1>6
  <2>3. /\ m.pool = [id \in {1} |-> cp] /\ m.list = <<1>> /\ m.free = size - c /\ m.allocated = size
        /\ DOMAIN m.pool = {1} /\ m.pool[1] = cp
    BY <2>2
  <2>4. Used(m) = Bytes_(1, D)
    BY <2>1, <2>3 DEF Used
  <2>5. IsFiniteSet(Used(m)) /\ Cardinality(Used(m)) = c
    BY <1>4, <2>4, BytesCount
  <2>6. AreRaw(m)
    BY <2>1, <2>2, <2>3 DEF AreRaw, IsPool
  <2>7. IsList(m.list, {1})
    BY <2>3 DEF IsList
  <2>8. 1 \in PoolIds
    BY LineBounds, PoolAssumption DEF PoolIds
  <2>9. size - c \in Int /\ size \in Int /\ size - (size - c) = c
    BY ONLY <1>3, size \in Nat
  <2> QED
    BY <2>1, <2>3, <2>4, <2>5, <2>6, <2>7, <2>8, <2>9 DEF ArePools, D
<1> QED
  BY <1>5, <1>6

(* Every byte of a file that is loaded is of one line.                     *)
LEMMA LoadedOwnedBy ==
  ASSUME NEW t \in Seq(Byte \cup {NL}), NEW m, ArePools(m), Used(m) = Bytes_(1, FileBytes(t)),
         NEW s, s = [k \in 1 .. LineCount(t) |-> LoadedLine(t, k)]
  PROVE  OwnedBy(s, m)
<1> DEFINE N == LineCount(t)
<1>1. N \in Nat
  BY BreaksFinite
<1>2. Len(s) = N /\ \A k \in 1 .. N : s[k] = LoadedLine(t, k)
  BY <1>1
<1>3. \A k \in 1 .. N : IsOwner(s[k]) /\ Owns(s[k]) = Bytes_(1, LineBytes(t, k))
  BY <1>2, LoadedOwns
<1>4. ASSUME NEW j \in 1 .. N, NEW k \in 1 .. N, j # k PROVE Owns(s[j]) \cap Owns(s[k]) = {}
  <2>1. LineBytes(t, j) \cap LineBytes(t, k) = {}
    BY <1>4, LinesApart
  <2> QED
    BY <1>3, <2>1 DEF Bytes_
<1>5. ASSUME NEW a PROVE a \in Used(m) <=> \E k \in 1 .. N : a \in Owns(s[k])
  <2>1. ASSUME a \in Used(m) PROVE \E k \in 1 .. N : a \in Owns(s[k])
    <3>1. PICK j \in FileBytes(t) : a = <<1, j>>
      BY <2>1 DEF Bytes_
    <3>2. PICK k \in 1 .. N : j \in LineBytes(t, k)
      BY LineHasIt
    <3>3. a \in Bytes_(1, LineBytes(t, k))
      BY <3>1, <3>2 DEF Bytes_
    <3> QED
      BY <1>3, <3>3
  <2>2. ASSUME NEW k \in 1 .. N, a \in Owns(s[k]) PROVE a \in Used(m)
    <3>1. PICK j \in LineBytes(t, k) : a = <<1, j>>
      BY <1>3, <2>2 DEF Bytes_
    <3>2. j \in FileBytes(t)
      BY <3>1, LineHasNone
    <3> QED
      BY <3>1, <3>2 DEF Bytes_
  <2> QED
    BY <2>1, <2>2
<1> HIDE DEF N
<1> QED
  BY <1>2, <1>3, <1>4, <1>5 DEF OwnedBy

(* A file has as many line ends and other bytes as it is long.             *)
LEMMA LoadedCount ==
  ASSUME NEW t \in Seq(Byte \cup {NL})
  PROVE  LineCount(t) - 1 + Cardinality(FileBytes(t)) <= Len(t)
<1> DEFINE n == Len(t)
           B == Breaks(t)
           U == {o - 1 : o \in B \ {0}}
           D == FileBytes(t)
           E == B \ {0}
<1>1. B \subseteq 0 .. n /\ IsFiniteSet(B) /\ n \in Nat /\ Cardinality(B) = LineCount(t) /\ LineCount(t) \in Nat
  BY BreaksFinite DEF LineCount
<1>2. 0 \in B
  BY DEF Breaks
<1>3. IsFiniteSet(E) /\ Cardinality(E) = LineCount(t) - 1
  <2> HIDE DEF B
  <2> QED
    BY <1>1, <1>2, FS_RemoveElement
<1>4. \A o \in E : o \in 1 .. n /\ t[o] = NL
  BY <1>1 DEF Breaks
<1> HIDE DEF B, E
<1>5. IsFiniteSet(U) /\ Cardinality(U) = Cardinality(E)
  <2> DEFINE f == [o \in E |-> o - 1]
  <2>1. U = {o - 1 : o \in E}
    BY DEF E
  <2>2. \A o \in E : o \in Int
    BY <1>4
  <2>a. \A o \in E : o - 1 \in U
    BY <2>1
  <2>b. \A j \in U : \E o \in E : j = o - 1
    BY <2>1
  <2> HIDE DEF U
  <2>c. f \in [E -> U]
    BY <2>a
  <2>d. \A o, p \in E : f[o] = f[p] => o = p
    BY <2>2
  <2>e. \A j \in U : \E o \in E : f[o] = j
    BY <2>b
  <2>3. f \in Bijection(E, U)
    BY <2>c, <2>d, <2>e DEF Bijection, Injection, Surjection, IsInjective
  <2> QED
    BY <1>3, <2>3, FS_Bijection DEF ExistsBijection
<1>6. U \subseteq 0 .. n - 1 /\ \A j \in U : t[j + 1] = NL
  <2>1. \A o \in E : o - 1 \in 0 .. n - 1 /\ (o - 1) + 1 = o
    BY <1>1, <1>4
  <2> QED
    BY <1>4, <2>1 DEF E
<1> HIDE DEF U
<1>7. D \subseteq 0 .. n - 1 /\ D \cap U = {}
  BY <1>6 DEF FileBytes
<1>8. IsFiniteSet(0 .. n - 1) /\ Cardinality(0 .. n - 1) = n
  <2>1. 0 \in Int /\ n - 1 \in Int /\ (IF 0 > n - 1 THEN 0 ELSE (n - 1) - 0 + 1) = n
    BY ONLY <1>1
  <2> HIDE DEF n
  <2> QED
    BY <2>1, FS_Interval
<1> HIDE DEF D, n
<1>9. IsFiniteSet(D)
  BY <1>7, <1>8, FS_Subset
<1>10. Cardinality(D \cup U) = Cardinality(D) + Cardinality(U) /\ Cardinality(D) \in Nat /\ Cardinality(U) \in Nat
  BY <1>5, <1>7, <1>9, CountAdded
<1>11. Cardinality(D \cup U) <= n
  <2>1. D \cup U \subseteq 0 .. n - 1
    BY <1>6, <1>7
  <2> QED
    BY <1>8, <2>1, FS_Subset
<1> DEFINE d == Cardinality(D)
           u == Cardinality(U)
           l == LineCount(t)
<1>12. d + u <= n /\ d \in Nat /\ u \in Nat /\ u = l - 1 /\ l \in Nat
  BY <1>1, <1>3, <1>5, <1>10, <1>11
<1> HIDE DEF d, u, l
<1>13. l - 1 + d <= n
  BY ONLY <1>1, <1>12
<1> QED
  BY <1>13 DEF l, d, D, n

(* Every line that is loaded has a descriptor of the first pool.           *)
LEMMA LoadedDescs ==
  ASSUME NEW N \in Nat \ {0}, NEW size \in Nat, N <= size,
         NEW s, Len(s) = N, \A k \in 1 .. N : s[k].ld = <<1, k>>,
         NEW ps, ps = <<DescPool(1, size, N)>>
  PROVE  GivenTo(s, ps)
<1>1. 1 \in DescPoolIds
  BY LineBounds, DescAssumption DEF DescPoolIds
<1>2. N \in 1 .. size
  OBVIOUS
<1>3. AreDescs(ps, {<<1, k>> : k \in 1 .. N})
  BY <1>1, <1>2, FirstDescs
<1>4. Descs(s) = {<<1, k>> : k \in 1 .. N}
  BY DEF Descs
<1>5. \A k \in 1 .. N : s[k].ld \in DescPoolIds \X (Nat \ {0})
  <2>1. \A k \in 1 .. N : k \in Nat \ {0}
    OBVIOUS
  <2>2. \A k \in 1 .. N : <<1, k>> \in DescPoolIds \X (Nat \ {0})
    BY <1>1, <2>1
  <2> QED
    BY <2>2
<1>6. \A j, k \in 1 .. N : j # k => s[j].ld # s[k].ld
  OBVIOUS
<1> QED
  BY <1>3, <1>4, <1>5, <1>6 DEF GivenTo

(* The memory of a file that is loaded, in either way.                     *)
LEMMA LoadMem ==
  ASSUME NEW t \in Files, t # <<>>, Load(t), rest = <<>>, marks = <<>>
  PROVE  MemInv
<1> DEFINE N == LineCount(t)
           n == Len(t)
<1>1. t \in Seq(Byte \cup {NL}) /\ n <= MaxText
  BY FilesAssumption
<1>2. N \in Nat \ {0} /\ n \in Nat
  BY <1>1, BreaksFinite
<1>3. lines = [k \in 1 .. N |-> LoadedLine(t, k)]
  BY DEF Load
<1>4. Len(lines) = N /\ \A k \in 1 .. N : lines[k].ld = <<1, k>>
  BY <1>2, <1>3 DEF LoadedLine
<1>5. PICK size \in Nat : size >= n /\ mem = LoadedMem(t, size)
  <2>1. CASE mem = LoadedMem(t, Len(t))
    BY <1>2, <2>1
  <2>2. CASE \E size \in {Len(t)} \cup {s \in PipeSizes : s > Len(t)} : mem = LoadedMem(t, size)
    <3>1. PICK size \in {n} \cup {s \in PipeSizes : s > n} : mem = LoadedMem(t, size)
      BY <2>2
    <3>2. size \in Nat /\ size >= n
      <4> HIDE DEF n
      <4>1. size = n \/ (size \in PipeSizes /\ size > n)
        BY <3>1
      <4>2. \A x \in PipeSizes : x \in Nat
        BY SizeAssumption
      <4> QED
        BY <1>2, <4>1, <4>2
    <3> QED
      BY <3>1, <3>2
  <2> QED
    BY <2>1, <2>2 DEF Load
<1>6. ArePools(mem) /\ Used(mem) = Bytes_(1, FileBytes(t))
  BY <1>1, <1>5, LoadedPools
<1>7. OwnedBy(lines, mem)
  BY <1>1, <1>3, <1>6, LoadedOwnedBy
<1>8. PICK room \in Nat : N <= room /\ descs = <<DescPool(1, room, N)>>
  <2>1. CASE LineDescsLoaded(t, N)
    BY <1>2, <2>1 DEF LineDescsLoaded
  <2>2. CASE LineDescsLoaded(t, Max({N + STANDARD_LINE_INCREMENT, STD_LINE_DESC_POOL_SIZE}))
    <3> DEFINE a == N + STANDARD_LINE_INCREMENT
               b == STD_LINE_DESC_POOL_SIZE
               T == {a, b}
               M == Max(T)
    <3>1. a \in Nat /\ b \in Nat /\ N <= a
      BY <1>2, SizeAssumption, DescAssumption
    <3>2. descs = <<DescPool(1, M, N)>>
      BY <2>2 DEF LineDescsLoaded
    <3>3. M \in T /\ \A y \in T : y <= M
      <4>1. T \subseteq Int /\ T # {} /\ a + b \in Int /\ \A y \in T : y <= a + b
        <5> HIDE DEF a, b
        <5> QED
          BY <3>1
      <4> DEFINE c == a + b
      <4> HIDE DEF T, c
      <4>2. c \in Int /\ \A y \in T : y <= c
        BY <4>1 DEF c
      <4> QED
        BY <4>1, <4>2, MaxIs
    <3>4. M \in Nat /\ a <= M
      BY <3>1, <3>3
    <3> HIDE DEF M, a
    <3>5. N <= M
      BY ONLY <1>2, <3>1, <3>4
    <3> QED
      BY <3>2, <3>4, <3>5
  <2> QED
    BY <2>1, <2>2 DEF Load
<1>9. GivenTo(lines, descs)
  <2> HIDE DEF N
  <2> QED
    BY <1>2, <1>4, <1>8, LoadedDescs
<1>10. Total + Len(rest) <= MaxText
  <2> DEFINE D == FileBytes(t)
             u == Cardinality(D)
             a == mem.allocated
             f == mem.free
  <2>1. a - f = Cardinality(Used(mem)) /\ IsFiniteSet(Used(mem)) /\ a \in Int /\ f \in Int
    BY <1>6 DEF ArePools
  <2>2. IsFiniteSet(D)
    <3>1. IsFiniteSet(0 .. n - 1)
      BY <1>2, FS_Interval
    <3>2. D \subseteq 0 .. n - 1
      BY DEF FileBytes
    <3> QED
      BY <3>1, <3>2, FS_Subset
  <2>3. Cardinality(Used(mem)) = u /\ u \in Nat
    BY <1>6, <2>2, BytesCount, FS_CardinalityType
  <2>4. N - 1 + u <= n
    BY <1>1, LoadedCount
  <2>5. Total = N - 1 + a - f /\ Len(rest) = 0
    BY <1>4 DEF Total
  <2>6. MaxText \in Nat
    BY LineBounds
  <2> HIDE DEF D, u, a, f, N, n
  <2>7. N - 1 + a - f + 0 <= MaxText
    BY ONLY <1>1, <1>2, <2>1, <2>3, <2>4, <2>6
  <2> QED
    BY <2>5, <2>7
<1>11. DOMAIN marks \subseteq Marks
  OBVIOUS
<1> QED
  BY <1>7, <1>9, <1>10, <1>11 DEF MemInv

(* The memory of a document is as it should be at first.                   *)
LEMMA InitMem == Init => MemInv
<1> SUFFICES ASSUME Init PROVE MemInv
  OBVIOUS
<1>1. PICK t \in Files : IF t = <<>> THEN Cleared ELSE Load(t)
  BY DEF Init
<1>2. rest = <<>> /\ marks = <<>>
  BY DEF Init, Idle
<1>3. CASE t # <<>>
  <2>1. Load(t)
    BY <1>1, <1>3
  <2> QED
    BY <1>2, <1>3, <2>1, LoadMem
<1>4. CASE t = <<>>
  <2> DEFINE ld == [ld |-> <<1, 1>>, line |-> Null, line_len |-> 0]
  <2>1. lines = <<ld>> /\ mem = NoPools /\ descs = <<DescPool(1, STD_LINE_DESC_POOL_SIZE, 1)>>
    BY <1>1, <1>4 DEF Cleared
  <2>2. ld.line = Null /\ ld.line_len = 0 /\ ld.ld = <<1, 1>>
    OBVIOUS
  <2> HIDE DEF ld
  <2>3. IsOwner(ld) /\ Owns(ld) = {}
    BY <2>2, EmptyOwns
  <2>4. Len(lines) = 1 /\ lines[1] = ld /\ 1 .. 1 = {1}
    BY <2>1
  <2>5. ArePools(mem) /\ Used(mem) = {}
    <3>1. mem = [pool |-> <<>>, list |-> <<>>, free |-> 0, allocated |-> 0] /\ 0 \in Int
      BY <2>1 DEF NoPools
    <3> QED
      BY <3>1, NoneUsed
  <2>6. OwnedBy(lines, mem)
    BY <2>3, <2>4, <2>5 DEF OwnedBy
  <2>7. GivenTo(lines, descs)
    <3>1. 1 \in Nat \ {0} /\ STD_LINE_DESC_POOL_SIZE \in Nat /\ 1 <= STD_LINE_DESC_POOL_SIZE
      BY DescAssumption
    <3>2. \A k \in 1 .. 1 : lines[k].ld = <<1, k>>
      BY <2>2, <2>4
    <3> QED
      BY <2>1, <2>4, <3>1, <3>2, LoadedDescs
  <2>8. Total + Len(rest) <= MaxText
    <3>1. mem.allocated = 0 /\ mem.free = 0
      BY <2>1 DEF NoPools
    <3>2. Total = 0 /\ Len(rest) = 0
      BY <1>2, <2>4, <3>1 DEF Total
    <3> QED
      BY <3>2, LineBounds
  <2> QED
    BY <1>2, <2>6, <2>7, <2>8 DEF MemInv
<1> QED
  BY <1>3, <1>4
-----------------------------------------------------------------------------
(* The memory of the document is as it should be in every state.           *)
LEMMA MemInvariance == Spec => [](Inv /\ MemInv)
<1>1. Init => Inv /\ MemInv
  BY InitInv, InitMem
<1>2. (Inv /\ MemInv) /\ [Next]_vars => (Inv /\ MemInv)'
  BY StepInv, StepMem
<1> QED
  BY <1>1, <1>2, PTL DEF Spec

(* The addresses of a line, said in either way.                            *)
LEMMA BytesAre ==
  ASSUME NEW ld, IsOwner(ld)
  PROVE  Bytes(ld) = Owns(ld)
<1> DEFINE p == ld.line
           n == ld.line_len
<1>1. n \in Nat /\ p[2] \in Nat
  BY DEF IsOwner, Null
<1>2. Bytes(ld) = {<<p[1], p[2] + j>> : j \in 0 .. n - 1}
  BY DEF Bytes, Plus
<1>3. Owns(ld) = {<<p[1], j>> : j \in p[2] .. p[2] + n - 1}
  BY DEF Owns, Span, Bytes_
<1> DEFINE x == p[2]
<1> HIDE DEF n, x
<1>4. \A j \in 0 .. n - 1 : x + j \in x .. x + n - 1
  BY ONLY <1>1 DEF x
<1>5. \A j \in x .. x + n - 1 : j - x \in 0 .. n - 1 /\ x + (j - x) = j
  BY ONLY <1>1 DEF x
<1>6. \A a : a \in Bytes(ld) <=> \E j \in 0 .. n - 1 : a = <<p[1], x + j>>
  BY <1>2 DEF x
<1>7. \A a : a \in Owns(ld) <=> \E j \in x .. x + n - 1 : a = <<p[1], j>>
  BY <1>3 DEF x
<1>8. \A a : a \in Bytes(ld) <=> a \in Owns(ld)
  BY ONLY <1>4, <1>5, <1>6, <1>7
<1> QED
  BY <1>8

(* What the invariant says of the bytes.                                   *)
LEMMA BytesOwnedHolds == Inv /\ MemInv => BytesOwned
<1> SUFFICES ASSUME Inv, MemInv PROVE BytesOwned
  OBVIOUS
<1>1. Len(lines) \in Nat /\ DOMAIN lines = 1 .. Len(lines)
  BY DEF Inv, LinesInv, AreLines
<1>2. /\ ArePools(mem) /\ \A i \in 1 .. Len(lines) : IsOwner(lines[i])
      /\ \A i, j \in 1 .. Len(lines) : i # j => Owns(lines[i]) \cap Owns(lines[j]) = {}
      /\ \A a : a \in Used(mem) <=> \E i \in 1 .. Len(lines) : a \in Owns(lines[i])
  BY DEF MemInv, OwnedBy
<1>3. \A i \in 1 .. Len(lines) : Bytes(lines[i]) = Owns(lines[i])
  BY <1>2, BytesAre
<1>4. UsedBytes = Used(mem)
  BY DEF UsedBytes, Used, Bytes_, Cells
<1>5. \A i, j \in DOMAIN lines : i # j => Bytes(lines[i]) \cap Bytes(lines[j]) = {}
  BY <1>1, <1>2, <1>3
<1>6. UNION {Bytes(lines[i]) : i \in DOMAIN lines} = UsedBytes
  BY <1>1, <1>2, <1>3, <1>4
<1>7. \A i \in DOMAIN lines : lines[i].line_len = 0 <=> lines[i].line = Null
  <2> TAKE i \in DOMAIN lines
  <2>1. IsOwner(lines[i])
    BY <1>1, <1>2
  <2>2. ~(Null[1] \in PoolIds)
    BY DEF Null, PoolIds
  <2> QED
    BY <2>1, <2>2 DEF IsOwner
<1>8. \A id \in DOMAIN mem.pool : assert_char_pool(mem.pool[id])
  BY <1>2 DEF ArePools, IsPool
<1>9. mem.allocated - mem.free = Cardinality(UsedBytes)
  BY <1>2, <1>4 DEF ArePools
<1> QED
  BY <1>5, <1>6, <1>7, <1>8, <1>9 DEF BytesOwned

(* What the invariant says of the types of the variables.                  *)
LEMMA TypeHolds == Inv /\ MemInv => TypeOK
<1> SUFFICES ASSUME Inv, MemInv PROVE TypeOK
  OBVIOUS
<1> DEFINE N == Len(lines)
<1>1. /\ N \in Nat \ {0} /\ lines = [i \in 1 .. N |-> lines[i]] /\ DOMAIN lines = 1 .. N
      /\ \A i \in 1 .. N : IsLine(lines[i])
      /\ num_lines = N
  BY DEF Inv, LinesInv, AreLines
<1>2. DOMAIN mem.pool \subseteq PoolIds /\ ToSet(mem.list) = DOMAIN mem.pool
  <2> DEFINE s == mem.list
             D == DOMAIN mem.pool
  <2>1. D \subseteq PoolIds /\ IsList(s, D)
    BY DEF MemInv, OwnedBy, ArePools
  <2> HIDE DEF s, D
  <2>2. DOMAIN s = 1 .. Len(s) /\ \A j \in 1 .. Len(s) : s[j] \in D
    BY <2>1 DEF IsList
  <2>3. ToSet(s) = D
    BY <2>1, <2>2 DEF IsList, ToSet
  <2> QED
    BY <2>1, <2>3 DEF s, D
<1>3. lines \in Seq(LineDesc)
  <2>1. ASSUME NEW i \in 1 .. N PROVE lines[i] \in LineDesc
    <3> DEFINE ld == lines[i]
    <3>1. IsLine(ld) /\ IsOwner(ld) /\ ld.ld \in DescPoolIds \X (Nat \ {0})
      BY <1>1 DEF MemInv, OwnedBy, GivenTo
    <3>2. ld.line_len \in Nat /\ ld.line \in (PoolIds \X Nat) \cup {Null}
      BY <3>1 DEF IsOwner
    <3>3. ld = [ld |-> ld.ld, line |-> ld.line, line_len |-> ld.line_len]
      BY <3>1 DEF IsLine
    <3> HIDE DEF ld
    <3>4. ld \in LineDesc
      BY <3>1, <3>2, <3>3 DEF LineDesc
    <3> QED
      BY <3>4 DEF ld
  <2> HIDE DEF N
  <2> QED
    BY <1>1, <2>1
<1>4. /\ DOMAIN marks \subseteq Marks
      /\ \A m \in DOMAIN marks : marks[m] \in Mark /\ marks[m].line \in DOMAIN lines
  BY <1>1 DEF MemInv, Inv, MarksInv, IsMark
<1>5. op \in {"none", "insert", "delete"} /\ line \in DOMAIN lines
  BY <1>1 DEF Inv, PlaceInv
<1>6. pos \in 0 .. lines[line].line_len /\ len \in 0 .. lines[line].line_len - pos
  <2>1. lines[line].line_len \in Nat
    BY <1>1, <1>5 DEF IsLine
  <2> QED
    BY <2>1 DEF Inv, PlaceInv
<1>7. rest \in Seq(Byte \cup {NL}) /\ left \in Nat
  BY DEF Inv, OwedInv
<1>8. owed \in Int
  <2>1. Len(rest) \in Nat
    BY <1>7
  <2> QED
    BY <1>5, <1>7, <2>1 DEF Inv, OwedInv
<1> QED
  BY <1>1, <1>2, <1>3, <1>4, <1>5, <1>6, <1>7, <1>8 DEF TypeOK

(* The elements of a list.                                                 *)
LEMMA ListSet ==
  ASSUME NEW s, NEW S, IsList(s, S)
  PROVE  ToSet(s) = S
<1>1. DOMAIN s = 1 .. Len(s) /\ \A j \in 1 .. Len(s) : s[j] \in S
  BY DEF IsList
<1> QED
  BY <1>1 DEF IsList, ToSet

(* The lines whose descriptors are of pool id.                             *)
Given(s, id) == {i \in 1 .. Len(s) : s[i].ld[1] = id}

(* The slots of a pool that are in use are those of the lines it was given *)
(* to, of each of them one.                                                *)
LEMMA GivenSlots ==
  ASSUME NEW s, NEW ps, GivenTo(s, ps), Len(s) \in Nat, NEW id
  PROVE  /\ Slots(Descs(s), id) = {s[i].ld[2] : i \in Given(s, id)}
         /\ IsFiniteSet(Given(s, id))
         /\ Cardinality(Slots(Descs(s), id)) = Cardinality(Given(s, id))
<1> DEFINE N == Len(s)
           G == Given(s, id)
           S == Slots(Descs(s), id)
           f == [i \in G |-> s[i].ld[2]]
<1>1. /\ \A i \in 1 .. N : s[i].ld \in DescPoolIds \X (Nat \ {0})
      /\ \A i, j \in 1 .. N : i # j => s[i].ld # s[j].ld
  BY DEF GivenTo
<1>2. \A i \in 1 .. N : s[i].ld = <<s[i].ld[1], s[i].ld[2]>>
  BY <1>1
<1>3. \A i : i \in G <=> i \in 1 .. N /\ s[i].ld[1] = id
  BY DEF Given
<1>4. \A h : h \in S <=> \E i \in G : h = s[i].ld[2]
  <2>1. \A h : h \in S <=> \E d \in Descs(s) : d[1] = id /\ h = d[2]
    BY DEF Slots
  <2>2. \A d : d \in Descs(s) <=> \E i \in 1 .. N : d = s[i].ld
    BY DEF Descs
  <2> HIDE DEF N, G, S
  <2> QED
    BY <1>3, <2>1, <2>2
<1>5. IsFiniteSet(G)
  <2>1. N \in Nat
    OBVIOUS
  <2>2. IsFiniteSet(1 .. N)
    BY <2>1, FS_Interval
  <2>3. G \subseteq 1 .. N
    BY <1>3
  <2> QED
    BY <2>2, <2>3, FS_Subset
<1> HIDE DEF N, G, S
<1>6. f \in [G -> S]
  BY <1>4
<1>7. \A i, j \in G : f[i] = f[j] => i = j
  <2> SUFFICES ASSUME NEW i \in G, NEW j \in G, f[i] = f[j] PROVE i = j
    OBVIOUS
  <2>1. s[i].ld[2] = s[j].ld[2] /\ s[i].ld[1] = id /\ s[j].ld[1] = id /\ i \in 1 .. N /\ j \in 1 .. N
    BY <1>3
  <2>2. s[i].ld = s[j].ld
    BY <1>2, <2>1
  <2> QED
    BY <1>1, <2>1, <2>2
<1>8. \A h \in S : \E i \in G : f[i] = h
  BY <1>4
<1>9. f \in Bijection(G, S)
  BY <1>6, <1>7, <1>8 DEF Bijection, Injection, Surjection, IsInjective
<1>10. Cardinality(S) = Cardinality(G)
  BY <1>5, <1>9, FS_Bijection DEF ExistsBijection
<1>11. S = {s[i].ld[2] : i \in G}
  BY <1>4
<1> QED
  BY <1>5, <1>10, <1>11 DEF G, S

(* A pool of descriptors is as ne.h asserts.                               *)
LEMMA DescPoolSound ==
  ASSUME NEW p, NEW D, IsDescPool(p, D)
  PROVE  assert_line_desc_pool(p)
<1> DEFINE S == Slots(D, p.id)
           n == p.size
           c == Cardinality(S)
           A == 1 .. n
<1>1. /\ n \in Nat /\ S \subseteq A /\ S # {} /\ p.allocated_items = c
      /\ IsList(p.free_list, A \ S)
  BY DEF IsDescPool
<1>2. IsFiniteSet(A) /\ Cardinality(A) = n
  <2>1. 1 \in Int /\ n \in Int /\ (IF 1 > n THEN 0 ELSE n - 1 + 1) = n
    BY <1>1
  <2> HIDE DEF n
  <2> QED
    BY <2>1, FS_Interval
<1>3. n # 0
  <2>1. 1 .. 0 = {}
    OBVIOUS
  <2> QED
    BY <1>1, <2>1
<1> HIDE DEF S, A, n
<1>4. c <= n
  BY <1>1, <1>2, FS_Subset
<1>5. c = n \/ p.free_list # <<>>
  <2>1. SUFFICES ASSUME p.free_list = <<>> PROVE c = n
    OBVIOUS
  <2>2. Len(p.free_list) = 0 /\ 1 .. 0 = {}
    BY <2>1
  <2>3. A \ S = {}
    BY <1>1, <2>2 DEF IsList
  <2>4. A = S
    BY <1>1, <2>3
  <2> QED
    BY <1>2, <2>4
<1> QED
  BY <1>1, <1>3, <1>4, <1>5 DEF assert_line_desc_pool, n

(* What the invariant says of the descriptors.                             *)
LEMMA DescsOwnedHolds == Inv /\ MemInv => DescsOwned
<1> SUFFICES ASSUME Inv, MemInv PROVE DescsOwned
  OBVIOUS
<1> DEFINE N == Len(lines)
           D == Descs(lines)
           given(p) == {i \in DOMAIN lines : lines[i].ld[1] = p.id}
<1>1. N \in Nat /\ DOMAIN lines = 1 .. N
  BY DEF Inv, LinesInv, AreLines
<1>2. GivenTo(lines, descs)
  BY DEF MemInv
<1>3. /\ AreDescs(descs, D) /\ \A i \in 1 .. N : lines[i].ld \in DescPoolIds \X (Nat \ {0})
      /\ \A i, j \in 1 .. N : i # j => lines[i].ld # lines[j].ld
  BY <1>2 DEF GivenTo
<1>4. PICK P : IsList(descs, P) /\ DescPoolsAre(P, D)
  BY <1>3 DEF AreDescs
<1> HIDE DEF D
<1>5. /\ \A k \in DOMAIN descs : descs[k] \in P
      /\ \A j, k \in DOMAIN descs : descs[j].id = descs[k].id => j = k
      /\ UsedIds(descs) = {p.id : p \in P}
  BY <1>4, DescPoolAt
<1>6. \A i \in DOMAIN lines : lines[i].ld[1] \in UsedIds(descs)
  <2> TAKE i \in DOMAIN lines
  <2>1. lines[i].ld \in D
    BY <1>1 DEF D, Descs
  <2>2. PICK p \in P : p.id = lines[i].ld[1]
    BY <1>4, <2>1 DEF DescPoolsAre
  <2> QED
    BY <1>5, <2>2
<1>7. ASSUME NEW k \in DOMAIN descs
      PROVE  /\ assert_line_desc_pool(descs[k])
             /\ descs[k].allocated_items = Cardinality(given(descs[k]))
             /\ ToSet(descs[k].free_list) = 1 .. descs[k].size \ {lines[i].ld[2] : i \in given(descs[k])}
             /\ \A j \in DOMAIN descs : j # k => descs[j].id # descs[k].id
  <2> DEFINE p == descs[k]
  <2>1. IsDescPool(p, D)
    BY <1>4, <1>5 DEF DescPoolsAre
  <2>2. given(p) = Given(lines, p.id)
    BY <1>1 DEF Given
  <2>3. /\ Slots(D, p.id) = {lines[i].ld[2] : i \in Given(lines, p.id)}
        /\ Cardinality(Slots(D, p.id)) = Cardinality(Given(lines, p.id))
    BY <1>1, <1>2, GivenSlots DEF D
  <2>4. \A j \in DOMAIN descs : j # k => descs[j].id # p.id
    BY <1>5
  <2> HIDE DEF p, given
  <2>5. assert_line_desc_pool(p)
    BY <2>1, DescPoolSound
  <2>6. p.allocated_items = Cardinality(given(p))
    BY <2>1, <2>2, <2>3 DEF IsDescPool
  <2>7. ToSet(p.free_list) = 1 .. p.size \ {lines[i].ld[2] : i \in given(p)}
    <3>1. ToSet(p.free_list) = 1 .. p.size \ Slots(D, p.id)
      BY <2>1, ListSet DEF IsDescPool
    <3> QED
      BY <2>2, <2>3, <3>1
  <2> QED
    BY <2>4, <2>5, <2>6, <2>7 DEF p
<1>8. TypeOK
  BY TypeHolds
<1> QED
  BY <1>1, <1>3, <1>6, <1>7, <1>8 DEF DescsOwned

(* Whatever is inserted and deleted, and wherever memory runs out, every   *)
(* byte that is not free belongs to one line, and every descriptor that is *)
(* not free to one line: no line lies on free bytes or on those of another *)
(* one, nothing is leaked, and the bounds and counters that alloc_chars()  *)
(* and alloc_line_desc() rely upon are right.                              *)
THEOREM MemoryIsOwned == Spec => []MemoryOwned
<1>1. Inv /\ MemInv => MemoryOwned
  BY BytesOwnedHolds, DescsOwnedHolds DEF MemoryOwned
<1> QED
  BY <1>1, MemInvariance, PTL
=============================================================================
