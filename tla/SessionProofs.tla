---------------------------- MODULE SessionProofs ---------------------------
(***************************************************************************)
(* Proofs about Session, for any scenarios, any number of documents and    *)
(* any macros and preferences: the list of documents is right after every  *)
(* command, also after one that failed half way.                           *)
(***************************************************************************)
EXTENDS Session, FlatTextProofs, FunctionTheorems

(* What the fields of a session hold.                                      *)
IsText(lines) ==
  IsSequence(lines) /\ lines # <<>> /\ \A i \in DOMAIN lines : IsSequence(lines[i])
DocFields ==
  {"name", "lines", "at", "is_CRLF", "is_modified", "mtime", "seen", "opt", "syn", "cur_macro",
   "exec_only_options"}
IsDoc(d) == DOMAIN d = DocFields /\ IsText(d.lines) /\ AreLines(d.cur_macro)
IsFrame(f) ==
  DOMAIN f = {"lines", "at", "times", "name"} /\ AreLines(f.lines) /\ f.at \in Nat \ {0}

AreDocs(E, doc) == \A b \in DOMAIN doc : IsDoc(doc[b]) /\ (b \notin E => ~doc[b].exec_only_options)
AreFiles(disk) == \A f \in DOMAIN disk : IsSequence(disk[f].bytes)
AreMacros(macros) == \A m \in DOMAIN macros : AreLines(macros[m])
AreFrames(frames) ==
  IsSequence(frames) /\ Len(frames) <= MaxDepth /\ \A i \in DOMAIN frames : IsFrame(frames[i])
IsStack(pstack) == IsSequence(pstack) /\ Len(pstack) <= MaxPrefs

Fields ==
  {"order", "cur", "recent", "doc", "disk", "writes", "clock", "scripts", "pstack", "recording", "frames",
   "macros", "stop", "error", "dprompt", "mode", "moving", "agreed", "done", "left"}

(* The documents of E are executing preferences.                           *)
Held(E, t) ==
  /\ DOMAIN t = Fields
  /\ AreDocs(E, t.doc) /\ AreFiles(t.disk) /\ AreMacros(t.scripts) /\ AreMacros(t.macros)
  /\ AreLines(t.recording) /\ AreFrames(t.frames) /\ IsStack(t.pstack)

(* An order of the documents in D.                                         *)
IsOrder(D, order) == order \in Seq(Docs) /\ ToSet(order) = D /\ IsInjective(order)
Listed(t) == IsOrder(DOMAIN t.doc, t.order) /\ IsOrder(DOMAIN t.doc, t.recent) /\ t.cur \in DOMAIN t.doc
Fine(E, t) == Held(E, t) /\ Listed(t)

(* What an operation may not lose: where the session is, and the macros    *)
(* that are played.                                                        *)
Onward(t, r) == r.mode = t.mode /\ (t.frames # <<>> => r.frames # <<>>)
SameList(t, r) == r.order = t.order /\ r.recent = t.recent /\ r.cur = t.cur /\ DOMAIN r.doc = DOMAIN t.doc
Goes(E, t, r) == Fine(E, r) /\ Onward(t, r)
Stays(E, t, r) == Fine(E, r) /\ Onward(t, r) /\ SameList(t, r)
-----------------------------------------------------------------------------
(* Sequences of anything.                                                  *)
LEMMA SequenceIs ==
  ASSUME NEW q
  PROVE  /\ \A R : q \in Seq(R) => IsSequence(q)
         /\ IsSequence(q) => /\ q \in Seq(ToSet(q)) /\ Len(q) \in Nat /\ DOMAIN q = 1 .. Len(q)
                             /\ \A i \in 1 .. Len(q) : q[i] \in ToSet(q)
<1>1. ASSUME NEW R, q \in Seq(R) PROVE q \in Seq(ToSet(q))
  <2>1. DOMAIN q = 1 .. Len(q) /\ Len(q) \in Nat
    BY <1>1
  <2>2. \A i \in 1 .. Len(q) : q[i] \in ToSet(q)
    BY <2>1 DEF ToSet
  <2> QED
    BY <1>1, <2>1, <2>2
<1>2. ASSUME q \in Seq(ToSet(q))
      PROVE  Len(q) \in Nat /\ DOMAIN q = 1 .. Len(q) /\ \A i \in 1 .. Len(q) : q[i] \in ToSet(q)
  <2>1. Len(q) \in Nat /\ DOMAIN q = 1 .. Len(q)
    BY <1>2
  <2> QED
    BY <2>1 DEF ToSet
<1> QED
  BY <1>1, <1>2 DEF IsSequence

(* Short ones.                                                             *)
LEMMA ShortSequences ==
  ASSUME NEW x, NEW y
  PROVE  IsSequence(<<>>) /\ IsSequence(<<x>>) /\ IsSequence(<<x, y>>)
<1>1. << >> \in Seq({x})
  OBVIOUS
<1>2. <<x>> \in Seq({x}) /\ <<x, y>> \in Seq({x, y})
  OBVIOUS
<1> QED
  BY <1>1, <1>2, SequenceIs

(* One after the other.                                                    *)
LEMMA SequenceJoined ==
  ASSUME NEW p, NEW q, IsSequence(p), IsSequence(q)
  PROVE  /\ IsSequence(p \o q) /\ Len(p \o q) = Len(p) + Len(q)
         /\ \A i \in 1 .. Len(p) + Len(q) : (p \o q)[i] = IF i <= Len(p) THEN p[i] ELSE q[i - Len(p)]
<1> DEFINE R == ToSet(p) \cup ToSet(q)
<1>1. p \in Seq(ToSet(p)) /\ q \in Seq(ToSet(q))
  BY SequenceIs
<1>2. \A S, T, x : x \in Seq(S) /\ S \subseteq T => x \in Seq(T)
  OBVIOUS
<1>3. p \in Seq(R) /\ q \in Seq(R)
  BY <1>1, <1>2
<1> HIDE DEF R
<1>4. /\ p \o q \in Seq(R) /\ Len(p \o q) = Len(p) + Len(q)
      /\ \A i \in 1 .. Len(p) + Len(q) : (p \o q)[i] = IF i <= Len(p) THEN p[i] ELSE q[i - Len(p)]
  BY <1>3, ConcatProperties
<1> QED
  BY <1>4, SequenceIs

(* One more element.                                                       *)
LEMMA SequenceExtended ==
  ASSUME NEW q, IsSequence(q), NEW x
  PROVE  /\ IsSequence(Append(q, x)) /\ Len(Append(q, x)) = Len(q) + 1
         /\ \A i \in 1 .. Len(q) + 1 : Append(q, x)[i] = IF i = Len(q) + 1 THEN x ELSE q[i]
<1> DEFINE R == ToSet(q) \cup {x}
<1>1. q \in Seq(ToSet(q)) /\ Len(q) \in Nat
  BY SequenceIs
<1>2. \A S, T, y : y \in Seq(S) /\ S \subseteq T => y \in Seq(T)
  OBVIOUS
<1>3. q \in Seq(R) /\ x \in R
  BY <1>1, <1>2
<1> HIDE DEF R
<1>4. /\ Append(q, x) \in Seq(R) /\ Len(Append(q, x)) = Len(q) + 1
      /\ \A i \in 1 .. Len(q) + 1 : Append(q, x)[i] = IF i = Len(q) + 1 THEN x ELSE q[i]
  BY <1>1, <1>3, AppendProperties
<1> QED
  BY <1>4, SequenceIs

(* A part of one.                                                          *)
LEMMA SequencePart ==
  ASSUME NEW q, IsSequence(q), NEW m \in Nat \ {0}, NEW n \in Int, n <= Len(q)
  PROVE  /\ IsSequence(SubSeq(q, m, n))
         /\ Len(SubSeq(q, m, n)) = IF m <= n THEN n - m + 1 ELSE 0
         /\ \A i \in 1 .. n - m + 1 : SubSeq(q, m, n)[i] = q[m + i - 1]
<1>1. q \in Seq(ToSet(q)) /\ Len(q) \in Nat
  BY SequenceIs
<1>2. \A i \in m .. n : q[i] \in ToSet(q)
  BY <1>1, SequenceIs
<1>3. /\ SubSeq(q, m, n) \in Seq(ToSet(q))
      /\ Len(SubSeq(q, m, n)) = IF m <= n THEN n - m + 1 ELSE 0
      /\ \A i \in 1 .. n - m + 1 : SubSeq(q, m, n)[i] = q[m + i - 1]
  BY <1>2, SubSeqProperties
<1> QED
  BY <1>3, SequenceIs

(* An element replaced.                                                    *)
LEMMA SequenceReplaced ==
  ASSUME NEW q, IsSequence(q), NEW k, NEW x
  PROVE  LET r == [q EXCEPT ![k] = x]
         IN  /\ IsSequence(r) /\ Len(r) = Len(q) /\ DOMAIN r = DOMAIN q
             /\ \A i \in DOMAIN q : r[i] = IF i = k THEN x ELSE q[i]
<1> DEFINE r == [q EXCEPT ![k] = x]
           R == ToSet(q) \cup {x}
<1>1. Len(q) \in Nat /\ DOMAIN q = 1 .. Len(q) /\ \A i \in 1 .. Len(q) : q[i] \in ToSet(q)
  BY SequenceIs
<1>2. DOMAIN r = 1 .. Len(q) /\ \A i \in 1 .. Len(q) : r[i] = IF i = k THEN x ELSE q[i]
  BY <1>1
<1>3. \A i \in 1 .. Len(q) : r[i] \in R
  BY <1>1, <1>2
<1>4. r \in [1 .. Len(q) -> R]
  BY <1>1, <1>3
<1> HIDE DEF r, R
<1>5. r \in Seq(R) /\ Len(r) = Len(q)
  <2>1. r \in Seq(R)
    BY <1>1, <1>4, SeqDef
  <2> QED
    BY <1>1, <1>2, <2>1
<1>6. IsSequence(r)
  BY <1>5, SequenceIs
<1> QED
  BY <1>1, <1>2, <1>5, <1>6 DEF r

(* Lines, one after the other.                                             *)
LEMMA LinesJoined ==
  ASSUME NEW p, NEW q, AreLines(p), AreLines(q)
  PROVE  AreLines(p \o q)
<1>1. /\ IsSequence(p) /\ IsSequence(q) /\ Len(p) \in Nat /\ Len(q) \in Nat
      /\ DOMAIN p = 1 .. Len(p) /\ DOMAIN q = 1 .. Len(q)
  BY SequenceIs DEF AreLines
<1>2. /\ IsSequence(p \o q) /\ Len(p \o q) = Len(p) + Len(q)
      /\ \A i \in 1 .. Len(p) + Len(q) : (p \o q)[i] = IF i <= Len(p) THEN p[i] ELSE q[i - Len(p)]
  BY <1>1, SequenceJoined
<1>3. DOMAIN (p \o q) = 1 .. Len(p) + Len(q)
  BY <1>2, SequenceIs
<1>4. ASSUME NEW i \in 1 .. Len(p) + Len(q) PROVE IsLine((p \o q)[i])
  <2>1. CASE i <= Len(p)
    <3>1. i \in DOMAIN p /\ (p \o q)[i] = p[i]
      BY <1>1, <1>2, <2>1
    <3> QED
      BY <3>1 DEF AreLines
  <2>2. CASE ~(i <= Len(p))
    <3>1. i - Len(p) \in DOMAIN q /\ (p \o q)[i] = q[i - Len(p)]
      BY <1>1, <1>2, <2>2
    <3> QED
      BY <3>1 DEF AreLines
  <2> QED
    BY <2>1, <2>2
<1> QED
  BY <1>2, <1>3, <1>4 DEF AreLines

(* No line, and one line.                                                  *)
LEMMA ShortLines ==
  ASSUME NEW w, NEW rest, IsSequence(rest)
  PROVE  AreLines(<<>>) /\ IsLine(Line(w, rest)) /\ AreLines(<<Line(w, rest)>>)
<1>1. IsLine(Line(w, rest))
  BY DEF IsLine, Line
<1>2. AreLines(<<>>)
  <2>1. DOMAIN <<>> = {}
    OBVIOUS
  <2> QED
    BY <2>1, ShortSequences DEF AreLines
<1>3. ASSUME NEW x, IsLine(x) PROVE AreLines(<<x>>)
  <2>1. DOMAIN <<x>> = {1} /\ <<x>>[1] = x
    OBVIOUS
  <2> QED
    BY <1>3, <2>1, ShortSequences DEF AreLines
<1> QED
  BY <1>1, <1>2, <1>3

(* One more line.                                                          *)
LEMMA LinesExtended ==
  ASSUME NEW q, AreLines(q), NEW x, IsLine(x)
  PROVE  AreLines(Append(q, x))
<1>1. IsSequence(q) /\ Len(q) \in Nat /\ DOMAIN q = 1 .. Len(q) /\ \A i \in 1 .. Len(q) : IsLine(q[i])
  BY SequenceIs DEF AreLines
<1>2. /\ IsSequence(Append(q, x)) /\ Len(Append(q, x)) = Len(q) + 1
      /\ \A i \in 1 .. Len(q) + 1 : Append(q, x)[i] = IF i = Len(q) + 1 THEN x ELSE q[i]
  BY <1>1, SequenceExtended
<1>3. DOMAIN Append(q, x) = 1 .. Len(q) + 1
  BY <1>2, SequenceIs
<1>4. ASSUME NEW i \in 1 .. Len(q) + 1 PROVE IsLine(Append(q, x)[i])
  BY <1>1, <1>2
<1> QED
  BY <1>2, <1>3, <1>4 DEF AreLines
-----------------------------------------------------------------------------
(* Only what the invariant does not speak of is different.                 *)
LEMMA Aside ==
  ASSUME NEW E, NEW t, Fine(E, t), NEW r, DOMAIN r = Fields,
         r.order = t.order, r.recent = t.recent, r.cur = t.cur, r.doc = t.doc, r.disk = t.disk,
         r.scripts = t.scripts, r.macros = t.macros, r.recording = t.recording, r.frames = t.frames,
         r.pstack = t.pstack, r.mode = t.mode
  PROVE  Stays(E, t, r)
BY DEF Fine, Held, Listed, Stays, Onward, SameList

(* Other documents.                                                        *)
LEMMA DocStays ==
  ASSUME NEW E, NEW t, Fine(E, t), NEW b \in DOMAIN t.doc, NEW d, IsDoc(d), b \in E \/ ~d.exec_only_options,
         NEW r, r = [t EXCEPT !.doc = [t.doc EXCEPT ![b] = d]]
  PROVE  Stays(E, t, r) /\ r.doc[b] = d
<1>1. DOMAIN t = Fields /\ AreDocs(E, t.doc)
  BY DEF Fine, Held
<1>2. /\ DOMAIN r = Fields
      /\ r.order = t.order /\ r.recent = t.recent /\ r.cur = t.cur /\ r.disk = t.disk
      /\ r.scripts = t.scripts /\ r.macros = t.macros /\ r.recording = t.recording /\ r.frames = t.frames
      /\ r.pstack = t.pstack /\ r.mode = t.mode /\ r.doc = [t.doc EXCEPT ![b] = d]
  BY <1>1 DEF Fields
<1>3. DOMAIN r.doc = DOMAIN t.doc /\ r.doc[b] = d
  BY <1>2
<1>4. AreDocs(E, r.doc)
  BY <1>1, <1>2, <1>3 DEF AreDocs
<1> QED
  BY <1>2, <1>3, <1>4 DEF Fine, Held, Listed, Stays, Onward, SameList

(* The greatest of some of the numbers up to n.                            *)
LEMMA MaxUpTo ==
  ASSUME NEW n \in Nat
  PROVE  \A t \in SUBSET (1 .. n) : t # {} => Max(t) \in 1 .. n
<1> SUFFICES ASSUME NEW t \in SUBSET (1 .. n), t # {} PROVE Max(t) \in 1 .. n
  OBVIOUS
<1>1. t \subseteq Int /\ n \in Int /\ \A y \in t : y <= n
  OBVIOUS
<1> QED
  BY <1>1, MaxIs

(* There is a line, at least.                                              *)
LEMMA FirstPassCounts ==
  ASSUME NEW bytes, IsSequence(bytes), NEW f
  PROVE  FirstPass(bytes, f).num \in Nat \ {0}
<1> DEFINE n == Len(bytes)
           S == [num : Nat \ {0}, crlf : BOOLEAN, skip : BOOLEAN]
           b == [num |-> 1, crlf |-> FALSE, skip |-> FALSE]
           seq == [i \in DOMAIN bytes |-> i - 1]
           One(st, i) ==
             IF st.skip THEN [st EXCEPT !.skip = FALSE]
             ELSE IF EndsLine(At(bytes, i), f)
                  THEN [num |-> st.num + 1, crlf |-> st.crlf \/ IsPair(bytes, i), skip |-> IsPair(bytes, i)]
                  ELSE st
           G == [z \in S \X (1 .. n) |-> One(z[1], seq[z[2]])]
           IsFold(h) == h = [t \in SUBSET DOMAIN seq |->
                               IF t = {} THEN b ELSE LET k == Max(t) IN One(h[t \ {k}], seq[k])]
           c == CHOOSE h : IsFold(h)
<1>a. FirstPass(bytes, f) = FoldLeft(LAMBDA st, i : One(st, i), b, seq)
  BY DEF FirstPass
<1>b. FoldLeft(LAMBDA st, i : One(st, i), b, seq) = c[DOMAIN seq]
  BY ONLY DEF FoldLeft, MapThenFoldSet, c, IsFold
<1>1. n \in Nat /\ DOMAIN bytes = 1 .. n
  BY SequenceIs
<1>2. DOMAIN seq = 1 .. n /\ b \in S
  BY <1>1
<1>3. ASSUME NEW st \in S, NEW i PROVE One(st, i) \in S
  <2> DEFINE pair == IsPair(bytes, i)
             ends == EndsLine(At(bytes, i), f)
  <2>1. pair \in BOOLEAN
    BY DEF IsPair
  <2> HIDE DEF pair, ends
  <2>2. [st EXCEPT !.skip = FALSE] \in S /\ (st.crlf \/ pair) \in BOOLEAN
    OBVIOUS
  <2>3. [num |-> st.num + 1, crlf |-> st.crlf \/ pair, skip |-> pair] \in S
    BY <2>1, <2>2
  <2>4. One(st, i) = IF st.skip THEN [st EXCEPT !.skip = FALSE]
                     ELSE IF ends THEN [num |-> st.num + 1, crlf |-> st.crlf \/ pair, skip |-> pair] ELSE st
    BY ONLY DEF One, pair, ends
  <2> HIDE DEF One
  <2> QED
    BY <2>2, <2>3, <2>4
<1> HIDE DEF n, b, seq, One, S
<1>4. G \in [S \X (1 .. n) -> S] /\ \A x \in S, k \in 1 .. n : G[<<x, k>>] = One(x, seq[k])
  BY <1>3
<1> HIDE DEF G
<1>5. \A t \in SUBSET (1 .. n) : t # {} => Max(t) \in 1 .. n
  BY <1>1, MaxUpTo
<1>6. IsFold(c)
  <2>1. PICK h \in [SUBSET (1 .. n) -> S] : FoldsBy(h, b, n, G)
    BY <1>1, <1>2, <1>4, FoldExists
  <2>2. \A t \in SUBSET (1 .. n) : h[t] = IF t = {} THEN b ELSE G[<<h[t \ {Max(t)}], Max(t)>>]
    BY ONLY <2>1 DEF FoldsBy
  <2>3. \A t \in SUBSET (1 .. n) : t # {} => G[<<h[t \ {Max(t)}], Max(t)>>] = One(h[t \ {Max(t)}], seq[Max(t)])
    BY <1>4, <1>5
  <2>4. h = [t \in SUBSET (1 .. n) |-> h[t]]
    OBVIOUS
  <2>5. h = [t \in SUBSET (1 .. n) |-> IF t = {} THEN b ELSE One(h[t \ {Max(t)}], seq[Max(t)])]
    BY <2>2, <2>3, <2>4
  <2>6. IsFold(h)
    BY <1>2, <2>5
  <2> HIDE DEF IsFold
  <2> QED
    BY ONLY <2>6 DEF c
<1> HIDE DEF c
<1>7. FoldsIn(S, c, b, n, G)
  <2>1. \A t \in SUBSET (1 .. n) : c[t] = IF t = {} THEN b ELSE One(c[t \ {Max(t)}], seq[Max(t)])
    BY <1>2, <1>6
  <2> HIDE DEF IsFold
  <2>2. {} \in SUBSET (1 .. n)
    OBVIOUS
  <2> QED
    BY <1>4, <1>5, <2>1, <2>2 DEF FoldsIn
<1> HIDE DEF IsFold
<1>8. RunsTo(S, c[1 .. n], b, n, G)
  BY <1>1, <1>2, <1>4, <1>7, FoldTrace
<1>9. c[1 .. n] \in S
  BY <1>1, <1>8 DEF RunsTo
<1> QED
  BY <1>a, <1>b, <1>2, <1>9 DEF S

(* The end of a line is found.                                             *)
LEMMA LineEndIs ==
  ASSUME NEW bytes, IsSequence(bytes), NEW f, NEW p \in 0 .. Len(bytes)
  PROVE  LineEnd(bytes, p, f) \in p .. Len(bytes)
<1> DEFINE n == Len(bytes)
           T == {q \in p .. n : q = n \/ EndsLine(At(bytes, q), f)}
<1>1. n \in Nat /\ p \in Nat /\ p <= n
  BY SequenceIs
<1> HIDE DEF n
<1>2. T \subseteq Nat /\ n \in T
  BY <1>1
<1>3. PICK q \in T : \A y \in T : q <= y
  BY <1>2, Least
<1>4. ASSUME NEW r \in p .. q - 1 PROVE ~EndsLine(At(bytes, r), f)
  <2>1. r \in p .. n /\ ~(q <= r)
    BY <1>1, <1>2, <1>3
  <2> QED
    BY <1>3, <2>1
<1>5. q \in p .. n /\ (q = n \/ EndsLine(At(bytes, q), f))
  BY <1>3
<1> DEFINE Ends(e) == (e = n \/ EndsLine(At(bytes, e), f)) /\ \A r \in p .. e - 1 : ~EndsLine(At(bytes, r), f)
<1>6. LineEnd(bytes, p, f) = CHOOSE e \in p .. n : Ends(e)
  BY DEF LineEnd, n
<1>7. Ends(q)
  BY <1>4, <1>5
<1> HIDE DEF Ends
<1> QED
  BY <1>5, <1>6, <1>7 DEF n

(* What is cut are lines, as many as were counted.                         *)
LEMMA SecondPassCuts ==
  ASSUME NEW bytes, IsSequence(bytes), NEW f, NEW n \in Nat
  PROVE  LET lines == SecondPass(bytes, f, n)
         IN  lines \in Seq(Seq(ToSet(bytes))) /\ Len(lines) = n
<1> DEFINE R == ToSet(bytes)
           m == Len(bytes)
           S == [lines : Seq(Seq(R)), p : 0 .. m]
           b == [lines |-> <<>>, p |-> 0]
           seq == [i \in 1 .. n |-> i]
           One(st, i) ==
             LET q == LineEnd(bytes, st.p, f) IN
             [lines |-> Append(st.lines, SubSeq(bytes, st.p + 1, q)),
              p |-> IF q = Len(bytes) THEN q ELSE IF IsPair(bytes, q) THEN q + 2 ELSE q + 1]
           G == [z \in S \X (1 .. n) |-> One(z[1], seq[z[2]])]
           IsFold(h) == h = [t \in SUBSET DOMAIN seq |->
                               IF t = {} THEN b ELSE LET k == Max(t) IN One(h[t \ {k}], seq[k])]
           c == CHOOSE h : IsFold(h)
<1>a. SecondPass(bytes, f, n) = FoldLeft(LAMBDA st, i : One(st, i), b, seq).lines
  BY DEF SecondPass
<1>b. FoldLeft(LAMBDA st, i : One(st, i), b, seq) = c[DOMAIN seq]
  BY ONLY DEF FoldLeft, MapThenFoldSet, c, IsFold
<1>1. m \in Nat /\ bytes \in Seq(R)
  BY SequenceIs
<1>2. DOMAIN seq = 1 .. n /\ b \in S
  <2>1. <<>> \in Seq(Seq(R))
    OBVIOUS
  <2> QED
    BY <1>1, <2>1
<1>3. ASSUME NEW st \in S, NEW i PROVE One(st, i) \in S /\ Len(One(st, i).lines) = Len(st.lines) + 1
  <2> DEFINE q == LineEnd(bytes, st.p, f)
             pair == IsPair(bytes, q)
             next == IF q = m THEN q ELSE IF pair THEN q + 2 ELSE q + 1
             line == SubSeq(bytes, st.p + 1, q)
             more == Append(st.lines, line)
  <2>1. st.p \in 0 .. m /\ st.lines \in Seq(Seq(R))
    OBVIOUS
  <2>2. q \in st.p .. m
    BY <2>1, LineEndIs
  <2>3. pair => q + 1 < m
    BY DEF IsPair
  <2>4. One(st, i) = [lines |-> more, p |-> next]
    BY ONLY DEF One, more, line, next, pair, q, m
  <2> HIDE DEF q, pair, One
  <2>5. next \in 0 .. m
    BY <1>1, <2>1, <2>2, <2>3
  <2>6. line \in Seq(R)
    <3>1. st.p + 1 \in Nat \ {0} /\ q \in Nat /\ q <= m
      BY <1>1, <2>1, <2>2
    <3> QED
      BY <1>1, <3>1, SubSeqOfSeq
  <2> HIDE DEF next, line
  <2>7. more \in Seq(Seq(R)) /\ Len(more) = Len(st.lines) + 1
    BY <2>1, <2>6, AppendProperties
  <2> HIDE DEF more, R, m
  <2> QED
    BY <2>4, <2>5, <2>7
<1> HIDE DEF b, seq, One, S, m, R
<1>4. G \in [S \X (1 .. n) -> S] /\ \A x \in S, k \in 1 .. n : G[<<x, k>>] = One(x, seq[k])
  BY <1>3
<1> HIDE DEF G
<1>5. \A t \in SUBSET (1 .. n) : t # {} => Max(t) \in 1 .. n
  BY MaxUpTo
<1>6. IsFold(c)
  <2>1. PICK h \in [SUBSET (1 .. n) -> S] : FoldsBy(h, b, n, G)
    BY <1>2, <1>4, FoldExists
  <2>2. \A t \in SUBSET (1 .. n) : h[t] = IF t = {} THEN b ELSE G[<<h[t \ {Max(t)}], Max(t)>>]
    BY ONLY <2>1 DEF FoldsBy
  <2>3. \A t \in SUBSET (1 .. n) : t # {} => G[<<h[t \ {Max(t)}], Max(t)>>] = One(h[t \ {Max(t)}], seq[Max(t)])
    BY <1>4, <1>5
  <2>4. h = [t \in SUBSET (1 .. n) |-> h[t]]
    OBVIOUS
  <2>5. h = [t \in SUBSET (1 .. n) |-> IF t = {} THEN b ELSE One(h[t \ {Max(t)}], seq[Max(t)])]
    BY <2>2, <2>3, <2>4
  <2>6. IsFold(h)
    BY <1>2, <2>5
  <2> HIDE DEF IsFold
  <2> QED
    BY ONLY <2>6 DEF c
<1> HIDE DEF c
<1>7. FoldsIn(S, c, b, n, G)
  <2>1. \A t \in SUBSET (1 .. n) : c[t] = IF t = {} THEN b ELSE One(c[t \ {Max(t)}], seq[Max(t)])
    BY <1>2, <1>6
  <2> HIDE DEF IsFold
  <2>2. {} \in SUBSET (1 .. n)
    OBVIOUS
  <2> QED
    BY <1>4, <1>5, <2>1, <2>2 DEF FoldsIn
<1> HIDE DEF IsFold
<1>8. RunsTo(S, c[1 .. n], b, n, G)
  BY <1>2, <1>4, <1>7, FoldTrace
<1>9. PICK g \in [0 .. n -> S] : RunsBy(g, b, n, G) /\ c[1 .. n] = g[n]
  BY <1>8 DEF RunsTo
<1> DEFINE T == {k \in 0 .. n : Len(g[k].lines) = k}
<1>10. 0 \in T
  <2>1. g[0] = b /\ Len(b.lines) = 0
    BY <1>9 DEF RunsBy, b
  <2> QED
    BY <2>1
<1>11. ASSUME NEW k \in 1 .. n, k - 1 \in T PROVE k \in T
  <2>1. k - 1 \in 0 .. n /\ k \in 0 .. n /\ g[k - 1] \in S
    OBVIOUS
  <2>2. g[k] = One(g[k - 1], seq[k])
    BY <1>4, <1>9, <2>1 DEF RunsBy
  <2>3. Len(g[k].lines) = Len(g[k - 1].lines) + 1
    BY <1>3, <2>1, <2>2
  <2> QED
    BY <1>11, <2>1, <2>3
<1> HIDE DEF T
<1>12. n \in T
  BY ONLY <1>10, <1>11, UpTo, n \in Nat
<1>13. c[1 .. n] \in S /\ Len(c[1 .. n].lines) = n
  BY <1>9, <1>12 DEF T
<1> QED
  BY <1>a, <1>b, <1>2, <1>13 DEF S, R

(* Lines of a sequence of sequences are a text.                            *)
LEMMA TextIs ==
  ASSUME NEW R, NEW lines \in Seq(Seq(R)), Len(lines) # 0
  PROVE  IsText(lines)
<1>1. IsSequence(lines) /\ Len(lines) \in Nat /\ DOMAIN lines = 1 .. Len(lines)
  BY SequenceIs
<1>2. \A i \in DOMAIN lines : lines[i] \in Seq(R)
  OBVIOUS
<1>3. \A i \in DOMAIN lines : IsSequence(lines[i])
  BY <1>2, SequenceIs
<1>4. lines # <<>>
  OBVIOUS
<1> QED
  BY <1>1, <1>3, <1>4 DEF IsText

(* What is loaded is a text.                                               *)
LEMMA LoadedIsText ==
  ASSUME NEW bytes, IsSequence(bytes), NEW f
  PROVE  IsText(LoadInMemory(bytes, f).lines)
<1> DEFINE n == FirstPass(bytes, f).num
           lines == SecondPass(bytes, f, n)
<1>1. n \in Nat /\ n # 0
  BY FirstPassCounts
<1>2. LoadInMemory(bytes, f).lines = lines
  BY DEF LoadInMemory
<1> HIDE DEF n
<1>3. lines \in Seq(Seq(ToSet(bytes))) /\ Len(lines) = n
  BY <1>1, SecondPassCuts
<1> HIDE DEF lines
<1>4. IsText(lines)
  BY <1>1, <1>3, TextIs
<1> QED
  BY <1>2, <1>4

(* The characters of a text.                                               *)
LEMMA TextChars ==
  ASSUME NEW lines, IsText(lines)
  PROVE  \E R : lines \in Seq(Seq(R))
<1> DEFINE R == UNION {ToSet(lines[i]) : i \in DOMAIN lines}
<1>1. IsSequence(lines) /\ \A i \in DOMAIN lines : IsSequence(lines[i])
  BY DEF IsText
<1>2. Len(lines) \in Nat /\ DOMAIN lines = 1 .. Len(lines) /\ lines \in Seq(ToSet(lines))
  BY <1>1, SequenceIs
<1>3. ASSUME NEW i \in DOMAIN lines PROVE lines[i] \in Seq(R)
  <2>1. lines[i] \in Seq(ToSet(lines[i])) /\ ToSet(lines[i]) \subseteq R
    BY <1>1, SequenceIs
  <2>2. \A S, T, x : x \in Seq(S) /\ S \subseteq T => x \in Seq(T)
    OBVIOUS
  <2> HIDE DEF R
  <2> QED
    BY <2>1, <2>2
<1> HIDE DEF R
<1>4. lines \in [1 .. Len(lines) -> Seq(R)]
  <2>1. lines = [i \in 1 .. Len(lines) |-> lines[i]]
    BY <1>2
  <2> QED
    BY <1>2, <1>3, <2>1
<1>5. lines \in Seq(Seq(R))
  BY <1>2, <1>4, SeqDef
<1> QED
  BY <1>5

(* How many blocks a sequence fills.                                       *)
LEMMA BlocksIn ==
  ASSUME NEW n \in Nat
  PROVE  LET q == n \div BlockSize IN q \in Nat /\ q * BlockSize \in Nat /\ q * BlockSize <= n
<1> DEFINE q == n \div BlockSize
<1>1. BlockSize \in Nat /\ BlockSize > 0
  BY SizesAssumption
<1>2. q \in Nat /\ q * BlockSize <= n
  BY <1>1
<1> HIDE DEF q
<1>3. q * BlockSize \in Nat
  BY <1>1, <1>2
<1> QED
  BY <1>2, <1>3 DEF q

(* Where each of them is.                                                  *)
LEMMA BlockOf ==
  ASSUME NEW n \in Nat, NEW k \in 1 .. n \div BlockSize
  PROVE  /\ (k - 1) * BlockSize + 1 \in Nat \ {0} /\ k * BlockSize \in Nat /\ k * BlockSize <= n
<1>1. BlockSize \in Nat /\ BlockSize > 0
  BY SizesAssumption
<1> DEFINE q == n \div BlockSize
<1>2. q \in Nat /\ q * BlockSize <= n
  BY BlocksIn
<1>3. k \in Nat /\ k - 1 \in Nat /\ k <= q
  BY <1>2
<1> HIDE DEF q
<1>4. (k - 1) * BlockSize \in Nat /\ k * BlockSize \in Nat
  BY <1>1, <1>3
<1>5. k * BlockSize <= q * BlockSize
  BY <1>1, <1>2, <1>3
<1>6. q * BlockSize \in Nat
  BY <1>1, <1>2
<1> QED
  BY <1>2, <1>4, <1>5, <1>6

(* What write() is given when a text is saved.                             *)
LEMMA SaveWritesType ==
  ASSUME NEW lines, IsText(lines), NEW f, NEW crlf
  PROVE  \E R : SaveBlocks(lines, f, crlf).writes \in Seq(Seq(R))
<1>1. PICK R0 : lines \in Seq(Seq(R0))
  BY TextChars
<1> DEFINE R == R0 \cup {NUL, LF, CR}
           n == Len(lines)
           S == [block : Seq(R), writes : Seq(Seq(R)), fits : BOOLEAN]
           b == [block |-> <<>>, writes |-> <<>>, fits |-> TRUE]
           seq == [l \in DOMAIN lines |-> l]
           one(x, l) ==
             LET filled == Fill(x, lines[l])
                 ended == IF l < Len(lines) THEN [filled EXCEPT !.block = @ \o LineFeed(f, crlf)] ELSE filled IN
             Flush([ended EXCEPT !.fits = @ /\ Len(ended.block) <= BlockSize + 1], BlockSize)
           G == [z \in S \X (1 .. n) |-> one(z[1], seq[z[2]])]
           IsFold(h) == h = [t \in SUBSET DOMAIN seq |->
                               IF t = {} THEN b ELSE LET k == Max(t) IN one(h[t \ {k}], seq[k])]
           c == CHOOSE h : IsFold(h)
<1>a. SaveBlocks(lines, f, crlf) = Flush(FoldLeft(one, b, seq), 1)
  BY DEF SaveBlocks
<1>b. FoldLeft(one, b, seq) = c[DOMAIN seq]
  BY ONLY DEF FoldLeft, MapThenFoldSet, c, IsFold
<1>2. n \in Nat /\ DOMAIN seq = 1 .. n /\ \A k \in 1 .. n : seq[k] = k /\ lines[k] \in Seq(R)
  <2>1. DOMAIN lines = 1 .. n /\ n \in Nat /\ \A k \in 1 .. n : lines[k] \in Seq(R0)
    BY <1>1
  <2>2. \A U, V, x : x \in Seq(U) /\ U \subseteq V => x \in Seq(V)
    OBVIOUS
  <2>3. R0 \subseteq R
    OBVIOUS
  <2> HIDE DEF R
  <2>4. \A k \in 1 .. n : lines[k] \in Seq(R)
    BY <2>1, <2>2, <2>3
  <2> QED
    BY <2>1, <2>4
<1>3. b \in S
  <2>1. <<>> \in Seq(R) /\ <<>> \in Seq(Seq(R))
    OBVIOUS
  <2> QED
    BY <2>1
<1>4. LineFeed(f, crlf) \in Seq(R)
  <2>1. <<NUL>> \in Seq(R) /\ <<CR, LF>> \in Seq(R) /\ <<LF>> \in Seq(R)
    OBVIOUS
  <2> QED
    BY <2>1 DEF LineFeed
<1>5. ASSUME NEW x \in S, NEW line \in Seq(R) PROVE Fill(x, line) \in S
  <2> DEFINE all == x.block \o line
             q == Len(all) \div BlockSize
             full == [k \in 1 .. q |-> SubSeq(all, (k - 1) * BlockSize + 1, k * BlockSize)]
             rest == SubSeq(all, q * BlockSize + 1, Len(all))
  <2>1. x.block \in Seq(R) /\ x.writes \in Seq(Seq(R)) /\ x.fits \in BOOLEAN
    OBVIOUS
  <2>2. all \in Seq(R) /\ Len(all) \in Nat
    BY <2>1, ConcatType
  <2>3. Fill(x, line) = [x EXCEPT !.writes = @ \o full, !.block = rest]
    BY DEF Fill
  <2> HIDE DEF all
  <2>4. q \in Nat /\ q * BlockSize \in Nat
    <3> HIDE DEF R, S
    <3> QED
      BY ONLY <2>2, BlocksIn
  <2>5. \A k \in 1 .. q : SubSeq(all, (k - 1) * BlockSize + 1, k * BlockSize) \in Seq(R)
    BY <2>2, BlockOf, SubSeqOfSeq
  <2>6. rest \in Seq(R)
    <3>1. q * BlockSize + 1 \in Nat \ {0}
      BY <2>4
    <3> QED
      BY <2>2, <3>1, SubSeqOfSeq
  <2>7. full \in [1 .. q -> Seq(R)]
    BY <2>5
  <2> HIDE DEF full, q, rest
  <2>8. full \in Seq(Seq(R))
    BY <2>4, <2>7, SeqDef
  <2>9. x.writes \o full \in Seq(Seq(R))
    BY <2>1, <2>8, ConcatType
  <2> HIDE DEF R
  <2> QED
    BY <2>3, <2>6, <2>9
<1>6. ASSUME NEW x \in S, NEW size PROVE Flush(x, size) \in S
  <2>1. x.block \in Seq(R) /\ x.writes \in Seq(Seq(R)) /\ x.fits \in BOOLEAN /\ <<>> \in Seq(R)
    OBVIOUS
  <2>2. Append(x.writes, x.block) \in Seq(Seq(R))
    BY <2>1, AppendProperties
  <2> HIDE DEF R
  <2> QED
    BY <2>1, <2>2 DEF Flush
<1> HIDE DEF R
<1>7. ASSUME NEW x \in S, NEW l \in 1 .. n PROVE one(x, seq[l]) \in S
  <2> DEFINE filled == Fill(x, lines[l])
             ended == IF l < n THEN [filled EXCEPT !.block = @ \o LineFeed(f, crlf)] ELSE filled
             last == [ended EXCEPT !.fits = @ /\ Len(ended.block) <= BlockSize + 1]
  <2>1. one(x, seq[l]) = Flush(last, BlockSize)
    BY <1>2 DEF one
  <2>2. filled \in S
    BY <1>2, <1>5
  <2> HIDE DEF filled
  <2>3. ended \in S
    <3>1. filled.block \o LineFeed(f, crlf) \in Seq(R)
      BY <1>4, <2>2, ConcatType
    <3> QED
      BY <2>2, <3>1
  <2> HIDE DEF ended
  <2>4. last \in S
    BY <2>3
  <2> HIDE DEF last
  <2> QED
    BY <1>6, <2>1, <2>4
<1> HIDE DEF n, b, seq, one, S
<1>8. G \in [S \X (1 .. n) -> S] /\ \A x \in S, k \in 1 .. n : G[<<x, k>>] = one(x, seq[k])
  BY <1>7
<1> HIDE DEF G
<1>9. \A t \in SUBSET (1 .. n) : t # {} => Max(t) \in 1 .. n
  BY <1>2, MaxUpTo
<1>10. IsFold(c)
  <2>1. PICK h \in [SUBSET (1 .. n) -> S] : FoldsBy(h, b, n, G)
    BY <1>2, <1>3, <1>8, FoldExists
  <2>2. \A t \in SUBSET (1 .. n) : h[t] = IF t = {} THEN b ELSE G[<<h[t \ {Max(t)}], Max(t)>>]
    BY ONLY <2>1 DEF FoldsBy
  <2>3. \A t \in SUBSET (1 .. n) : t # {} => G[<<h[t \ {Max(t)}], Max(t)>>] = one(h[t \ {Max(t)}], seq[Max(t)])
    BY <1>8, <1>9
  <2>4. h = [t \in SUBSET (1 .. n) |-> h[t]]
    OBVIOUS
  <2>5. h = [t \in SUBSET (1 .. n) |-> IF t = {} THEN b ELSE one(h[t \ {Max(t)}], seq[Max(t)])]
    BY <2>2, <2>3, <2>4
  <2>6. IsFold(h)
    BY <1>2, <2>5
  <2> HIDE DEF IsFold
  <2> QED
    BY ONLY <2>6 DEF c
<1> HIDE DEF c
<1>11. FoldsIn(S, c, b, n, G)
  <2>1. \A t \in SUBSET (1 .. n) : c[t] = IF t = {} THEN b ELSE one(c[t \ {Max(t)}], seq[Max(t)])
    BY <1>2, <1>10
  <2> HIDE DEF IsFold
  <2>2. {} \in SUBSET (1 .. n)
    OBVIOUS
  <2> QED
    BY <1>8, <1>9, <2>1, <2>2 DEF FoldsIn
<1> HIDE DEF IsFold
<1>12. RunsTo(S, c[1 .. n], b, n, G)
  BY <1>2, <1>3, <1>8, <1>11, FoldTrace
<1>13. c[1 .. n] \in S
  BY <1>2, <1>12 DEF RunsTo
<1>14. SaveBlocks(lines, f, crlf) = Flush(c[1 .. n], 1)
  BY <1>a, <1>b, <1>2
<1>15. Flush(c[1 .. n], 1) \in S
  BY <1>6, <1>13
<1>16. SaveBlocks(lines, f, crlf).writes \in Seq(Seq(R))
  BY <1>14, <1>15 DEF S
<1> QED
  BY <1>16

-----------------------------------------------------------------------------
(* One operation after the other.                                          *)
LEMMA Follows ==
  ASSUME NEW E, NEW t, NEW r, NEW q
  PROVE  /\ Fine(E, t) => Stays(E, t, t)
         /\ Stays(E, t, r) /\ Stays(E, r, q) => Stays(E, t, q)
         /\ Stays(E, t, r) => Goes(E, t, r)
         /\ Goes(E, t, r) /\ Goes(E, r, q) => Goes(E, t, q)
BY DEF Stays, Goes, Onward, SameList

(* The documents of a session.                                             *)
LEMMA DocOf ==
  ASSUME NEW E, NEW t, Fine(E, t)
  PROVE  /\ t.cur \in DOMAIN t.doc /\ DOMAIN t = Fields /\ IsDoc(CurDoc(t))
         /\ \A b \in DOMAIN t.doc : IsDoc(t.doc[b]) /\ (b \in E \/ ~t.doc[b].exec_only_options)
BY DEF Fine, Held, Listed, AreDocs, CurDoc

(* An error, and what the user agrees to.                                  *)
LEMMA ErrStays ==
  ASSUME NEW E, NEW t, Fine(E, t), NEW e
  PROVE  Stays(E, t, Err(t, e)) /\ Err(t, e).error = e /\ Stays(E, t, Agreed(t, e))
<1>1. DOMAIN t = Fields
  BY DocOf
<1>2. Stays(E, t, Err(t, e))
  <2> DEFINE r == Err(t, e)
  <2>1. /\ DOMAIN r = Fields /\ r.order = t.order /\ r.recent = t.recent /\ r.cur = t.cur /\ r.doc = t.doc
        /\ r.disk = t.disk /\ r.scripts = t.scripts /\ r.macros = t.macros /\ r.recording = t.recording
        /\ r.frames = t.frames /\ r.pstack = t.pstack /\ r.mode = t.mode
    BY <1>1 DEF Err, Fields
  <2> HIDE DEF r
  <2>2. Stays(E, t, r)
    BY <2>1, Aside
  <2> QED
    BY <2>2 DEF r
<1>3. Err(t, e).error = e
  BY <1>1 DEF Err, Fields
<1>4. Stays(E, t, Agreed(t, e))
  <2> DEFINE r == Agreed(t, e)
  <2>1. /\ DOMAIN r = Fields /\ r.order = t.order /\ r.recent = t.recent /\ r.cur = t.cur /\ r.doc = t.doc
        /\ r.disk = t.disk /\ r.scripts = t.scripts /\ r.macros = t.macros /\ r.recording = t.recording
        /\ r.frames = t.frames /\ r.pstack = t.pstack /\ r.mode = t.mode
    BY <1>1 DEF Agreed, Fields
  <2> HIDE DEF r
  <2>2. Stays(E, t, r)
    BY <2>1, Aside
  <2> QED
    BY <2>2 DEF r
<1> QED
  BY <1>2, <1>3, <1>4

(* Another recording, other files, other macros and preferences.           *)
LEMMA PartStays ==
  ASSUME NEW E, NEW t, Fine(E, t), NEW r, NEW v,
         \/ AreLines(v) /\ r = [t EXCEPT !.recording = v]
         \/ AreMacros(v) /\ r = [t EXCEPT !.scripts = v]
         \/ AreMacros(v) /\ r = [t EXCEPT !.macros = v]
         \/ IsStack(v) /\ r = [t EXCEPT !.pstack = v]
         \/ AreFrames(v) /\ (t.frames # <<>> => v # <<>>) /\ r = [t EXCEPT !.frames = v]
         \/ AreFiles(v) /\ r = [t EXCEPT !.disk = v]
  PROVE  Stays(E, t, r)
<1>1. DOMAIN t = Fields
  BY DocOf
<1>2. /\ DOMAIN r = Fields /\ r.order = t.order /\ r.recent = t.recent /\ r.cur = t.cur /\ r.doc = t.doc
      /\ r.mode = t.mode
  BY <1>1 DEF Fields
<1>3. /\ r.recording = t.recording \/ AreLines(r.recording)
      /\ r.scripts = t.scripts \/ AreMacros(r.scripts)
      /\ r.macros = t.macros \/ AreMacros(r.macros)
      /\ r.pstack = t.pstack \/ IsStack(r.pstack)
      /\ r.frames = t.frames \/ (AreFrames(r.frames) /\ (t.frames # <<>> => r.frames # <<>>))
      /\ r.disk = t.disk \/ AreFiles(r.disk)
  BY <1>1 DEF Fields
<1>4. /\ AreLines(r.recording) /\ AreMacros(r.scripts) /\ AreMacros(r.macros) /\ IsStack(r.pstack)
      /\ AreFrames(r.frames) /\ (t.frames # <<>> => r.frames # <<>>) /\ AreFiles(r.disk) /\ AreDocs(E, r.doc)
  BY <1>2, <1>3 DEF Fine, Held
<1> QED
  BY <1>2, <1>4 DEF Fine, Held, Listed, Stays, Onward, SameList

(* What is recorded.                                                       *)
LEMMA NoteStays ==
  ASSUME NEW E, NEW t, Fine(E, t), NEW what, NEW name
  PROVE  Stays(E, t, Note(t, what, name)) /\ Note(t, what, name).error = t.error
<1>1. DOMAIN t = Fields /\ AreLines(t.recording)
  BY DEF Fine, Held
<1> DEFINE v == Append(t.recording, Comment(what, name))
           r == [t EXCEPT !.recording = v]
<1>2. IsLine(Comment(what, name))
  BY ShortSequences, ShortLines DEF Comment
<1>3. AreLines(v)
  BY <1>1, <1>2, LinesExtended
<1>4. Note(t, what, name) = IF t.recording = NoStream THEN t ELSE r
  BY DEF Note
<1>5. r = [t EXCEPT !.recording = v] /\ r.error = t.error
  BY <1>1 DEF Fields
<1> HIDE DEF v, r
<1>6. Stays(E, t, r)
  BY <1>3, <1>5, PartStays
<1> QED
  BY <1>4, <1>5, <1>6, Follows

(* The lines of an action.                                                 *)
LEMMA RecordedLines ==
  ASSUME NEW x, IsSequence(x.p)
  PROVE  AreLines(record_action(x))
<1>1. IsSequence(<<>>) /\ IsSequence(Decimal(x.c))
  BY ShortSequences DEF Decimal
<1>2. IsSequence(Quoted(x.p))
  <2>1. IsSequence(<<Quote>>)
    BY ShortSequences
  <2>2. IsSequence(<<Quote>> \o x.p)
    BY <2>1, SequenceJoined
  <2>3. IsSequence(<<Quote>> \o x.p \o <<Quote>>)
    BY <2>1, <2>2, SequenceJoined
  <2> QED
    BY <2>3 DEF Quoted
<1> QED
  BY <1>1, <1>2, ShortLines DEF record_action

(* They are recorded.                                                      *)
LEMMA RecordedStays ==
  ASSUME NEW E, NEW t, Fine(E, t), NEW x, IsSequence(x.p)
  PROVE  Stays(E, t, Recorded(t, x)) /\ Recorded(t, x).error = t.error
<1>1. DOMAIN t = Fields /\ AreLines(t.recording)
  BY DEF Fine, Held
<1> DEFINE v == t.recording \o record_action(x)
           r == [t EXCEPT !.recording = v]
<1>2. AreLines(v)
  BY <1>1, RecordedLines, LinesJoined
<1>3. Recorded(t, x) = IF t.recording = NoStream THEN t ELSE r
  BY DEF Recorded
<1>4. r = [t EXCEPT !.recording = v] /\ r.error = t.error
  BY <1>1 DEF Fields
<1> HIDE DEF v, r
<1>5. Stays(E, t, r)
  BY <1>2, <1>4, PartStays
<1> QED
  BY <1>3, <1>4, <1>5, Follows

(* A command begins.                                                       *)
LEMMA BegunStays ==
  ASSUME NEW E, NEW t, Fine(E, t), NEW x, IsSequence(x.p)
  PROVE  Stays(E, t, Begun(t, x)) /\ Begun(t, x).error = OK
<1> DEFINE a == Recorded(t, x)
           c == Counted(a, x)
           r == Begun(t, x)
<1>1. Stays(E, t, a)
  BY RecordedStays
<1> HIDE DEF a
<1>2. Fine(E, a) /\ DOMAIN a = Fields
  BY <1>1, DocOf DEF Stays
<1>3. DOMAIN r = Fields /\ r.error = OK
  BY <1>2 DEF Begun, Counted, a, Fields
<1>4. /\ r.order = a.order /\ r.recent = a.recent /\ r.cur = a.cur /\ r.doc = a.doc
      /\ r.disk = a.disk /\ r.scripts = a.scripts /\ r.macros = a.macros /\ r.recording = a.recording
      /\ r.frames = a.frames /\ r.pstack = a.pstack /\ r.mode = a.mode
  BY <1>2 DEF Begun, Counted, a, Fields
<1> HIDE DEF r
<1>5. Stays(E, a, r)
  BY <1>2, <1>3, <1>4, Aside
<1>6. Stays(E, t, r)
  BY <1>1, <1>5, Follows
<1> QED
  BY <1>3, <1>6 DEF r

(* A file is written.                                                      *)
LEMMA PutFileStays ==
  ASSUME NEW E, NEW t, Fine(E, t), NEW f, NEW bytes, IsSequence(bytes), NEW whole
  PROVE  Stays(E, t, PutFile(t, f, bytes, whole))
<1> DEFINE file == [bytes |-> bytes, whole |-> whole, mtime |-> t.clock, version |-> t.writes + 1, writable |-> TRUE]
           v == Updated(t.disk, f, file)
           a == [t EXCEPT !.disk = v]
           r == PutFile(t, f, bytes, whole)
<1>1. DOMAIN t = Fields /\ AreFiles(t.disk)
  BY DEF Fine, Held
<1>2. AreFiles(v)
  <2>1. file.bytes = bytes
    OBVIOUS
  <2> HIDE DEF file
  <2>2. DOMAIN v = DOMAIN t.disk \cup {f} /\ \A g \in DOMAIN v : v[g] = IF g = f THEN file ELSE t.disk[g]
    BY DEF Updated
  <2> HIDE DEF v
  <2> QED
    BY <1>1, <2>1, <2>2 DEF AreFiles
<1>3. r = [a EXCEPT !.writes = @ + 1, !.clock = @ + Tick]
  <2>1. r = [t EXCEPT !.disk = v, !.writes = @ + 1, !.clock = @ + Tick]
    BY DEF PutFile
  <2> HIDE DEF v, r
  <2> QED
    BY <1>1, <2>1 DEF Fields
<1>4. a = [t EXCEPT !.disk = v]
  OBVIOUS
<1> HIDE DEF v, a, r
<1>5. Stays(E, t, a)
  BY <1>2, <1>4, PartStays
<1>6. Fine(E, a) /\ DOMAIN a = Fields
  BY <1>5, DocOf DEF Stays
<1>7. /\ DOMAIN r = Fields /\ r.order = a.order /\ r.recent = a.recent /\ r.cur = a.cur /\ r.doc = a.doc
      /\ r.disk = a.disk /\ r.scripts = a.scripts /\ r.macros = a.macros /\ r.recording = a.recording
      /\ r.frames = a.frames /\ r.pstack = a.pstack /\ r.mode = a.mode
  BY <1>3, <1>6 DEF Fields
<1>8. Stays(E, a, r)
  BY <1>6, <1>7, Aside
<1>9. Stays(E, t, r)
  BY <1>5, <1>8, Follows
<1> QED
  BY <1>9 DEF r

(* A document has been saved.                                              *)
LEMMA SavedStays ==
  ASSUME NEW E, NEW t, Fine(E, t), NEW b \in DOMAIN t.doc, NEW whole, NEW time
  PROVE  Stays(E, t, Saved(t, b, whole, time))
<1> DEFINE a == Err(t, IF whole THEN OK ELSE "IO_ERROR")
           d == [t.doc[b] EXCEPT !.is_modified = StaysModified(t.doc[b], whole), !.mtime = time, !.seen = t.writes]
           r == Saved(t, b, whole, time)
<1>1. DOMAIN t = Fields /\ IsDoc(t.doc[b]) /\ (b \in E \/ ~t.doc[b].exec_only_options)
  BY DocOf
<1>2. Stays(E, t, a) /\ a.doc = t.doc
  BY <1>1, ErrStays DEF Err, Fields
<1>3. IsDoc(d) /\ d.exec_only_options = t.doc[b].exec_only_options
  BY <1>1 DEF IsDoc, DocFields
<1>4. r = [a EXCEPT !.doc = [a.doc EXCEPT ![b] = d]]
  BY <1>1 DEF Saved, Err, Fields
<1> HIDE DEF a, d, r
<1>5. Stays(E, a, r)
  <2>1. Fine(E, a)
    BY <1>2 DEF Stays
  <2> QED
    BY <1>1, <1>2, <1>3, <1>4, <2>1, DocStays
<1>6. Stays(E, t, r)
  BY <1>2, <1>5, Follows
<1> QED
  BY <1>6 DEF r

(* Some of the writes of a save get through.                               *)
LEMMA SaveWritesStays ==
  ASSUME NEW E, NEW t, Fine(E, t), NEW b \in DOMAIN t.doc, NEW f, NEW R, NEW writes \in Seq(Seq(R)), NEW n \in Nat
  PROVE  Stays(E, t, SaveWrites(t, b, f, writes, n))
<1> DEFINE whole == n >= Len(writes)
           k == IF whole THEN Len(writes) ELSE n
           bytes == FlattenSeq(SubSeq(writes, 1, k))
           a == PutFile(t, f, bytes, whole)
           r == Saved(a, b, whole, t.clock)
<1>1. SaveWrites(t, b, f, writes, n) = r
  BY DEF SaveWrites
<1>2. k \in Nat /\ k <= Len(writes)
  OBVIOUS
<1> HIDE DEF k
<1>3. SubSeq(writes, 1, k) \in Seq(Seq(R))
  BY <1>2, SubSeqOfSeq
<1>4. bytes \in Seq(R)
  BY <1>3, FlattenType
<1>5. IsSequence(bytes)
  BY <1>4, SequenceIs
<1> HIDE DEF whole, bytes
<1>6. Stays(E, t, a)
  BY <1>5, PutFileStays
<1> HIDE DEF a
<1>7. Stays(E, a, r)
  <2>1. Fine(E, a) /\ b \in DOMAIN a.doc
    BY <1>6 DEF Stays, SameList
  <2> QED
    BY <2>1, SavedStays
<1> HIDE DEF r
<1> QED
  BY <1>1, <1>6, <1>7, Follows

(* Saving a document.                                                      *)
LEMMA SaveStays ==
  ASSUME NEW E, NEW t, Fine(E, t), NEW b \in DOMAIN t.doc, NEW name, NEW u, u.writes \in Nat
  PROVE  Stays(E, t, save_buffer_to_file(t, b, name, u))
<1>1. IsText(t.doc[b].lines)
  BY DocOf DEF IsDoc
<1>2. ASSUME NEW f PROVE Stays(E, t, SaveIn(t, b, f, u))
  <2> DEFINE d == t.doc[b]
             w == SaveBlocks(d.lines, d.opt, d.is_CRLF).writes
             a == SaveWrites(t, b, f, w, u.writes)
  <2>1. PICK R : w \in Seq(Seq(R))
    BY <1>1, SaveWritesType
  <2> HIDE DEF w
  <2>2. Stays(E, t, a)
    BY <2>1, SaveWritesStays
  <2>3. SaveIn(t, b, f, u) \in {a, Err(t, "FILE_IS_DIRECTORY"), Err(t, "CANT_OPEN_FILE")}
    BY DEF SaveIn, w
  <2> HIDE DEF a
  <2> QED
    BY <2>2, <2>3, ErrStays
<1> DEFINE path == IF name = None THEN t.doc[b].name ELSE name
           a == SaveIn(t, b, FileOf(path, Cwd), u)
<1>3. Stays(E, t, a)
  BY <1>2
<1>4. save_buffer_to_file(t, b, name, u) \in {a, Err(t, "DOCUMENT_IS_READ_ONLY"), Err(t, "ERROR")}
  BY DEF save_buffer_to_file
<1> HIDE DEF a
<1> QED
  BY <1>3, <1>4, ErrStays

(* One of the documents of a list is saved, if it has to be.               *)
LEMMA SaveOneStays ==
  ASSUME NEW E, NEW t, NEW st, Stays(E, t, st.s), NEW b \in DOMAIN t.doc, NEW u, u.writes \in Nat
  PROVE  Stays(E, t, SaveOne(st, b, u).s)
<1> DEFINE a == save_buffer_to_file(st.s, b, None, u)
<1>1. Stays(E, st.s, a)
  <2>1. Fine(E, st.s) /\ b \in DOMAIN st.s.doc
    BY DEF Stays, SameList
  <2> QED
    BY <2>1, SaveStays
<1>2. Tally(st.rc, a).s = a
  BY DEF Tally
<1>3. [st EXCEPT !.rc = "ERROR"].s = st.s
  OBVIOUS
<1>4. SaveOne(st, b, u) \in {st, [st EXCEPT !.rc = "ERROR"], Tally(st.rc, a)}
  BY DEF SaveOne
<1> HIDE DEF a
<1> QED
  BY <1>1, <1>2, <1>3, <1>4, Follows

(* All of them.                                                            *)
LEMMA SaveAllStays ==
  ASSUME NEW E, NEW t, Fine(E, t), NEW u, u.writes \in Nat
  PROVE  Stays(E, t, save_all_modified_buffers(t, u))
<1> DEFINE n == Len(t.order)
           b == [s |-> t, rc |-> OK]
           Next1(y, k) == SaveOne(y, t.order[k], u)
           Runs(k, f) == f = [i \in 0 .. k |-> IF i = 0 THEN b ELSE Next1(f[i - 1], i)]
           Ok(k) == \E f : Runs(k, f)
           c == CHOOSE f : Runs(n, f)
           T == {k \in 0 .. n : Ok(k)}
           U == {k \in 0 .. n : Stays(E, t, c[k].s)}
<1>1. n \in Nat /\ \A k \in 1 .. n : t.order[k] \in DOMAIN t.doc
  <2>1. t.order \in Seq(Docs) /\ ToSet(t.order) = DOMAIN t.doc
    BY DEF Fine, Listed, IsOrder
  <2> QED
    BY <2>1 DEF ToSet
<1>2. save_all_modified_buffers(t, u) = AllSaved(c[n])
  BY DEF save_all_modified_buffers
<1> HIDE DEF n, b, Next1
<1>3. 0 \in T
  <2>1. Runs(0, [i \in 0 .. 0 |-> b])
    OBVIOUS
  <2> HIDE DEF Runs
  <2> QED
    BY <1>1, <2>1
<1>4. ASSUME NEW k \in 1 .. n, k - 1 \in T PROVE k \in T
  <2>1. PICK f : Runs(k - 1, f)
    BY <1>4
  <2> DEFINE h == [i \in 0 .. k |-> IF i = k THEN Next1(f[k - 1], k) ELSE f[i]]
  <2>2. ASSUME NEW i \in 0 .. k PROVE h[i] = IF i = 0 THEN b ELSE Next1(h[i - 1], i)
    <3>1. CASE i = k
      <4>1. i # 0 /\ k - 1 \in 0 .. k /\ k - 1 # k
        BY <3>1
      <4>2. h[k - 1] = f[k - 1] /\ h[k] = Next1(f[k - 1], k)
        BY <4>1
      <4> QED
        BY <3>1, <4>1, <4>2
    <3>2. CASE i # k
      <4>1. i \in 0 .. k - 1 /\ (i # 0 => i - 1 \in 0 .. k /\ i - 1 # k)
        BY <3>2
      <4>2. f[i] = IF i = 0 THEN b ELSE Next1(f[i - 1], i)
        BY <2>1, <4>1
      <4>3. h[i] = f[i] /\ (i # 0 => h[i - 1] = f[i - 1])
        BY <3>2, <4>1
      <4> QED
        BY <4>2, <4>3
    <3> QED
      BY <3>1, <3>2
  <2>3. h = [i \in 0 .. k |-> h[i]]
    OBVIOUS
  <2> HIDE DEF h
  <2>4. Runs(k, h)
    BY <2>2, <2>3
  <2> HIDE DEF Runs
  <2> QED
    BY <1>1, <2>4
<1> HIDE DEF T
<1>5. \A k \in 0 .. n : k \in T
  BY ONLY <1>1, <1>3, <1>4, UpTo
<1>6. Runs(n, c)
  <2> HIDE DEF Runs, Ok
  <2>1. Ok(n)
    BY <1>1, <1>5 DEF T
  <2> QED
    BY <2>1 DEF Ok
<1> HIDE DEF c
<1>7. 0 \in U
  <2>1. c[0] = b
    BY <1>1, <1>6
  <2>2. c[0].s = t
    BY <2>1 DEF b
  <2> QED
    BY <1>1, <2>2, Follows
<1>8. ASSUME NEW k \in 1 .. n, k - 1 \in U PROVE k \in U
  <2>1. c[k] = Next1(c[k - 1], k) /\ Stays(E, t, c[k - 1].s) /\ k \in 0 .. n
    BY <1>6, <1>8
  <2>2. Stays(E, t, c[k].s)
    BY <1>1, <2>1, SaveOneStays DEF Next1
  <2> QED
    BY <2>1, <2>2
<1> HIDE DEF U
<1>9. n \in U
  BY ONLY <1>1, <1>7, <1>8, UpTo
<1>10. Stays(E, t, c[n].s)
  BY <1>9 DEF U
<1>11. Stays(E, c[n].s, AllSaved(c[n]))
  BY <1>10, ErrStays DEF AllSaved, Stays
<1> QED
  BY <1>2, <1>10, <1>11, Follows
-----------------------------------------------------------------------------
(* A file is loaded in the current document.                               *)
LEMMA LoadStays ==
  ASSUME NEW E, NEW t, Fine(E, t), NEW name
  PROVE  Stays(E, t, load_file_in_buffer(t, name))
<1> DEFINE f == FileOf(name, Cwd)
           old == CurDoc(t)
           loaded == load_fd_in_buffer(old, t.disk[f].bytes)
           d == [loaded EXCEPT !.mtime = t.disk[f].mtime, !.seen = t.disk[f].version,
                               !.opt.read_only = ~t.disk[f].writable]
           a == Err(t, OK)
           r == [a EXCEPT !.doc = [a.doc EXCEPT ![t.cur] = d]]
<1>1. /\ t.cur \in DOMAIN t.doc /\ DOMAIN t = Fields /\ IsDoc(old) /\ old = t.doc[t.cur]
      /\ (t.cur \in E \/ ~old.exec_only_options) /\ AreFiles(t.disk)
  BY DocOf DEF CurDoc, Fine, Held
<1>2. load_file_in_buffer(t, name) =
        IF f \in Dirs THEN Err(t, "FILE_IS_DIRECTORY")
        ELSE IF ~Exists(t, f) THEN Err(t, "FILE_DOES_NOT_EXIST") ELSE r
  <2>1. r = [t EXCEPT !.error = OK, !.doc[t.cur] = d]
    BY <1>1 DEF Err, Fields
  <2> HIDE DEF r
  <2> QED
    BY <2>1 DEF load_file_in_buffer
<1>3. CASE f \notin Dirs /\ Exists(t, f)
  <2>1. IsSequence(t.disk[f].bytes)
    BY <1>1, <1>3 DEF AreFiles, Exists
  <2>2. IsDoc(loaded) /\ loaded.exec_only_options = old.exec_only_options
    <3> DEFINE bytes == t.disk[f].bytes
               l == LoadInMemory(bytes, old.opt)
    <3>1. IsText(l.lines)
      BY <2>1, LoadedIsText
    <3>2. IsText(<< <<>> >>)
      <4>1. <<>> \in Seq({}) /\ << <<>> >> \in Seq(Seq({})) /\ Len(<< <<>> >>) # 0
        OBVIOUS
      <4> QED
        BY <4>1, TextIs
    <3> HIDE DEF l, bytes
    <3>3. IsDoc(clear_buffer(old)) /\ clear_buffer(old).exec_only_options = old.exec_only_options
      BY <1>1, <3>2 DEF clear_buffer, free_buffer_contents, IsDoc, DocFields
    <3> DEFINE e == [free_buffer_contents(old) EXCEPT !.lines = l.lines, !.is_CRLF = l.crlf, !.at = 1]
    <3>4. IsDoc(e) /\ e.exec_only_options = old.exec_only_options
      BY <1>1, <3>1 DEF free_buffer_contents, IsDoc, DocFields
    <3>5. loaded = IF bytes = <<>> THEN clear_buffer(old) ELSE e
      BY DEF load_fd_in_buffer, bytes, l
    <3> HIDE DEF e, loaded
    <3> QED
      BY <3>3, <3>4, <3>5
  <2> HIDE DEF loaded
  <2>3. IsDoc(d) /\ d.exec_only_options = old.exec_only_options
    BY <2>2 DEF IsDoc, DocFields
  <2>4. Stays(E, t, a) /\ a.doc = t.doc
    BY <1>1, ErrStays DEF Err, Fields
  <2>5. r = [a EXCEPT !.doc = [a.doc EXCEPT ![t.cur] = d]]
    OBVIOUS
  <2> HIDE DEF a, d, r
  <2>6. Stays(E, a, r)
    <3>1. Fine(E, a)
      BY <2>4 DEF Stays
    <3>2. t.cur \in DOMAIN a.doc /\ (t.cur \in E \/ ~d.exec_only_options)
      BY <1>1, <2>3, <2>4
    <3> HIDE DEF old
    <3> QED
      BY <2>3, <2>5, <3>1, <3>2, DocStays
  <2>7. load_file_in_buffer(t, name) = r
    BY <1>2, <1>3
  <2> QED
    BY <2>4, <2>6, <2>7, Follows
<1>4. CASE f \in Dirs \/ ~Exists(t, f)
  <2>1. load_file_in_buffer(t, name) \in {Err(t, "FILE_IS_DIRECTORY"), Err(t, "FILE_DOES_NOT_EXIST")}
    BY <1>2, <1>4
  <2> QED
    BY <2>1, ErrStays
<1> QED
  BY <1>3, <1>4

-----------------------------------------------------------------------------
(* Another current document.                                               *)
LEMMA CurStays ==
  ASSUME NEW E, NEW t, Fine(E, t), NEW d, IsDoc(d), d.exec_only_options = CurDoc(t).exec_only_options,
         NEW r, r = [t EXCEPT !.doc = [t.doc EXCEPT ![t.cur] = d]]
  PROVE  Stays(E, t, r) /\ CurDoc(r) = d
<1>1. t.cur \in DOMAIN t.doc /\ (t.cur \in E \/ ~d.exec_only_options)
  BY DocOf DEF CurDoc
<1>2. Stays(E, t, r) /\ r.doc[t.cur] = d
  BY <1>1, DocStays
<1> QED
  BY <1>2 DEF CurDoc, Stays, SameList

(* The same text and the same macro.                                       *)
LEMMA SideStays ==
  ASSUME NEW E, NEW t, Fine(E, t), NEW d, DOMAIN d = DocFields,
         d.lines = CurDoc(t).lines, d.cur_macro = CurDoc(t).cur_macro,
         d.exec_only_options = CurDoc(t).exec_only_options,
         NEW r, r = [t EXCEPT !.doc = [t.doc EXCEPT ![t.cur] = d]]
  PROVE  Stays(E, t, r)
<1>1. IsDoc(d)
  BY DocOf DEF IsDoc
<1> QED
  BY <1>1, CurStays

(* A name, a syntax, an option, a mark, a position.                        *)
LEMMA MarksStay ==
  ASSUME NEW E, NEW t, Fine(E, t), NEW v, NEW w, NEW o
  PROVE  /\ Stays(E, t, [t EXCEPT !.doc[t.cur].name = v]) /\ Stays(E, t, [t EXCEPT !.doc[t.cur].syn = v])
         /\ Stays(E, t, [t EXCEPT !.doc[t.cur].is_modified = v]) /\ Stays(E, t, [t EXCEPT !.doc[t.cur].is_CRLF = v])
         /\ Stays(E, t, [t EXCEPT !.doc[t.cur].opt = v]) /\ Stays(E, t, [t EXCEPT !.doc[t.cur].opt[o] = v])
         /\ Stays(E, t, [t EXCEPT !.doc[t.cur].at = v])
         /\ Stays(E, t, [t EXCEPT !.doc[t.cur] = [@ EXCEPT !.name = v, !.syn = w]])
<1>1. /\ DOMAIN t = Fields /\ t.cur \in DOMAIN t.doc /\ DOMAIN CurDoc(t) = DocFields
  BY DocOf DEF IsDoc
<1> DEFINE old == CurDoc(t)
<1>2. ASSUME NEW d, DOMAIN d = DocFields, d.lines = old.lines, d.cur_macro = old.cur_macro,
             d.exec_only_options = old.exec_only_options
      PROVE  Stays(E, t, [t EXCEPT !.doc = [t.doc EXCEPT ![t.cur] = d]])
  <2> DEFINE r == [t EXCEPT !.doc = [t.doc EXCEPT ![t.cur] = d]]
  <2>1. r = [t EXCEPT !.doc = [t.doc EXCEPT ![t.cur] = d]]
    OBVIOUS
  <2> HIDE DEF r
  <2>2. Stays(E, t, r)
    BY <1>2, <2>1, SideStays
  <2> QED
    BY <2>2 DEF r
<1>3. Stays(E, t, [t EXCEPT !.doc[t.cur].name = v])
  <2> DEFINE d == [old EXCEPT !.name = v]
  <2>1. Stays(E, t, [t EXCEPT !.doc = [t.doc EXCEPT ![t.cur] = d]])
    BY <1>1, <1>2 DEF DocFields
  <2> QED
    BY <2>1 DEF CurDoc
<1>4. Stays(E, t, [t EXCEPT !.doc[t.cur].syn = v])
  <2> DEFINE d == [old EXCEPT !.syn = v]
  <2>1. Stays(E, t, [t EXCEPT !.doc = [t.doc EXCEPT ![t.cur] = d]])
    BY <1>1, <1>2 DEF DocFields
  <2> QED
    BY <2>1 DEF CurDoc
<1>5. Stays(E, t, [t EXCEPT !.doc[t.cur].is_modified = v])
  <2> DEFINE d == [old EXCEPT !.is_modified = v]
  <2>1. Stays(E, t, [t EXCEPT !.doc = [t.doc EXCEPT ![t.cur] = d]])
    BY <1>1, <1>2 DEF DocFields
  <2> QED
    BY <2>1 DEF CurDoc
<1>6. Stays(E, t, [t EXCEPT !.doc[t.cur].is_CRLF = v])
  <2> DEFINE d == [old EXCEPT !.is_CRLF = v]
  <2>1. Stays(E, t, [t EXCEPT !.doc = [t.doc EXCEPT ![t.cur] = d]])
    BY <1>1, <1>2 DEF DocFields
  <2> QED
    BY <2>1 DEF CurDoc
<1>7. \A x : Stays(E, t, [t EXCEPT !.doc[t.cur].opt = x])
  <2> SUFFICES ASSUME NEW x PROVE Stays(E, t, [t EXCEPT !.doc[t.cur].opt = x])
    OBVIOUS
  <2> DEFINE d == [old EXCEPT !.opt = x]
  <2>1. Stays(E, t, [t EXCEPT !.doc = [t.doc EXCEPT ![t.cur] = d]])
    BY <1>1, <1>2 DEF DocFields
  <2> QED
    BY <2>1 DEF CurDoc
<1>8. Stays(E, t, [t EXCEPT !.doc[t.cur].opt[o] = v])
  <2> DEFINE d == [old EXCEPT !.opt = [old.opt EXCEPT ![o] = v]]
  <2>1. Stays(E, t, [t EXCEPT !.doc = [t.doc EXCEPT ![t.cur] = d]])
    BY <1>1, <1>2 DEF DocFields
  <2> QED
    BY <2>1 DEF CurDoc
<1>9. Stays(E, t, [t EXCEPT !.doc[t.cur].at = v])
  <2> DEFINE d == [old EXCEPT !.at = v]
  <2>1. Stays(E, t, [t EXCEPT !.doc = [t.doc EXCEPT ![t.cur] = d]])
    BY <1>1, <1>2 DEF DocFields
  <2> QED
    BY <2>1 DEF CurDoc
<1>10. Stays(E, t, [t EXCEPT !.doc[t.cur] = [@ EXCEPT !.name = v, !.syn = w]])
  <2> DEFINE d == [old EXCEPT !.name = v, !.syn = w]
  <2>1. Stays(E, t, [t EXCEPT !.doc = [t.doc EXCEPT ![t.cur] = d]])
    BY <1>1, <1>2 DEF DocFields
  <2> QED
    BY <2>1 DEF CurDoc
<1> QED
  BY <1>3, <1>4, <1>5, <1>6, <1>7, <1>8, <1>9, <1>10

(* Another macro.                                                          *)
LEMMA MacroStays ==
  ASSUME NEW E, NEW t, Fine(E, t), NEW v, AreLines(v)
  PROVE  Stays(E, t, [t EXCEPT !.doc[t.cur].cur_macro = v])
<1> DEFINE d == [CurDoc(t) EXCEPT !.cur_macro = v]
           r == [t EXCEPT !.doc[t.cur].cur_macro = v]
<1>1. IsDoc(d) /\ d.exec_only_options = CurDoc(t).exec_only_options
  BY DocOf DEF IsDoc, DocFields
<1>2. r = [t EXCEPT !.doc = [t.doc EXCEPT ![t.cur] = d]]
  BY DEF CurDoc
<1> HIDE DEF r, d
<1>3. Stays(E, t, r)
  BY <1>1, <1>2, CurStays
<1> QED
  BY <1>3 DEF r

(* Typing at the end of the text.                                          *)
LEMMA TypeStays ==
  ASSUME NEW E, NEW t, Fine(E, t), NEW text, IsSequence(text)
  PROVE  Stays(E, t, Type(t, text))
<1> DEFINE old == CurDoc(t)
           n == Len(old.lines)
           line == old.lines[n] \o text
           lines == [old.lines EXCEPT ![n] = line]
           d == [old EXCEPT !.lines = lines, !.is_modified = TRUE]
           r == [t EXCEPT !.doc = [t.doc EXCEPT ![t.cur] = d]]
<1>1. IsDoc(old) /\ t.cur \in DOMAIN t.doc /\ DOMAIN t = Fields /\ DOMAIN old = DocFields
  BY DocOf DEF IsDoc
<1>2. /\ IsSequence(old.lines) /\ old.lines # <<>> /\ \A i \in DOMAIN old.lines : IsSequence(old.lines[i])
      /\ AreLines(old.cur_macro)
  BY <1>1 DEF IsDoc, IsText
<1>3. Type(t, text) = IF old.opt.read_only THEN Err(t, "DOCUMENT_IS_READ_ONLY") ELSE r
  <2>1. r = [t EXCEPT !.doc[t.cur].lines[n] = @ \o text, !.doc[t.cur].is_modified = TRUE]
    BY <1>1 DEF CurDoc, Fields, DocFields
  <2> HIDE DEF r
  <2> QED
    BY <2>1 DEF Type
<1> HIDE DEF old
<1>4. n \in DOMAIN old.lines
  <2>1. n \in Nat /\ DOMAIN old.lines = 1 .. n /\ old.lines \in Seq(ToSet(old.lines))
    BY <1>2, SequenceIs
  <2>2. n # 0
    BY <1>2, <2>1
  <2> QED
    BY <2>1, <2>2
<1> HIDE DEF n
<1>5. IsSequence(line)
  BY <1>2, <1>4, SequenceJoined
<1> HIDE DEF line
<1>6. IsText(lines)
  <2>1. /\ IsSequence(lines) /\ DOMAIN lines = DOMAIN old.lines
        /\ \A i \in DOMAIN old.lines : lines[i] = IF i = n THEN line ELSE old.lines[i]
    BY <1>2, SequenceReplaced
  <2> HIDE DEF lines
  <2>2. lines # <<>>
    <3>1. DOMAIN <<>> = {}
      OBVIOUS
    <3> QED
      BY <1>4, <2>1, <3>1
  <2> QED
    BY <1>2, <1>5, <2>1, <2>2 DEF IsText
<1> HIDE DEF lines
<1>7. IsDoc(d) /\ d.exec_only_options = old.exec_only_options
  BY <1>1, <1>2, <1>6 DEF IsDoc, DocFields
<1>8. r = [t EXCEPT !.doc = [t.doc EXCEPT ![t.cur] = d]]
  OBVIOUS
<1> HIDE DEF d, r
<1>9. Stays(E, t, r)
  BY <1>7, <1>8, CurStays DEF old
<1> QED
  BY <1>3, <1>9, ErrStays

(* An empty text.                                                          *)
LEMMA ClearStays ==
  ASSUME NEW E, NEW t, Fine(E, t)
  PROVE  Stays(E, t, [t EXCEPT !.doc[t.cur] = clear_buffer(@)])
<1> DEFINE d == clear_buffer(CurDoc(t))
           r == [t EXCEPT !.doc[t.cur] = clear_buffer(@)]
<1>1. IsText(<< <<>> >>)
  <2>1. <<>> \in Seq({}) /\ << <<>> >> \in Seq(Seq({})) /\ Len(<< <<>> >>) # 0
    OBVIOUS
  <2> QED
    BY <2>1, TextIs
<1>2. IsDoc(CurDoc(t)) /\ r = [t EXCEPT !.doc = [t.doc EXCEPT ![t.cur] = d]]
  BY DocOf DEF CurDoc
<1>3. IsDoc(d) /\ d.exec_only_options = CurDoc(t).exec_only_options
  BY <1>1, <1>2 DEF clear_buffer, free_buffer_contents, IsDoc, DocFields
<1> HIDE DEF d, r
<1>4. Stays(E, t, r)
  BY <1>2, <1>3, CurStays
<1> QED
  BY <1>4 DEF r

-----------------------------------------------------------------------------
(* The list of documents.  Each of them is in one place.                   *)
LEMMA OrderIs ==
  ASSUME NEW D, NEW q, IsOrder(D, q)
  PROVE  /\ IsSequence(q) /\ Len(q) \in Nat /\ DOMAIN q = 1 .. Len(q) /\ D \subseteq Docs
         /\ \A i \in 1 .. Len(q) : q[i] \in D
         /\ \A i, j \in 1 .. Len(q) : q[i] = q[j] => i = j
         /\ \A b \in D : PlaceIn(q, b) \in 1 .. Len(q) /\ q[PlaceIn(q, b)] = b
         /\ D # {} => Len(q) > 0
<1>1. q \in Seq(Docs) /\ ToSet(q) = D /\ IsInjective(q)
  BY DEF IsOrder
<1>2. IsSequence(q) /\ Len(q) \in Nat /\ DOMAIN q = 1 .. Len(q)
  BY <1>1, SequenceIs
<1>3. D \subseteq Docs /\ \A i \in 1 .. Len(q) : q[i] \in D
  BY <1>1, <1>2 DEF ToSet
<1>4. \A i, j \in 1 .. Len(q) : q[i] = q[j] => i = j
  BY <1>1, <1>2 DEF IsInjective
<1>5. ASSUME NEW b \in D PROVE PlaceIn(q, b) \in 1 .. Len(q) /\ q[PlaceIn(q, b)] = b
  <2>1. \E i \in DOMAIN q : q[i] = b
    BY <1>1 DEF ToSet
  <2> QED
    BY <1>2, <2>1 DEF PlaceIn
<1>6. D # {} => Len(q) > 0
  BY <1>2, <1>5
<1> QED
  BY <1>2, <1>3, <1>4, <1>5, <1>6

(* An order of documents, place by place.                                  *)
LEMMA IsOrderIf ==
  ASSUME NEW D \in SUBSET Docs, NEW q, IsSequence(q), \A i \in 1 .. Len(q) : q[i] \in D,
         \A b \in D : \E i \in 1 .. Len(q) : q[i] = b,
         \A i, j \in 1 .. Len(q) : q[i] = q[j] => i = j
  PROVE  IsOrder(D, q)
<1>1. Len(q) \in Nat /\ DOMAIN q = 1 .. Len(q) /\ q \in Seq(ToSet(q))
  BY SequenceIs
<1>2. ToSet(q) = D
  BY <1>1 DEF ToSet
<1>3. q \in Seq(Docs)
  <2>1. \A S, T, x : x \in Seq(S) /\ S \subseteq T => x \in Seq(T)
    OBVIOUS
  <2> QED
    BY <1>1, <1>2, <2>1
<1>4. IsInjective(q)
  BY <1>1 DEF IsInjective
<1> QED
  BY <1>2, <1>3, <1>4 DEF IsOrder

(* A document leaves the list.                                             *)
LEMMA WithoutOrder ==
  ASSUME NEW D, NEW q, IsOrder(D, q), NEW b
  PROVE  IsOrder(D \ {b}, Without(q, b))
<1> DEFINE n == Len(q)
           k == PlaceIn(q, b)
           r == RemoveAt(q, k)
<1>1. /\ IsSequence(q) /\ n \in Nat /\ DOMAIN q = 1 .. n /\ D \subseteq Docs /\ ToSet(q) = D
      /\ \A i \in 1 .. n : q[i] \in D
      /\ \A i, j \in 1 .. n : q[i] = q[j] => i = j
      /\ \A c \in D : PlaceIn(q, c) \in 1 .. n /\ q[PlaceIn(q, c)] = c
  BY OrderIs DEF IsOrder
<1>2. CASE b \notin D
  <2>1. D \ {b} = D /\ Without(q, b) = q
    BY <1>1, <1>2 DEF Without
  <2> QED
    BY <2>1
<1>3. CASE b \in D
  <2>1. k \in 1 .. n /\ q[k] = b
    BY <1>1, <1>3
  <2>2. r = SubSeq(q, 1, k - 1) \o SubSeq(q, k + 1, n)
    BY DEF RemoveAt
  <2> HIDE DEF k, n, r
  <2>3. /\ IsSequence(SubSeq(q, 1, k - 1)) /\ Len(SubSeq(q, 1, k - 1)) = k - 1
        /\ \A i \in 1 .. k - 1 : SubSeq(q, 1, k - 1)[i] = q[i]
    <3>1. k - 1 \in Int /\ k - 1 <= Len(q) /\ 1 \in Nat \ {0}
      BY <1>1, <2>1 DEF n
    <3> QED
      BY <1>1, <2>1, <3>1, SequencePart
  <2>4. /\ IsSequence(SubSeq(q, k + 1, n)) /\ Len(SubSeq(q, k + 1, n)) = n - k
        /\ \A i \in 1 .. n - k : SubSeq(q, k + 1, n)[i] = q[k + i]
    <3>1. k + 1 \in Nat \ {0} /\ n \in Int /\ n <= Len(q)
      BY <1>1, <2>1 DEF n
    <3> QED
      BY <1>1, <2>1, <3>1, SequencePart
  <2>5. /\ IsSequence(r) /\ Len(r) = n - 1
        /\ \A i \in 1 .. n - 1 : r[i] = IF i < k THEN q[i] ELSE q[i + 1]
    <3> DEFINE head == SubSeq(q, 1, k - 1)
               tail == SubSeq(q, k + 1, n)
    <3>a. /\ IsSequence(head) /\ IsSequence(tail) /\ Len(head) = k - 1 /\ Len(tail) = n - k
          /\ r = head \o tail
      BY <2>2, <2>3, <2>4
    <3> HIDE DEF head, tail
    <3>b. /\ IsSequence(head \o tail) /\ Len(head \o tail) = Len(head) + Len(tail)
          /\ \A i \in 1 .. Len(head) + Len(tail) :
               (head \o tail)[i] = IF i <= Len(head) THEN head[i] ELSE tail[i - Len(head)]
      BY ONLY <3>a, SequenceJoined
    <3>c. /\ IsSequence(r) /\ Len(r) = (k - 1) + (n - k)
          /\ \A i \in 1 .. (k - 1) + (n - k) : r[i] = IF i <= k - 1 THEN head[i] ELSE tail[i - (k - 1)]
      BY ONLY <3>a, <3>b
    <3>1. /\ IsSequence(r) /\ Len(r) = (k - 1) + (n - k)
          /\ \A i \in 1 .. (k - 1) + (n - k) :
               r[i] = IF i <= k - 1 THEN SubSeq(q, 1, k - 1)[i] ELSE SubSeq(q, k + 1, n)[i - (k - 1)]
      BY ONLY <3>c DEF head, tail
    <3>2. (k - 1) + (n - k) = n - 1
      BY <1>1, <2>1
    <3>3. ASSUME NEW i \in 1 .. n - 1 PROVE r[i] = IF i < k THEN q[i] ELSE q[i + 1]
      <4>1. CASE i < k
        BY <1>1, <2>1, <2>3, <3>1, <3>2, <4>1
      <4>2. CASE ~(i < k)
        <5>1. i - (k - 1) \in 1 .. n - k /\ k + (i - (k - 1)) = i + 1 /\ ~(i <= k - 1)
          BY <1>1, <2>1, <4>2
        <5> QED
          BY <2>4, <3>1, <3>2, <4>2, <5>1
      <4> QED
        BY <4>1, <4>2
    <3> QED
      BY <3>1, <3>2, <3>3
  <2>6. ASSUME NEW i \in 1 .. Len(r) PROVE r[i] \in D \ {b}
    <3>1. i \in 1 .. n /\ i + 1 \in 1 .. n
      BY <1>1, <2>5
    <3> QED
      BY <1>1, <2>1, <2>5, <3>1
  <2>7. ASSUME NEW c \in D \ {b} PROVE \E i \in 1 .. Len(r) : r[i] = c
    <3>1. PICK j \in 1 .. n : q[j] = c
      BY <1>1
    <3>2. CASE j < k
      <4>1. j \in 1 .. n - 1
        BY <1>1, <2>1, <3>2
      <4> QED
        BY <2>5, <3>1, <3>2, <4>1
    <3>3. CASE ~(j < k)
      <4>1. j # k
        BY <2>1, <3>1
      <4>2. j - 1 \in 1 .. n - 1 /\ ~(j - 1 < k) /\ (j - 1) + 1 = j
        BY <1>1, <2>1, <3>3, <4>1
      <4> QED
        BY <2>5, <3>1, <4>2
    <3> QED
      BY <3>2, <3>3
  <2>8. ASSUME NEW i \in 1 .. Len(r), NEW j \in 1 .. Len(r), r[i] = r[j] PROVE i = j
    <3>1. i \in 1 .. n /\ i + 1 \in 1 .. n /\ j \in 1 .. n /\ j + 1 \in 1 .. n
      BY <1>1, <2>5
    <3> QED
      BY <1>1, <2>1, <2>5, <2>8, <3>1
  <2>9. Without(q, b) = r
    BY <1>1, <1>3 DEF Without, r, k
  <2>10. D \ {b} \in SUBSET Docs
    BY <1>1
  <2>11. IsOrder(D \ {b}, r)
    BY <2>5, <2>6, <2>7, <2>8, <2>10, IsOrderIf
  <2> QED
    BY <2>9, <2>11
<1> QED
  BY <1>2, <1>3

(* A document comes last.                                                  *)
LEMMA AppendOrder ==
  ASSUME NEW D, NEW q, IsOrder(D, q), NEW b \in Docs \ D
  PROVE  IsOrder(D \cup {b}, Append(q, b))
<1> DEFINE n == Len(q)
           r == Append(q, b)
<1>1. /\ IsSequence(q) /\ n \in Nat /\ D \subseteq Docs
      /\ \A i \in 1 .. n : q[i] \in D
      /\ \A i, j \in 1 .. n : q[i] = q[j] => i = j
      /\ \A c \in D : \E i \in 1 .. n : q[i] = c
  BY OrderIs
<1>2. IsSequence(r) /\ Len(r) = n + 1 /\ \A i \in 1 .. n + 1 : r[i] = IF i = n + 1 THEN b ELSE q[i]
  BY <1>1, SequenceExtended
<1> HIDE DEF n, r
<1>3. ASSUME NEW i \in 1 .. Len(r) PROVE r[i] \in D \cup {b}
  BY <1>1, <1>2
<1>4. ASSUME NEW c \in D \cup {b} PROVE \E i \in 1 .. Len(r) : r[i] = c
  <2>1. CASE c = b
    BY <1>1, <1>2, <2>1
  <2>2. CASE c \in D
    <3>1. PICK i \in 1 .. n : q[i] = c
      BY <1>1, <2>2
    <3>2. i \in 1 .. Len(r) /\ i # n + 1
      BY <1>1, <1>2
    <3> QED
      BY <1>2, <3>1, <3>2
  <2> QED
    BY <2>1, <2>2
<1>5. ASSUME NEW i \in 1 .. Len(r), NEW j \in 1 .. Len(r), r[i] = r[j] PROVE i = j
  <2>1. (i = n + 1 \/ i \in 1 .. n) /\ (j = n + 1 \/ j \in 1 .. n)
    BY <1>1, <1>2
  <2> QED
    BY <1>1, <1>2, <1>5, <2>1
<1>6. D \cup {b} \in SUBSET Docs
  BY <1>1
<1>7. IsOrder(D \cup {b}, r)
  BY <1>2, <1>3, <1>4, <1>5, <1>6, IsOrderIf
<1> QED
  BY <1>7 DEF r

(* A document comes after another one, or first.                           *)
LEMMA InsertOrder ==
  ASSUME NEW D, NEW q, IsOrder(D, q), NEW b \in Docs \ D, NEW at \in 0 .. Len(q)
  PROVE  LET r == InsertAt(q, at + 1, b)
         IN  IsOrder(D \cup {b}, r) /\ Len(r) = Len(q) + 1 /\ PlaceIn(r, b) = at + 1
<1> DEFINE n == Len(q)
           r == InsertAt(q, at + 1, b)
           head == SubSeq(q, 1, at)
           tail == SubSeq(q, at + 1, n)
<1>1. /\ IsSequence(q) /\ n \in Nat /\ D \subseteq Docs
      /\ \A i \in 1 .. n : q[i] \in D
      /\ \A i, j \in 1 .. n : q[i] = q[j] => i = j
      /\ \A c \in D : \E i \in 1 .. n : q[i] = c
  BY OrderIs
<1>2. at \in Nat /\ at <= n /\ at + 1 \in Nat \ {0} /\ at + 1 - 1 = at
  BY <1>1
<1>3. r = head \o <<b>> \o tail
  <2> DEFINE m == at + 1
  <2>1. m - 1 = at /\ r = InsertAt(q, m, b) /\ tail = SubSeq(q, m, Len(q))
    BY <1>2
  <2> HIDE DEF m, r, head, tail
  <2>2. r = SubSeq(q, 1, m - 1) \o <<b>> \o SubSeq(q, m, Len(q))
    BY ONLY <2>1 DEF InsertAt
  <2> QED
    BY ONLY <2>1, <2>2 DEF head
<1>4. IsSequence(head) /\ Len(head) = at /\ \A i \in 1 .. at : head[i] = q[i]
  BY <1>1, <1>2, SequencePart
<1>5. IsSequence(tail) /\ Len(tail) = n - at /\ \A i \in 1 .. n - at : tail[i] = q[at + i]
  BY <1>1, <1>2, SequencePart
<1> HIDE DEF n, r, head, tail
<1> DEFINE more == head \o <<b>>
<1>6. IsSequence(<<b>>) /\ Len(<<b>>) = 1 /\ <<b>>[1] = b
  BY ShortSequences
<1>7. IsSequence(more) /\ Len(more) = at + 1 /\ \A i \in 1 .. at + 1 : more[i] = IF i <= at THEN q[i] ELSE b
  <2>1. /\ IsSequence(more) /\ Len(more) = at + 1
        /\ \A i \in 1 .. at + 1 : more[i] = IF i <= at THEN head[i] ELSE <<b>>[i - at]
    BY <1>4, <1>6, SequenceJoined
  <2> HIDE DEF more
  <2>2. ASSUME NEW i \in 1 .. at + 1 PROVE more[i] = IF i <= at THEN q[i] ELSE b
    <3>1. i <= at \/ i - at = 1
      BY <1>2
    <3> QED
      BY <1>2, <1>4, <1>6, <2>1, <3>1
  <2> QED
    BY <2>1, <2>2
<1>8. r = more \o tail
  BY <1>3
<1> HIDE DEF more
<1>9. /\ IsSequence(r) /\ Len(r) = n + 1
      /\ \A i \in 1 .. n + 1 : r[i] = IF i <= at THEN q[i] ELSE IF i = at + 1 THEN b ELSE q[i - 1]
  <2>1. /\ IsSequence(r) /\ Len(r) = (at + 1) + (n - at)
        /\ \A i \in 1 .. (at + 1) + (n - at) : r[i] = IF i <= at + 1 THEN more[i] ELSE tail[i - (at + 1)]
    <3>1. /\ IsSequence(more \o tail) /\ Len(more \o tail) = Len(more) + Len(tail)
          /\ \A i \in 1 .. Len(more) + Len(tail) :
               (more \o tail)[i] = IF i <= Len(more) THEN more[i] ELSE tail[i - Len(more)]
      BY ONLY <1>5, <1>7, SequenceJoined
    <3> QED
      BY ONLY <1>5, <1>7, <1>8, <3>1
  <2>2. (at + 1) + (n - at) = n + 1
    BY <1>1, <1>2
  <2>3. ASSUME NEW i \in 1 .. n + 1 PROVE r[i] = IF i <= at THEN q[i] ELSE IF i = at + 1 THEN b ELSE q[i - 1]
    <3>1. CASE i <= at + 1
      BY <1>2, <1>7, <2>1, <2>2, <3>1
    <3>2. CASE ~(i <= at + 1)
      <4>1. i - (at + 1) \in 1 .. n - at /\ at + (i - (at + 1)) = i - 1 /\ ~(i <= at) /\ i # at + 1
        BY <1>1, <1>2, <3>2
      <4> QED
        BY <1>5, <2>1, <2>2, <3>2, <4>1
    <3> QED
      BY <3>1, <3>2
  <2> QED
    BY <2>1, <2>2, <2>3
<1>10. ASSUME NEW i \in 1 .. Len(r) PROVE r[i] \in D \cup {b}
  <2>1. i = at + 1 \/ (i <= at /\ i \in 1 .. n) \/ (~(i <= at) /\ i - 1 \in 1 .. n)
    BY <1>1, <1>2, <1>9
  <2> QED
    BY <1>1, <1>9, <2>1
<1>11. ASSUME NEW c \in D \cup {b} PROVE \E i \in 1 .. Len(r) : r[i] = c
  <2>1. CASE c = b
    <3>1. at + 1 \in 1 .. n + 1 /\ ~(at + 1 <= at)
      BY <1>1, <1>2
    <3> QED
      BY <1>9, <2>1, <3>1
  <2>2. CASE c \in D
    <3>1. PICK i \in 1 .. n : q[i] = c
      BY <1>1, <2>2
    <3>2. CASE i <= at
      <4>1. i \in 1 .. n + 1
        BY <1>1
      <4> QED
        BY <1>9, <3>1, <3>2, <4>1
    <3>3. CASE ~(i <= at)
      <4>1. i + 1 \in 1 .. n + 1 /\ ~(i + 1 <= at) /\ i + 1 # at + 1 /\ (i + 1) - 1 = i
        BY <1>1, <1>2, <3>3
      <4> QED
        BY <1>9, <3>1, <4>1
    <3> QED
      BY <3>2, <3>3
  <2> QED
    BY <2>1, <2>2
<1>12. ASSUME NEW i \in 1 .. Len(r), NEW j \in 1 .. Len(r), r[i] = r[j] PROVE i = j
  <2>1. i = at + 1 \/ (i <= at /\ i \in 1 .. n) \/ (~(i <= at) /\ i - 1 \in 1 .. n)
    BY <1>1, <1>2, <1>9
  <2>2. j = at + 1 \/ (j <= at /\ j \in 1 .. n) \/ (~(j <= at) /\ j - 1 \in 1 .. n)
    BY <1>1, <1>2, <1>9
  <2>3. ASSUME NEW k \in 1 .. n PROVE q[k] # b
    BY <1>1
  <2> QED
    BY <1>1, <1>2, <1>9, <1>12, <2>1, <2>2, <2>3
<1>13. D \cup {b} \in SUBSET Docs
  BY <1>1
<1>14. IsOrder(D \cup {b}, r)
  BY <1>9, <1>10, <1>11, <1>12, <1>13, IsOrderIf
<1>15. PlaceIn(r, b) = at + 1
  <2>1. PlaceIn(r, b) \in 1 .. n + 1 /\ r[PlaceIn(r, b)] = b
    BY <1>9, <1>14, OrderIs
  <2>2. at + 1 \in 1 .. n + 1 /\ r[at + 1] = b
    BY <1>1, <1>2, <1>9
  <2> QED
    BY <1>9, <1>12, <2>1, <2>2
<1> QED
  BY <1>9, <1>14, <1>15 DEF r, n

-----------------------------------------------------------------------------
(* Only the order in which the documents were used is different.           *)
SameButRecent(t, r) ==
  /\ r.order = t.order /\ r.cur = t.cur /\ r.doc = t.doc /\ r.mode = t.mode /\ r.frames = t.frames
  /\ r.error = t.error

(* A document becomes the one used last.                                   *)
LEMMA ActuateIs ==
  ASSUME NEW E, NEW t, Held(E, t), NEW D, IsOrder(D, t.recent), NEW b \in Docs, NEW r, r = Actuate(t, b)
  PROVE  Held(E, r) /\ IsOrder(D \cup {b}, r.recent) /\ SameButRecent(t, r)
<1> DEFINE q == Append(Without(t.recent, b), b)
<1>1. DOMAIN t = Fields
  BY DEF Held
<1>2. IsOrder(D \cup {b}, q)
  <2>1. IsOrder(D \ {b}, Without(t.recent, b))
    BY WithoutOrder
  <2>2. IsOrder((D \ {b}) \cup {b}, q)
    BY <2>1, AppendOrder
  <2>3. (D \ {b}) \cup {b} = D \cup {b}
    OBVIOUS
  <2> QED
    BY <2>2, <2>3
<1>3. r = [t EXCEPT !.recent = q]
  BY DEF Actuate
<1> HIDE DEF q
<1>4. /\ DOMAIN r = Fields /\ r.recent = q /\ SameButRecent(t, r) /\ r.disk = t.disk
      /\ r.scripts = t.scripts /\ r.macros = t.macros /\ r.recording = t.recording /\ r.pstack = t.pstack
  BY <1>1, <1>3 DEF Fields, SameButRecent
<1>5. Held(E, r)
  BY <1>4 DEF Held, SameButRecent
<1> QED
  BY <1>2, <1>4, <1>5

(* Another document becomes the current one.                               *)
LEMMA SwitchGoes ==
  ASSUME NEW E, NEW t, Fine(E, t), NEW b \in DOMAIN t.doc, NEW r, r = Actuate([t EXCEPT !.cur = b], b)
  PROVE  Goes(E, t, r) /\ r.order = t.order /\ r.error = t.error
<1> DEFINE a == [t EXCEPT !.cur = b]
<1>1. DOMAIN t = Fields /\ IsOrder(DOMAIN t.doc, t.order) /\ IsOrder(DOMAIN t.doc, t.recent)
  BY DocOf DEF Fine, Listed
<1>2. b \in Docs
  BY <1>1, OrderIs
<1>3. /\ DOMAIN a = Fields /\ a.cur = b /\ a.order = t.order /\ a.recent = t.recent /\ a.doc = t.doc
      /\ a.mode = t.mode /\ a.frames = t.frames /\ a.error = t.error /\ a.disk = t.disk
      /\ a.scripts = t.scripts /\ a.macros = t.macros /\ a.recording = t.recording /\ a.pstack = t.pstack
  BY <1>1 DEF Fields
<1> HIDE DEF a
<1>4. Held(E, a)
  BY <1>3 DEF Fine, Held
<1>5. Held(E, r) /\ IsOrder(DOMAIN t.doc \cup {b}, r.recent) /\ SameButRecent(a, r)
  <2>1. r = Actuate(a, b) /\ IsOrder(DOMAIN t.doc, a.recent)
    BY <1>1, <1>3 DEF a
  <2> QED
    BY <1>2, <1>4, <2>1, ActuateIs
<1>6. DOMAIN t.doc \cup {b} = DOMAIN t.doc
  OBVIOUS
<1>7. Listed(r) /\ Onward(t, r) /\ r.order = t.order /\ r.error = t.error
  BY <1>1, <1>3, <1>5, <1>6 DEF Listed, SameButRecent, Onward
<1> QED
  BY <1>5, <1>7 DEF Goes, Fine

(* The documents before and after the current one.                         *)
LEMMA AroundGoes ==
  ASSUME NEW E, NEW t, Fine(E, t)
  PROVE  /\ Goes(E, t, PREVDOC(t)) /\ PREVDOC(t).order = t.order
         /\ Goes(E, t, NEXTDOC(t)) /\ NEXTDOC(t).order = t.order
<1> DEFINE at == PlaceIn(t.order, t.cur)
           n == Len(t.order)
           p == t.order[IF at = 1 THEN n ELSE at - 1]
           q == t.order[IF at = n THEN 1 ELSE at + 1]
<1>1. IsOrder(DOMAIN t.doc, t.order) /\ t.cur \in DOMAIN t.doc
  BY DEF Fine, Listed
<1>2. n \in Nat /\ at \in 1 .. n /\ \A i \in 1 .. n : t.order[i] \in DOMAIN t.doc
  BY <1>1, OrderIs
<1>3. PREVDOC(t) = Actuate([t EXCEPT !.cur = p], p) /\ NEXTDOC(t) = Actuate([t EXCEPT !.cur = q], q)
  BY DEF PREVDOC, NEXTDOC
<1> HIDE DEF at, n
<1>4. p \in DOMAIN t.doc /\ q \in DOMAIN t.doc
  <2>1. (IF at = 1 THEN n ELSE at - 1) \in 1 .. n /\ (IF at = n THEN 1 ELSE at + 1) \in 1 .. n
    BY <1>2
  <2> QED
    BY <1>2, <2>1
<1> HIDE DEF p, q
<1> QED
  BY <1>3, <1>4, SwitchGoes

(* A document that is not the current one goes away.                       *)
LEMMA RemovedIs ==
  ASSUME NEW E, NEW t, Fine(E, t), NEW b \in DOMAIN t.doc, NEW a, NEW c \in DOMAIN t.doc \ {b}, a = [t EXCEPT !.cur = c],
         NEW r, r = Removed(a, b)
  PROVE  Goes(E, t, r) /\ r.cur = c /\ r.error = t.error
<1>1. DOMAIN t = Fields /\ AreDocs(E, t.doc) /\ IsOrder(DOMAIN t.doc, t.order) /\ IsOrder(DOMAIN t.doc, t.recent)
  BY DEF Fine, Listed, Held
<1> DEFINE doc == [x \in DOMAIN t.doc \ {b} |-> t.doc[x]]
<1>2. r = [a EXCEPT !.order = Without(a.order, b), !.recent = Without(a.recent, b),
                    !.doc = [x \in DOMAIN a.doc \ {b} |-> a.doc[x]]]
  BY DEF Removed
<1>3. /\ DOMAIN a = Fields /\ a.cur = c /\ a.order = t.order /\ a.recent = t.recent /\ a.doc = t.doc
      /\ a.mode = t.mode /\ a.frames = t.frames /\ a.error = t.error /\ a.disk = t.disk
      /\ a.scripts = t.scripts /\ a.macros = t.macros /\ a.recording = t.recording /\ a.pstack = t.pstack
  BY <1>1 DEF Fields
<1>4. /\ DOMAIN r = Fields /\ r.cur = a.cur /\ r.order = Without(a.order, b) /\ r.recent = Without(a.recent, b)
      /\ r.doc = [x \in DOMAIN a.doc \ {b} |-> a.doc[x]]
      /\ r.mode = a.mode /\ r.frames = a.frames /\ r.error = a.error /\ r.disk = a.disk
      /\ r.scripts = a.scripts /\ r.macros = a.macros /\ r.recording = a.recording /\ r.pstack = a.pstack
  <2> DEFINE u == Without(a.order, b)
             v == Without(a.recent, b)
             w == [x \in DOMAIN a.doc \ {b} |-> a.doc[x]]
  <2>1. r = [a EXCEPT !.order = u, !.recent = v, !.doc = w]
    BY <1>2
  <2>2. DOMAIN a = Fields
    BY <1>3
  <2> HIDE DEF u, v, w
  <2>3. /\ DOMAIN r = Fields /\ r.cur = a.cur /\ r.order = u /\ r.recent = v /\ r.doc = w
        /\ r.mode = a.mode /\ r.frames = a.frames /\ r.error = a.error /\ r.disk = a.disk
        /\ r.scripts = a.scripts /\ r.macros = a.macros /\ r.recording = a.recording /\ r.pstack = a.pstack
    BY ONLY <2>1, <2>2 DEF Fields
  <2> QED
    BY <2>3 DEF u, v, w
<1>5. r.doc = doc
  BY <1>3, <1>4
<1>6. DOMAIN r.doc = DOMAIN t.doc \ {b} /\ AreDocs(E, r.doc)
  BY <1>1, <1>5 DEF AreDocs
<1> HIDE DEF doc
<1>7. Held(E, r)
  BY <1>3, <1>4, <1>6 DEF Fine, Held
<1>8. Listed(r)
  <2>1. IsOrder(DOMAIN t.doc \ {b}, r.order) /\ IsOrder(DOMAIN t.doc \ {b}, r.recent)
    BY <1>1, <1>3, <1>4, WithoutOrder
  <2> QED
    BY <1>3, <1>4, <1>6, <2>1 DEF Listed
<1> QED
  BY <1>3, <1>4, <1>7, <1>8 DEF Goes, Fine, Onward

(* The current one goes away, and another one becomes the current one.     *)
LEMMA DeleteGoes ==
  ASSUME NEW E, NEW t, Fine(E, t), Len(t.order) > 1
  PROVE  Goes(E, t, delete_buffer(t)) /\ delete_buffer(t).error = t.error
<1> DEFINE at == PlaceIn(t.order, t.cur)
           n == Len(t.order)
           c == Heir(t)
           a == [t EXCEPT !.cur = c]
           r == Removed(a, t.cur)
<1>1. IsOrder(DOMAIN t.doc, t.order) /\ t.cur \in DOMAIN t.doc
  BY DEF Fine, Listed
<1>2. /\ n \in Nat /\ at \in 1 .. n /\ t.order[at] = t.cur
      /\ \A i \in 1 .. n : t.order[i] \in DOMAIN t.doc
      /\ \A i, j \in 1 .. n : t.order[i] = t.order[j] => i = j
  BY <1>1, OrderIs
<1>3. delete_buffer(t) = r
  <2>1. n # 1
    BY <1>2
  <2> QED
    BY <2>1 DEF delete_buffer
<1>4. c = IF at = 1 THEN t.order[2]
          ELSE IF at = n \/ ~Newer(t, t.order[at + 1], t.order[at - 1]) THEN t.order[at - 1] ELSE t.order[at + 1]
  BY DEF Heir
<1> HIDE DEF at, n, c
<1>5. n > 1
  BY DEF n
<1>6. c \in DOMAIN t.doc \ {t.cur}
  <2>1. CASE at = 1
    <3>1. 2 \in 1 .. n /\ 2 # at
      BY <1>2, <1>5, <2>1
    <3> QED
      BY <1>2, <1>4, <2>1, <3>1
  <2>2. CASE at # 1 /\ (at = n \/ ~Newer(t, t.order[at + 1], t.order[at - 1]))
    <3>1. at - 1 \in 1 .. n /\ at - 1 # at
      BY <1>2, <2>2
    <3> QED
      BY <1>2, <1>4, <2>2, <3>1
  <2>3. CASE at # 1 /\ ~(at = n \/ ~Newer(t, t.order[at + 1], t.order[at - 1]))
    <3>1. at + 1 \in 1 .. n /\ at + 1 # at
      BY <1>2, <2>3
    <3> QED
      BY <1>2, <1>4, <2>3, <3>1
  <2> QED
    BY <2>1, <2>2, <2>3
<1>7. a = [t EXCEPT !.cur = c] /\ r = Removed(a, t.cur)
  OBVIOUS
<1> HIDE DEF a, r
<1>8. Goes(E, t, r) /\ r.error = t.error
  <2> DEFINE b == t.cur
  <2>1. b \in DOMAIN t.doc /\ c \in DOMAIN t.doc \ {b} /\ r = Removed(a, b)
    BY <1>1, <1>6, <1>7
  <2> HIDE DEF b
  <2> QED
    BY ONLY Fine(E, t), <1>7, <2>1, RemovedIs
<1> QED
  BY <1>3, <1>8

(* There is a document before the current one.                             *)
Second(t) == PlaceIn(t.order, t.cur) > 1

(* A new document, after the current one if there is one.                  *)
LEMMA NewGoes ==
  ASSUME NEW E, NEW t, Held(E, t), IsOrder(DOMAIN t.doc, t.order), IsOrder(DOMAIN t.doc, t.recent),
         t.cur \in DOMAIN t.doc \/ t.cur = NoDoc, Free(t) # {}, NEW r, r = new_buffer(t)
  PROVE  Goes(E, t, r) /\ (t.cur \in DOMAIN t.doc => Second(r)) /\ r.error = t.error
<1> DEFINE b == CHOOSE x \in Free(t) : TRUE
           opt == IF t.cur = NoDoc THEN FreshOptions ELSE Inherited(CurDoc(t).opt)
           at == IF t.cur = NoDoc THEN 0 ELSE PlaceIn(t.order, t.cur)
           e == EmptyDoc(opt)
           x == [t EXCEPT !.doc = Updated(@, b, e)]
           y == Actuate(x, b)
<1>1. DOMAIN t = Fields /\ AreDocs(E, t.doc)
  BY DEF Held
<1>2. /\ Len(t.order) \in Nat /\ DOMAIN t.doc \subseteq Docs /\ ToSet(t.order) = DOMAIN t.doc
      /\ \A c \in DOMAIN t.doc : PlaceIn(t.order, c) \in 1 .. Len(t.order)
  BY OrderIs DEF IsOrder
<1>3. b \in Docs \ DOMAIN t.doc
  BY <1>2 DEF Free
<1>4. at \in 0 .. Len(t.order) /\ (t.cur \in DOMAIN t.doc => at > 0)
  BY <1>2, DocsAssumption
<1>5. r = [y EXCEPT !.order = InsertAt(@, at + 1, b), !.cur = b]
  BY DEF new_buffer, alloc_buffer
<1>6. IsDoc(e) /\ ~e.exec_only_options
  <2>1. IsText(<< <<>> >>)
    <3>1. <<>> \in Seq({}) /\ << <<>> >> \in Seq(Seq({})) /\ Len(<< <<>> >>) # 0
      OBVIOUS
    <3> QED
      BY <3>1, TextIs
  <2>2. AreLines(<<>>)
    BY ShortLines, ShortSequences
  <2> HIDE DEF opt
  <2> QED
    BY <2>1, <2>2 DEF EmptyDoc, IsDoc, DocFields
<1> HIDE DEF b, at, e
<1>7. /\ DOMAIN x = Fields /\ x.doc = Updated(t.doc, b, e) /\ x.order = t.order /\ x.recent = t.recent
      /\ x.mode = t.mode /\ x.frames = t.frames /\ x.error = t.error /\ x.disk = t.disk
      /\ x.scripts = t.scripts /\ x.macros = t.macros /\ x.recording = t.recording /\ x.pstack = t.pstack
  BY <1>1 DEF Fields
<1> HIDE DEF x
<1>8. DOMAIN x.doc = DOMAIN t.doc \cup {b} /\ AreDocs(E, x.doc)
  BY <1>1, <1>6, <1>7 DEF Updated, AreDocs
<1>9. Held(E, x)
  BY <1>7, <1>8 DEF Held
<1>10. Held(E, y) /\ IsOrder(DOMAIN t.doc \cup {b}, y.recent) /\ SameButRecent(x, y)
  BY <1>3, <1>7, <1>9, ActuateIs
<1> HIDE DEF y
<1>11. /\ DOMAIN y = Fields /\ y.doc = x.doc /\ y.order = t.order /\ y.mode = t.mode /\ y.frames = t.frames
       /\ y.error = t.error
  BY <1>7, <1>10 DEF SameButRecent, Held
<1>12. /\ DOMAIN r = Fields /\ r.cur = b /\ r.order = InsertAt(t.order, at + 1, b)
       /\ r.doc = y.doc /\ r.recent = y.recent /\ r.mode = y.mode /\ r.frames = y.frames /\ r.error = y.error
       /\ r.disk = y.disk /\ r.scripts = y.scripts /\ r.macros = y.macros /\ r.recording = y.recording
       /\ r.pstack = y.pstack
  BY <1>5, <1>11 DEF Fields
<1>13. Held(E, r)
  BY <1>10, <1>12 DEF Held
<1>14. IsOrder(DOMAIN t.doc \cup {b}, r.order) /\ PlaceIn(r.order, b) = at + 1
  <2> DEFINE D == DOMAIN t.doc
             q == t.order
  <2>1. IsOrder(D, q) /\ b \in Docs \ D /\ at \in 0 .. Len(q) /\ r.order = InsertAt(q, at + 1, b)
    BY <1>3, <1>4, <1>12
  <2> HIDE DEF D, q
  <2>2. IsOrder(D \cup {b}, InsertAt(q, at + 1, b)) /\ PlaceIn(InsertAt(q, at + 1, b), b) = at + 1
    BY ONLY <2>1, InsertOrder
  <2> QED
    BY <2>1, <2>2 DEF D
<1>15. Listed(r)
  BY <1>8, <1>10, <1>11, <1>12, <1>14 DEF Listed
<1>16. t.cur \in DOMAIN t.doc => Second(r)
  BY <1>4, <1>12, <1>14 DEF Second
<1> QED
  BY <1>11, <1>12, <1>13, <1>15, <1>16 DEF Goes, Fine, Onward

(* The command.                                                            *)
LEMMA NewDocGoes ==
  ASSUME NEW E, NEW t, Fine(E, t)
  PROVE  Goes(E, t, new_buffer(t))
<1> DEFINE r == new_buffer(t)
<1>1. CASE Free(t) = {}
  <2>1. new_buffer(t) = Err(t, "OUT_OF_MEMORY")
    BY <1>1 DEF new_buffer
  <2> QED
    BY <2>1, ErrStays, Follows
<1>2. CASE Free(t) # {}
  <2>1. r = new_buffer(t)
    OBVIOUS
  <2> HIDE DEF r
  <2>2. Goes(E, t, r)
    BY <1>2, <2>1, NewGoes DEF Fine, Listed
  <2> QED
    BY <2>1, <2>2
<1> QED
  BY <1>1, <1>2

(* A session that has ended.                                               *)
Exited(r) == DOMAIN r = Fields /\ r.mode = "exited"

(* Closing a document.                                                     *)
LEMMA CloseGoes ==
  ASSUME NEW E, NEW t, Fine(E, t), NEW u
  PROVE  Exited(CLOSEDOC(t, u)) \/ Goes(E, t, CLOSEDOC(t, u))
<1> DEFINE a == IF CurDoc(t).is_modified THEN Agreed(t, "lose") ELSE t
           d == delete_buffer(a)
           r == Actuate(d, d.cur)
<1>1. Stays(E, t, a)
  BY ErrStays, Follows
<1>2. Fine(E, a) /\ a.order = t.order /\ Goes(E, t, a)
  BY <1>1, Follows DEF Stays, SameList
<1>3. CLOSEDOC(t, u) = IF CurDoc(t).is_modified /\ ~u.agree THEN Err(t, "ERROR")
                       ELSE IF Len(t.order) = 1 THEN [d EXCEPT !.mode = "exited"] ELSE r
  BY DEF CLOSEDOC
<1> HIDE DEF a
<1>4. CASE Len(t.order) = 1
  <2>1. DOMAIN a = Fields
    BY <1>2, DocOf
  <2>2. DOMAIN d = Fields
    BY <2>1 DEF delete_buffer, Removed
  <2> HIDE DEF d
  <2>3. Exited([d EXCEPT !.mode = "exited"])
    BY <2>2 DEF Exited, Fields
  <2> QED
    BY <1>3, <1>4, <2>3, ErrStays, Follows
<1>5. CASE Len(t.order) # 1
  <2>1. Len(t.order) > 1
    <3>1. IsOrder(DOMAIN t.doc, t.order) /\ t.cur \in DOMAIN t.doc
      BY DEF Fine, Listed
    <3>2. Len(t.order) \in Nat /\ (DOMAIN t.doc # {} => Len(t.order) > 0)
      BY <3>1, OrderIs
    <3>3. DOMAIN t.doc # {}
      BY <3>1
    <3>4. Len(t.order) > 0
      BY <3>2, <3>3
    <3>5. \A n \in Nat : n > 0 /\ n # 1 => n > 1
      OBVIOUS
    <3> QED
      BY <1>5, <3>2, <3>4, <3>5
  <2>2. Goes(E, a, d)
    BY <1>2, <2>1, DeleteGoes
  <2> HIDE DEF d
  <2>3. Fine(E, d) /\ DOMAIN d = Fields /\ d.cur \in DOMAIN d.doc
    BY <2>2, DocOf DEF Goes
  <2>4. IsOrder(DOMAIN d.doc, d.order) /\ IsOrder(DOMAIN d.doc, d.recent) /\ Held(E, d) /\ d.cur \in Docs
    BY <2>3, OrderIs DEF Fine, Listed
  <2>5. r = Actuate(d, d.cur)
    OBVIOUS
  <2> HIDE DEF r
  <2>a. Held(E, r) /\ IsOrder(DOMAIN d.doc \cup {d.cur}, r.recent) /\ SameButRecent(d, r)
    BY <2>4, <2>5, ActuateIs
  <2>b. DOMAIN d.doc \cup {d.cur} = DOMAIN d.doc
    BY <2>3
  <2>6. Goes(E, d, r)
    BY <2>3, <2>4, <2>a, <2>b DEF Goes, Fine, Listed, SameButRecent, Onward
  <2>7. Goes(E, t, r)
    BY <1>2, <2>2, <2>6, Follows
  <2> QED
    BY <1>3, <1>5, <2>7, ErrStays, Follows
<1> QED
  BY <1>4, <1>5

-----------------------------------------------------------------------------
(* Numbers in decimal.                                                     *)
LEMMA NumberIs ==
  ASSUME NEW text, IsSequence(text), IsNumber(text)
  PROVE  Number(text) \in Nat
<1> DEFINE n == Len(text)
           S == Nat
           b == 0
           seq == text
           One(x, ch) == x * Base + DigitOf(ch)
           G == [z \in S \X (1 .. n) |-> One(z[1], seq[z[2]])]
           IsFold(h) == h = [t \in SUBSET DOMAIN seq |->
                               IF t = {} THEN b ELSE LET k == Max(t) IN One(h[t \ {k}], seq[k])]
           c == CHOOSE h : IsFold(h)
<1>a. Number(text) = FoldLeft(LAMBDA x, ch : One(x, ch), b, seq)
  BY DEF Number
<1>b. FoldLeft(LAMBDA x, ch : One(x, ch), b, seq) = c[DOMAIN seq]
  BY ONLY DEF FoldLeft, MapThenFoldSet, c, IsFold
<1>1. n \in Nat /\ DOMAIN seq = 1 .. n
  BY SequenceIs
<1>2. b \in S
  OBVIOUS
<1>3. ASSUME NEW x \in S, NEW k \in 1 .. n PROVE One(x, seq[k]) \in S
  <2>1. IsDigit(seq[k])
    BY <1>1 DEF IsNumber
  <2>2. DigitOf(seq[k]) \in DOMAIN Digits
    BY <2>1 DEF IsDigit, DigitOf
  <2>3. DigitOf(seq[k]) \in Nat /\ Base \in Nat
    BY <2>2, DigitsAssumption
  <2> DEFINE m == DigitOf(seq[k])
  <2>4. m \in Nat /\ x \in Nat /\ Base \in Nat
    BY <2>3
  <2> HIDE DEF m
  <2>5. x * Base \in Nat
    BY ONLY <2>4
  <2>6. x * Base + m \in Nat
    BY ONLY <2>4, <2>5
  <2> QED
    BY <2>6 DEF m
<1> HIDE DEF n, b, seq, One, S
<1>4. G \in [S \X (1 .. n) -> S] /\ \A x \in S, k \in 1 .. n : G[<<x, k>>] = One(x, seq[k])
  BY <1>3
<1> HIDE DEF G
<1>5. \A t \in SUBSET (1 .. n) : t # {} => Max(t) \in 1 .. n
  BY <1>1, MaxUpTo
<1>6. IsFold(c)
  <2>1. PICK h \in [SUBSET (1 .. n) -> S] : FoldsBy(h, b, n, G)
    BY <1>1, <1>2, <1>4, FoldExists
  <2>2. \A t \in SUBSET (1 .. n) : h[t] = IF t = {} THEN b ELSE G[<<h[t \ {Max(t)}], Max(t)>>]
    BY ONLY <2>1 DEF FoldsBy
  <2>3. \A t \in SUBSET (1 .. n) : t # {} => G[<<h[t \ {Max(t)}], Max(t)>>] = One(h[t \ {Max(t)}], seq[Max(t)])
    BY <1>4, <1>5
  <2>4. h = [t \in SUBSET (1 .. n) |-> h[t]]
    OBVIOUS
  <2>5. h = [t \in SUBSET (1 .. n) |-> IF t = {} THEN b ELSE One(h[t \ {Max(t)}], seq[Max(t)])]
    BY <2>2, <2>3, <2>4
  <2>6. IsFold(h)
    BY <1>1, <2>5
  <2> HIDE DEF IsFold
  <2> QED
    BY ONLY <2>6 DEF c
<1> HIDE DEF c
<1>7. FoldsIn(S, c, b, n, G)
  <2>1. \A t \in SUBSET (1 .. n) : c[t] = IF t = {} THEN b ELSE One(c[t \ {Max(t)}], seq[Max(t)])
    BY <1>1, <1>6
  <2> HIDE DEF IsFold
  <2>2. {} \in SUBSET (1 .. n)
    OBVIOUS
  <2> QED
    BY <1>4, <1>5, <2>1, <2>2 DEF FoldsIn
<1> HIDE DEF IsFold
<1>8. RunsTo(S, c[1 .. n], b, n, G)
  BY <1>1, <1>2, <1>4, <1>7, FoldTrace
<1>9. c[1 .. n] \in S
  BY <1>1, <1>8 DEF RunsTo
<1> QED
  BY <1>a, <1>b, <1>1, <1>9 DEF S

(* What comes after the blanks, and without quotes.                        *)
LEMMA ArgumentIs ==
  ASSUME NEW rest, IsSequence(rest)
  PROVE  IsSequence(Argument(rest)) /\ IsSequence(Unquoted(Argument(rest)))
<1>1. IsSequence(Argument(rest))
  <2> DEFINE n == Len(rest)
             First(i) == (\A j \in 1 .. i - 1 : rest[j] = Blank) /\ (i <= n => rest[i] # Blank)
             T == {i \in 1 .. n + 1 : i <= n => rest[i] # Blank}
             from == CHOOSE i \in 1 .. n + 1 : First(i)
  <2>1. n \in Nat
    BY SequenceIs
  <2>2. T \subseteq Nat /\ n + 1 \in T
    BY <2>1
  <2>3. PICK i \in T : \A y \in T : i <= y
    BY <2>2, Least
  <2>4. ASSUME NEW j \in 1 .. i - 1 PROVE rest[j] = Blank
    <3>1. j \in 1 .. n + 1 /\ ~(i <= j)
      BY <2>1, <2>2, <2>3
    <3> QED
      BY <2>3, <3>1
  <2>5. i \in 1 .. n + 1 /\ First(i)
    BY <2>3, <2>4
  <2> HIDE DEF First
  <2>6. from \in 1 .. n + 1
    BY <2>5
  <2>7. Argument(rest) = IF rest = <<>> \/ Head(rest) # Blank THEN rest ELSE SubSeq(rest, from, n)
    BY DEF Argument, First
  <2> HIDE DEF from
  <2>8. IsSequence(SubSeq(rest, from, n))
    <3>1. from \in Nat \ {0} /\ n \in Int /\ n <= Len(rest)
      BY <2>1, <2>6
    <3> QED
      BY <3>1, SequencePart
  <2> QED
    BY <2>7, <2>8
<1>2. ASSUME NEW text, IsSequence(text) PROVE IsSequence(Unquoted(text))
  <2> DEFINE front == Front(text)
  <2>1. Len(text) \in Nat
    BY <1>2, SequenceIs
  <2>2. CASE Len(text) > 1
    <3>1. IsSequence(front) /\ Len(front) = Len(text) - 1
      <4>1. Len(text) - 1 \in Int /\ Len(text) - 1 <= Len(text) /\ 1 \in Nat \ {0} /\ 1 <= Len(text) - 1
        BY <2>1, <2>2
      <4>2. IsSequence(SubSeq(text, 1, Len(text) - 1)) /\ Len(SubSeq(text, 1, Len(text) - 1)) = Len(text) - 1 - 1 + 1
        BY <1>2, <4>1, SequencePart
      <4> QED
        BY <2>1, <4>2 DEF Front
    <3> HIDE DEF front
    <3>2. front # <<>> /\ front \in Seq(ToSet(front))
      BY <2>1, <2>2, <3>1, SequenceIs
    <3>3. Tail(front) \in Seq(ToSet(front))
      BY <3>2
    <3>4. IsSequence(Tail(front))
      BY <3>3, SequenceIs
    <3> QED
      BY <1>2, <3>4 DEF Unquoted, front
  <2>3. CASE ~(Len(text) > 1)
    BY <1>2, <2>3 DEF Unquoted
  <2> QED
    BY <2>2, <2>3
<1> QED
  BY <1>1, <1>2

(* The action that a line means.                                           *)
LEMMA ParseIs ==
  ASSUME NEW line, IsLine(line), NEW on
  PROVE  IsSequence(parse(line, on).act.p) /\ parse(line, on).act.c \in Int
<1> DEFINE text == Argument(line.rest)
           string == Unquoted(text)
<1>1. IsSequence(line.rest) /\ IsSequence(text) /\ IsSequence(string) /\ IsSequence(NoString)
  BY ArgumentIs, ShortSequences DEF IsLine, NoString
<1>2. ASSUME NEW a, NEW c \in Int, NEW p, IsSequence(p)
      PROVE  IsSequence(Parsed(Action(a, c, p)).act.p) /\ Parsed(Action(a, c, p)).act.c \in Int
  BY <1>2 DEF Parsed, Action
<1>3. ASSUME NEW e PROVE IsSequence(Error(e).act.p) /\ Error(e).act.c \in Int
  BY <1>1 DEF Error, Plain, Action, NoNumber
<1>4. NoNumber \in Int /\ (IsNumber(text) => Number(text) \in Int)
  BY <1>1, NumberIs DEF NoNumber
<1>5. \/ \E e : parse(line, on) = Error(e)
      \/ \E p \in {line.rest, NoString, string} : parse(line, on) = Parsed(Action(line.word, NoNumber, p))
      \/ parse(line, on) = Parsed(Action("NOP", NoNumber, line.rest))
      \/ IsNumber(text) /\ parse(line, on) = Parsed(Action(line.word, Number(text), NoString))
  BY DEF parse, Plain
<1> HIDE DEF text, string
<1> QED
  BY <1>1, <1>2, <1>3, <1>4, <1>5

-----------------------------------------------------------------------------
(* The stack of options.                                                   *)
LEMMA PushStays ==
  ASSUME NEW E, NEW t, Fine(E, t)
  PROVE  Stays(E, t, push_prefs(t))
<1> DEFINE v == Append(t.pstack, CurDoc(t).opt)
           a == [t EXCEPT !.pstack = v]
           r == Err(a, OK)
<1>1. DOMAIN t = Fields /\ IsSequence(t.pstack) /\ Len(t.pstack) <= MaxPrefs
  BY DEF Fine, Held, IsStack
<1>2. push_prefs(t) = IF Len(t.pstack) >= MaxPrefs THEN Err(t, "PREFS_STACK_FULL") ELSE r
  <2>1. r = [t EXCEPT !.pstack = v, !.error = OK]
    BY <1>1 DEF Err, Fields
  <2> HIDE DEF r
  <2> QED
    BY <2>1 DEF push_prefs
<1>3. CASE Len(t.pstack) >= MaxPrefs
  BY <1>2, <1>3, ErrStays
<1>4. CASE ~(Len(t.pstack) >= MaxPrefs)
  <2>1. Len(t.pstack) \in Nat
    BY <1>1, SequenceIs
  <2>2. IsSequence(v) /\ Len(v) = Len(t.pstack) + 1
    BY <1>1, SequenceExtended
  <2>3. IsStack(v)
    BY <1>4, <2>1, <2>2, LimitsAssumption DEF IsStack
  <2>4. a = [t EXCEPT !.pstack = v]
    OBVIOUS
  <2> HIDE DEF v, a
  <2>5. Stays(E, t, a)
    BY <2>3, <2>4, PartStays
  <2>6. Stays(E, a, r)
    BY <2>5, ErrStays DEF Stays
  <2> HIDE DEF r
  <2>7. push_prefs(t) = r
    BY <1>2, <1>4
  <2> QED
    BY <2>5, <2>6, <2>7, Follows
<1> QED
  BY <1>3, <1>4

(* What was put on it comes back.                                          *)
LEMMA PopStays ==
  ASSUME NEW E, NEW t, Fine(E, t)
  PROVE  Stays(E, t, pop_prefs(t))
<1> DEFINE a == [t EXCEPT !.doc[t.cur].opt = Last(t.pstack)]
           v == Front(t.pstack)
           b == [a EXCEPT !.pstack = v]
           r == Err(b, OK)
<1>1. DOMAIN t = Fields /\ IsSequence(t.pstack) /\ Len(t.pstack) <= MaxPrefs
  BY DEF Fine, Held, IsStack
<1>2. pop_prefs(t) = IF t.pstack = <<>> THEN Err(t, "PREFS_STACK_EMPTY") ELSE r
  <2>1. r = [t EXCEPT !.doc[t.cur].opt = Last(t.pstack), !.pstack = Front(@), !.error = OK]
    BY <1>1 DEF Err, Fields
  <2> HIDE DEF r
  <2> QED
    BY <2>1 DEF pop_prefs
<1>3. IsStack(v)
  <2>1. Len(t.pstack) \in Nat
    BY <1>1, SequenceIs
  <2>2. Len(t.pstack) - 1 \in Int /\ Len(t.pstack) - 1 <= Len(t.pstack) /\ 1 \in Nat \ {0}
    BY <2>1
  <2>3. /\ IsSequence(SubSeq(t.pstack, 1, Len(t.pstack) - 1))
        /\ Len(SubSeq(t.pstack, 1, Len(t.pstack) - 1)) =
             IF 1 <= Len(t.pstack) - 1 THEN Len(t.pstack) - 1 - 1 + 1 ELSE 0
    BY <1>1, <2>2, SequencePart
  <2>4. IsSequence(v) /\ Len(v) <= MaxPrefs
    BY <1>1, <2>1, <2>3, LimitsAssumption DEF Front
  <2> QED
    BY <2>4 DEF IsStack
<1>4. Stays(E, t, a)
  BY MarksStay
<1>5. b = [a EXCEPT !.pstack = v]
  OBVIOUS
<1> HIDE DEF a, v, b
<1>6. Stays(E, a, b)
  BY <1>3, <1>4, <1>5, PartStays DEF Stays
<1>7. Stays(E, b, r)
  BY <1>6, ErrStays DEF Stays
<1> HIDE DEF r
<1>8. Stays(E, t, b)
  BY <1>4, <1>6, Follows
<1>9. Stays(E, t, r)
  BY <1>7, <1>8, Follows
<1> QED
  BY <1>2, <1>9, ErrStays

(* As often as it is told.                                                 *)
LEMMA RepeatedStays ==
  ASSUME NEW E, NEW t, Fine(E, t), NEW c \in Int, NEW pop
  PROVE  Stays(E, t, Repeated(t, c, pop))
<1> DEFINE n == Times(c)
           b == t
           Next1(y, k) == OnceMore(y, pop)
           Runs(k, f) == f = [i \in 0 .. k |-> IF i = 0 THEN b ELSE Next1(f[i - 1], i)]
           Ok(k) == \E f : Runs(k, f)
           h0 == CHOOSE f : Runs(n, f)
           T == {k \in 0 .. n : Ok(k)}
           U == {k \in 0 .. n : Stays(E, t, h0[k])}
<1>1. n \in Nat
  BY DEF Times
<1>2. Repeated(t, c, pop) = h0[n]
  BY DEF Repeated
<1> HIDE DEF n, b, Next1
<1>3. 0 \in T
  <2>1. Runs(0, [i \in 0 .. 0 |-> b])
    OBVIOUS
  <2> HIDE DEF Runs
  <2> QED
    BY <1>1, <2>1
<1>4. ASSUME NEW k \in 1 .. n, k - 1 \in T PROVE k \in T
  <2>1. PICK f : Runs(k - 1, f)
    BY <1>4
  <2> DEFINE h == [i \in 0 .. k |-> IF i = k THEN Next1(f[k - 1], k) ELSE f[i]]
  <2>2. ASSUME NEW i \in 0 .. k PROVE h[i] = IF i = 0 THEN b ELSE Next1(h[i - 1], i)
    <3>1. CASE i = k
      <4>1. i # 0 /\ k - 1 \in 0 .. k /\ k - 1 # k
        BY <3>1
      <4>2. h[k - 1] = f[k - 1] /\ h[k] = Next1(f[k - 1], k)
        BY <4>1
      <4> QED
        BY <3>1, <4>1, <4>2
    <3>2. CASE i # k
      <4>1. i \in 0 .. k - 1 /\ (i # 0 => i - 1 \in 0 .. k /\ i - 1 # k)
        BY <3>2
      <4>2. f[i] = IF i = 0 THEN b ELSE Next1(f[i - 1], i)
        BY <2>1, <4>1
      <4>3. h[i] = f[i] /\ (i # 0 => h[i - 1] = f[i - 1])
        BY <3>2, <4>1
      <4> QED
        BY <4>2, <4>3
    <3> QED
      BY <3>1, <3>2
  <2>3. h = [i \in 0 .. k |-> h[i]]
    OBVIOUS
  <2> HIDE DEF h
  <2>4. Runs(k, h)
    BY <2>2, <2>3
  <2> HIDE DEF Runs
  <2> QED
    BY <1>1, <2>4
<1> HIDE DEF T
<1>5. \A k \in 0 .. n : k \in T
  BY ONLY <1>1, <1>3, <1>4, UpTo
<1>6. Runs(n, h0)
  <2> HIDE DEF Runs, Ok
  <2>1. Ok(n)
    BY <1>1, <1>5 DEF T
  <2> QED
    BY <2>1 DEF Ok
<1> HIDE DEF h0
<1>7. 0 \in U
  <2>1. h0[0] = b
    BY <1>1, <1>6
  <2>2. h0[0] = t
    BY <2>1 DEF b
  <2> QED
    BY <1>1, <2>2, Follows
<1>8. ASSUME NEW k \in 1 .. n, k - 1 \in U PROVE k \in U
  <2>1. h0[k] = Next1(h0[k - 1], k) /\ Stays(E, t, h0[k - 1]) /\ k \in 0 .. n
    BY <1>6, <1>8
  <2> DEFINE x == h0[k - 1]
  <2>2. h0[k] \in {x, push_prefs(x), pop_prefs(x)}
    BY <2>1 DEF Next1, OnceMore
  <2>3. Stays(E, t, x) /\ Fine(E, x)
    BY <2>1 DEF Stays
  <2> HIDE DEF x
  <2>4. Stays(E, x, push_prefs(x)) /\ Stays(E, x, pop_prefs(x))
    BY <2>3, PushStays, PopStays
  <2>5. Stays(E, t, h0[k])
    BY <2>2, <2>3, <2>4, Follows
  <2> QED
    BY <2>1, <2>5
<1> HIDE DEF U
<1>9. n \in U
  BY ONLY <1>1, <1>7, <1>8, UpTo
<1> QED
  BY <1>2, <1>9 DEF U

(* A syntax that there is, or none.                                        *)
LEMMA SyntaxStays ==
  ASSUME NEW E, NEW t, Fine(E, t), NEW p
  PROVE  Stays(E, t, SetSyntax(t, p))
<1> DEFINE a == [t EXCEPT !.doc[t.cur].syn = NoSyntax]
           b == [t EXCEPT !.doc[t.cur].syn = SyntaxFor[p[1]]]
<1>1. SetSyntax(t, p) \in {a, b, Err(t, "ERROR"), Err(t, "NO_SYNTAX_FOR_EXT")}
  BY DEF SetSyntax, load_syntax_by_name, WithSyntaxFor
<1>2. Stays(E, t, a) /\ Stays(E, t, b)
  BY MarksStay
<1>3. Stays(E, t, Err(t, "ERROR")) /\ Stays(E, t, Err(t, "NO_SYNTAX_FOR_EXT"))
  BY ErrStays
<1> HIDE DEF a, b
<1> QED
  BY <1>1, <1>2, <1>3

(* An option.                                                              *)
LEMMA SetOptionStays ==
  ASSUME NEW E, NEW t, Fine(E, t), NEW x, x.c \in Int
  PROVE  Stays(E, t, SetOption(t, x))
<1> DEFINE a1 == [t EXCEPT !.doc[t.cur].opt[OptionField[x.a]] = Flag(x.c, t.doc[t.cur].opt[OptionField[x.a]])]
           a2 == [t EXCEPT !.doc[t.cur].is_modified = Flag(x.c, t.doc[t.cur].is_modified)]
           a3 == [t EXCEPT !.doc[t.cur].is_CRLF = Flag(x.c, t.doc[t.cur].is_CRLF)]
           a4 == [t EXCEPT !.doc[t.cur].name = NameConvert(t.doc[t.cur].name, Cwd, x.c)]
           a5 == Pushed(t, x.c)
           a6 == SetSyntax(t, x.p)
<1>1. SetOption(t, x) \in {a1, a2, a3, a4, a5, a6, t}
  BY DEF SetOption
<1>2. /\ Stays(E, t, a1) /\ Stays(E, t, a2) /\ Stays(E, t, a3) /\ Stays(E, t, a4)
  BY MarksStay
<1>3. Stays(E, t, a5)
  BY RepeatedStays DEF Pushed
<1>4. Stays(E, t, a6)
  BY SyntaxStays
<1> HIDE DEF a1, a2, a3, a4, a5, a6
<1> QED
  BY <1>1, <1>2, <1>3, <1>4, Follows

-----------------------------------------------------------------------------
(* A line of the preferences.                                              *)
LEMMA PlayOptionStays ==
  ASSUME NEW E, NEW t, Fine(E, t), NEW line, IsLine(line)
  PROVE  Stays(E, t, PlayOption(t, line))
<1> DEFINE x == parse(line, TRUE)
           a == Recorded(t, x.act)
           r == SetOption(a, x.act)
<1>1. IsSequence(x.act.p) /\ x.act.c \in Int
  BY ParseIs
<1>2. PlayOption(t, line) \in {t, Err(t, x.error), a, r}
  BY DEF PlayOption
<1> HIDE DEF x
<1>3. Stays(E, t, a)
  BY <1>1, RecordedStays
<1> HIDE DEF a
<1>4. Stays(E, a, r)
  BY <1>1, <1>3, SetOptionStays DEF Stays
<1> HIDE DEF r
<1> QED
  BY <1>2, <1>3, <1>4, ErrStays, Follows

(* All of them.                                                            *)
LEMMA PlayOptionsStay ==
  ASSUME NEW E, NEW t, Fine(E, t), NEW lines, AreLines(lines)
  PROVE  Stays(E, t, PlayOptions(t, lines))
<1> DEFINE n == Len(lines)
           b == t
           Next1(y, k) == PlayOption(y, lines[k])
           Runs(k, f) == f = [i \in 0 .. k |-> IF i = 0 THEN b ELSE Next1(f[i - 1], i)]
           Ok(k) == \E f : Runs(k, f)
           c == CHOOSE f : Runs(n, f)
           T == {k \in 0 .. n : Ok(k)}
           U == {k \in 0 .. n : Stays(E, t, c[k])}
<1>1. n \in Nat /\ \A k \in 1 .. n : IsLine(lines[k])
  BY SequenceIs DEF AreLines
<1>2. PlayOptions(t, lines) = c[n]
  BY DEF PlayOptions
<1> HIDE DEF n, b, Next1
<1>3. 0 \in T
  <2>1. Runs(0, [i \in 0 .. 0 |-> b])
    OBVIOUS
  <2> HIDE DEF Runs
  <2> QED
    BY <1>1, <2>1
<1>4. ASSUME NEW k \in 1 .. n, k - 1 \in T PROVE k \in T
  <2>1. PICK f : Runs(k - 1, f)
    BY <1>4
  <2> DEFINE h == [i \in 0 .. k |-> IF i = k THEN Next1(f[k - 1], k) ELSE f[i]]
  <2>2. ASSUME NEW i \in 0 .. k PROVE h[i] = IF i = 0 THEN b ELSE Next1(h[i - 1], i)
    <3>1. CASE i = k
      <4>1. i # 0 /\ k - 1 \in 0 .. k /\ k - 1 # k
        BY <3>1
      <4>2. h[k - 1] = f[k - 1] /\ h[k] = Next1(f[k - 1], k)
        BY <4>1
      <4> QED
        BY <3>1, <4>1, <4>2
    <3>2. CASE i # k
      <4>1. i \in 0 .. k - 1 /\ (i # 0 => i - 1 \in 0 .. k /\ i - 1 # k)
        BY <3>2
      <4>2. f[i] = IF i = 0 THEN b ELSE Next1(f[i - 1], i)
        BY <2>1, <4>1
      <4>3. h[i] = f[i] /\ (i # 0 => h[i - 1] = f[i - 1])
        BY <3>2, <4>1
      <4> QED
        BY <4>2, <4>3
    <3> QED
      BY <3>1, <3>2
  <2>3. h = [i \in 0 .. k |-> h[i]]
    OBVIOUS
  <2> HIDE DEF h
  <2>4. Runs(k, h)
    BY <2>2, <2>3
  <2> HIDE DEF Runs
  <2> QED
    BY <1>1, <2>4
<1> HIDE DEF T
<1>5. \A k \in 0 .. n : k \in T
  BY ONLY <1>1, <1>3, <1>4, UpTo
<1>6. Runs(n, c)
  <2> HIDE DEF Runs, Ok
  <2>1. Ok(n)
    BY <1>1, <1>5 DEF T
  <2> QED
    BY <2>1 DEF Ok
<1> HIDE DEF c
<1>7. 0 \in U
  <2>1. c[0] = b
    BY <1>1, <1>6
  <2>2. c[0] = t
    BY <2>1 DEF b
  <2> QED
    BY <1>1, <2>2, Follows
<1>8. ASSUME NEW k \in 1 .. n, k - 1 \in U PROVE k \in U
  <2>1. c[k] = Next1(c[k - 1], k) /\ Stays(E, t, c[k - 1]) /\ k \in 0 .. n
    BY <1>6, <1>8
  <2> DEFINE x == c[k - 1]
  <2>2. c[k] = PlayOption(x, lines[k])
    BY <2>1 DEF Next1
  <2>3. Stays(E, t, x) /\ Fine(E, x)
    BY <2>1 DEF Stays
  <2> HIDE DEF x
  <2>4. Stays(E, x, PlayOption(x, lines[k]))
    BY <1>1, <2>3, PlayOptionStays
  <2>5. Stays(E, t, c[k])
    BY <2>2, <2>3, <2>4, Follows
  <2> QED
    BY <2>1, <2>5
<1> HIDE DEF U
<1>9. n \in U
  BY ONLY <1>1, <1>7, <1>8, UpTo
<1> QED
  BY <1>2, <1>9 DEF U

(* Only options, and no longer.                                            *)
LEMMA OnlyOptionsStays ==
  ASSUME NEW t, Fine({t.cur}, t), NEW on \in BOOLEAN, NEW r, r = OnlyOptions(t, on)
  PROVE  Stays({t.cur}, t, r) /\ (~on => Stays({}, t, r))
<1> DEFINE d == [CurDoc(t) EXCEPT !.exec_only_options = on]
<1>1. /\ DOMAIN t = Fields /\ t.cur \in DOMAIN t.doc /\ IsDoc(CurDoc(t))
      /\ \A b \in DOMAIN t.doc : IsDoc(t.doc[b]) /\ (b = t.cur \/ ~t.doc[b].exec_only_options)
  BY DocOf
<1>2. IsDoc(d) /\ d.exec_only_options = on
  BY <1>1 DEF IsDoc, DocFields
<1>3. r = [t EXCEPT !.doc = [t.doc EXCEPT ![t.cur] = d]]
  BY DEF OnlyOptions, CurDoc
<1> HIDE DEF d
<1>4. Stays({t.cur}, t, r) /\ r.doc[t.cur] = d
  BY <1>1, <1>2, <1>3, DocStays
<1>5. r.doc = [t.doc EXCEPT ![t.cur] = d]
  BY <1>1, <1>3 DEF Fields
<1>6. ASSUME ~on PROVE Stays({}, t, r)
  <2>1. AreDocs({}, r.doc)
    BY <1>1, <1>2, <1>5, <1>6 DEF AreDocs
  <2> QED
    BY <1>4, <2>1 DEF Stays, Fine, Held
<1> QED
  BY <1>4, <1>6

(* Preferences are loaded.                                                 *)
LEMMA LoadPrefsStays ==
  ASSUME NEW t, Fine({}, t), NEW file
  PROVE  Stays({}, t, load_prefs(t, file))
<1> DEFINE E == {t.cur}
           a == OnlyOptions(t, TRUE)
           b == Err(a, OK)
           c == PlayOptions(b, t.scripts[file])
           r == OnlyOptions(c, FALSE)
<1>1. load_prefs(t, file) =
        IF file \notin DOMAIN t.scripts THEN Err(t, "CANT_OPEN_FILE")
        ELSE IF t.scripts[file] # <<>> /\ Len(t.frames) >= MaxDepth THEN Err(t, "MAX_MACRO_DEPTH_EXCEEDED") ELSE r
  BY DEF load_prefs
<1>2. CASE file \in DOMAIN t.scripts
  <2>1. AreLines(t.scripts[file])
    BY <1>2 DEF Fine, Held, AreMacros
  <2>2. Fine(E, t)
    BY DEF Fine, Held, AreDocs
  <2>3. Stays(E, t, a)
    BY <2>2, OnlyOptionsStays
  <2> HIDE DEF a
  <2>4. Stays(E, a, b)
    BY <2>3, ErrStays DEF Stays
  <2> HIDE DEF b
  <2>5. Stays(E, b, c)
    BY <2>1, <2>4, PlayOptionsStay DEF Stays
  <2> HIDE DEF c
  <2>6. Stays(E, t, c)
    BY <2>3, <2>4, <2>5, Follows
  <2>7. Fine({c.cur}, c)
    BY <2>6 DEF Stays, SameList
  <2>8. Stays({}, c, r)
    BY <2>7, OnlyOptionsStays
  <2> HIDE DEF r
  <2>9. Stays({}, t, r)
    BY <2>6, <2>8 DEF Stays, Onward, SameList
  <2> QED
    BY <1>1, <2>9, ErrStays
<1>3. CASE file \notin DOMAIN t.scripts
  BY <1>1, <1>3, ErrStays
<1> QED
  BY <1>2, <1>3

(* Preferences are saved.                                                  *)
LEMMA SavePrefsStays ==
  ASSUME NEW E, NEW t, Fine(E, t), NEW file, NEW defaults
  PROVE  Stays(E, t, save_prefs(t, file, defaults))
<1> DEFINE d == CurDoc(t)
           syn == IF defaults THEN <<>> ELSE SyntaxLine(d)
           opts == [i \in DOMAIN SavedOptions |-> OptionLine(d.opt, SavedOptions[i])]
           lines == syn \o opts
           v == Updated(t.scripts, file, lines)
           a == [t EXCEPT !.scripts = v]
           r == Err(a, OK)
<1>1. DOMAIN t = Fields /\ AreMacros(t.scripts)
  BY DEF Fine, Held
<1>2. save_prefs(t, file, defaults) = r
  <2>1. r = [t EXCEPT !.error = OK, !.scripts = v]
    BY <1>1 DEF Err, Fields
  <2> HIDE DEF r
  <2> QED
    BY <2>1 DEF save_prefs
<1>3. AreLines(syn)
  <2>1. AreLines(<<>>) /\ IsSequence(<<d.syn>>)
    BY ShortLines, ShortSequences
  <2>2. Action("Syntax", NoNumber, <<d.syn>>).p = <<d.syn>>
    BY DEF Action
  <2>3. AreLines(record_action(Action("Syntax", NoNumber, <<d.syn>>)))
    BY <2>1, <2>2, RecordedLines
  <2> QED
    BY <2>1, <2>3 DEF SyntaxLine
<1>4. AreLines(opts)
  <2>1. DOMAIN SavedOptions = 1 .. 4 /\ \A i \in 1 .. 4 : SavedOptions[i] \in {"PreserveCR", "Insert", "AutoPrefs", "Binary"}
    BY DEF SavedOptions
  <2>2. ASSUME NEW w \in {"PreserveCR", "Insert", "AutoPrefs", "Binary"} PROVE IsLine(OptionLine(d.opt, w))
    <3> DEFINE n == IF d.opt[OptionField[w]] THEN 1 ELSE 0
               x == Action(w, n, NoString)
    <3>1. w \notin DO_NOT_RECORD /\ w # "NOP"
      BY DEF DO_NOT_RECORD
    <3>2. x.a = w /\ x.c = n /\ n >= 0
      BY DEF Action
    <3>3. OptionLine(d.opt, w) = record_action(x)[1]
      BY DEF OptionLine
    <3> HIDE DEF x, n
    <3>4. record_action(x) = <<Line(w, Decimal(n))>>
      BY <3>1, <3>2 DEF record_action
    <3>5. IsLine(Line(w, Decimal(n)))
      BY ShortSequences, ShortLines DEF Decimal
    <3> QED
      BY <3>3, <3>4, <3>5
  <2>3. DOMAIN opts = 1 .. 4 /\ \A i \in 1 .. 4 : IsLine(opts[i])
    BY <2>1, <2>2
  <2>4. opts = [i \in 1 .. 4 |-> opts[i]]
    BY <2>1
  <2> DEFINE R == {opts[i] : i \in 1 .. 4}
  <2>5. \A i \in 1 .. 4 : opts[i] \in R
    OBVIOUS
  <2> HIDE DEF opts, R
  <2>6. opts \in [1 .. 4 -> R]
    BY <2>4, <2>5
  <2>7. opts \in Seq(R)
    BY <2>6, SeqDef
  <2> QED
    BY <2>3, <2>7, SequenceIs DEF AreLines
<1> HIDE DEF syn, opts
<1>5. AreLines(lines)
  BY <1>3, <1>4, LinesJoined
<1> HIDE DEF lines
<1>6. AreMacros(v)
  BY <1>1, <1>5 DEF AreMacros, Updated
<1>7. a = [t EXCEPT !.scripts = v]
  OBVIOUS
<1> HIDE DEF v, a
<1>8. Stays(E, t, a)
  BY <1>6, <1>7, PartStays
<1>9. Stays(E, a, r)
  BY <1>8, ErrStays DEF Stays
<1> HIDE DEF r
<1> QED
  BY <1>2, <1>8, <1>9, Follows

(* Those of an extension.                                                  *)
LEMMA AutoPrefsStay ==
  ASSUME NEW t, Fine({}, t), NEW ext
  PROVE  Stays({}, t, load_auto_prefs(t, ext)) /\ Stays({}, t, save_auto_prefs(t, ext))
<1> DEFINE a == load_prefs(t, <<"global", ext>>)
           b == load_prefs(a, <<"user", ext>>)
           r == WithSyntax(b, ext)
<1>1. load_auto_prefs(t, ext) = IF ext = NoSyntax THEN Err(t, "HAS_NO_EXTENSION") ELSE r
  BY DEF load_auto_prefs
<1>2. Stays({}, t, a)
  BY LoadPrefsStays
<1> HIDE DEF a
<1>3. Stays({}, a, b)
  BY <1>2, LoadPrefsStays DEF Stays
<1> HIDE DEF b
<1>4. Stays({}, b, r)
  <2>1. Fine({}, b)
    BY <1>3 DEF Stays
  <2>2. Stays({}, b, [b EXCEPT !.doc[b.cur].syn = SyntaxFor[ext]]) /\ Stays({}, b, b)
    BY <2>1, MarksStay, Follows
  <2> QED
    BY <2>2 DEF WithSyntax, WithSyntaxFor
<1> HIDE DEF r
<1>5. Stays({}, t, r)
  BY <1>2, <1>3, <1>4, Follows
<1>6. Stays({}, t, save_auto_prefs(t, ext))
  BY ErrStays, SavePrefsStays DEF save_auto_prefs
<1> QED
  BY <1>1, <1>5, <1>6, ErrStays

-----------------------------------------------------------------------------
(* The first elements of a sequence.                                       *)
LEMMA FrontIs ==
  ASSUME NEW S, NEW q \in Seq(S), q # <<>>
  PROVE  /\ Front(q) \in Seq(S) /\ Len(Front(q)) = Len(q) - 1 /\ Last(q) \in S /\ Len(q) \in Nat \ {0}
         /\ \A i \in 1 .. Len(q) - 1 : Front(q)[i] = q[i]
<1>1. Len(q) \in Nat \ {0}
  OBVIOUS
<1>2. Len(q) - 1 \in Nat /\ Len(q) - 1 <= Len(q) /\ 1 \in Nat \ {0}
  BY <1>1
<1> DEFINE n == Len(q) - 1
<1>3. n \in Nat /\ n <= Len(q)
  BY <1>2
<1> HIDE DEF n
<1>4. /\ SubSeq(q, 1, n) \in Seq(S) /\ Len(SubSeq(q, 1, n)) = IF 1 <= n THEN n - 1 + 1 ELSE 0
      /\ \A i \in 1 .. n - 1 + 1 : SubSeq(q, 1, n)[i] = q[1 + i - 1]
  BY <1>2, <1>3, SubSeqOfSeq
<1>5. Len(SubSeq(q, 1, n)) = n /\ \A i \in 1 .. n : SubSeq(q, 1, n)[i] = q[i]
  BY <1>3, <1>4
<1>6. Last(q) \in S
  BY <1>1 DEF Last
<1> QED
  BY <1>1, <1>4, <1>5, <1>6 DEF n, Front

(* SaveMacro leaves lines.                                                 *)
LEMMA OptimizedLines ==
  ASSUME NEW lines, AreLines(lines)
  PROVE  AreLines(optimize_macro(lines))
<1> DEFINE n == Len(lines)
           Rests == UNION {ToSet(lines[i].rest) : i \in 1 .. n}
           Chars == {CharOf[k] : k \in DOMAIN CharOf}
           R == Rests \cup {Quote} \cup Chars
           W == {lines[i].word : i \in 1 .. n} \cup {"InsertString"}
           L == [word : W, rest : Seq(R)]
           S == {x \in [out : Seq(L), building : BOOLEAN] : x.building => x.out # <<>>}
           b == [out |-> <<>>, building |-> FALSE]
           seq == [i \in DOMAIN lines |-> i]
           One(st, i) ==
             LET chr == insertchar_val(lines[i]) IN
             IF chr \in DOMAIN CharOf /\ vet_optimize_macro_stream(SubSeq(lines, i, Len(lines)))
               THEN [out |-> IF st.building
                               THEN Append(Front(st.out), AddChar(Last(st.out), CharOf[chr]))
                               ELSE Append(st.out, Line("InsertString", <<Quote, CharOf[chr], Quote>>)),
                     building |-> TRUE]
               ELSE [out |-> Append(st.out, lines[i]), building |-> FALSE]
           G == [z \in S \X (1 .. n) |-> One(z[1], seq[z[2]])]
           IsFold(h) == h = [t \in SUBSET DOMAIN seq |->
                               IF t = {} THEN b ELSE LET k == Max(t) IN One(h[t \ {k}], seq[k])]
           c == CHOOSE h : IsFold(h)
<1>a. optimize_macro(lines) = FoldLeft(LAMBDA st, i : One(st, i), b, seq).out
  BY DEF optimize_macro
<1>b. FoldLeft(LAMBDA st, i : One(st, i), b, seq) = c[DOMAIN seq]
  BY ONLY DEF FoldLeft, MapThenFoldSet, c, IsFold
<1>1. n \in Nat /\ DOMAIN lines = 1 .. n /\ \A i \in 1 .. n : IsLine(lines[i])
  BY SequenceIs DEF AreLines
<1>2. DOMAIN seq = 1 .. n /\ \A k \in 1 .. n : seq[k] = k
  BY <1>1
<1>3. b \in S
  <2>1. <<>> \in Seq(L)
    OBVIOUS
  <2> HIDE DEF L
  <2> QED
    BY <2>1
<1>4. ASSUME NEW i \in 1 .. n PROVE lines[i] \in L
  <2>1. IsSequence(lines[i].rest) /\ lines[i] = [word |-> lines[i].word, rest |-> lines[i].rest]
    BY <1>1 DEF IsLine, Line
  <2>2. lines[i].rest \in Seq(ToSet(lines[i].rest)) /\ ToSet(lines[i].rest) \subseteq R
    BY <2>1, SequenceIs
  <2>3. \A U, V, x : x \in Seq(U) /\ U \subseteq V => x \in Seq(V)
    OBVIOUS
  <2>4. lines[i].word \in W
    OBVIOUS
  <2> HIDE DEF R, W
  <2>5. lines[i].rest \in Seq(R)
    BY <2>2, <2>3
  <2> QED
    BY <2>1, <2>4, <2>5
<1>5. ASSUME NEW chr \in DOMAIN CharOf
      PROVE  /\ Line("InsertString", <<Quote, CharOf[chr], Quote>>) \in L
             /\ \A line \in L : AddChar(line, CharOf[chr]) \in L
  <2>a. CharOf[chr] \in Chars
    OBVIOUS
  <2> HIDE DEF Chars, Rests
  <2>1. Quote \in R /\ CharOf[chr] \in R /\ "InsertString" \in W
    BY <2>a
  <2> HIDE DEF R, W
  <2>2. <<Quote, CharOf[chr], Quote>> \in Seq(R) /\ <<Quote>> \in Seq(R)
    BY <2>1
  <2>3. ASSUME NEW line \in L PROVE AddChar(line, CharOf[chr]) \in L
    <3> DEFINE front == Front(line.rest)
               more == Append(front, CharOf[chr])
    <3>1. line.rest \in Seq(R) /\ line.word \in W
      OBVIOUS
    <3>2. front \in Seq(R)
      <4>1. CASE line.rest = <<>>
        <5>1. IsSequence(line.rest) /\ Len(line.rest) - 1 \in Int /\ Len(line.rest) - 1 <= Len(line.rest) /\ ~(1 <= Len(line.rest) - 1)
          BY <3>1, <4>1, SequenceIs
        <5> DEFINE k == Len(line.rest) - 1
        <5>a. k \in Int /\ k <= Len(line.rest) /\ ~(1 <= k) /\ 1 \in Nat \ {0}
          BY <5>1
        <5> HIDE DEF k
        <5>b. IsSequence(SubSeq(line.rest, 1, k)) /\ Len(SubSeq(line.rest, 1, k)) = 0
          BY <5>1, <5>a, SequencePart
        <5>2. IsSequence(front) /\ Len(front) = 0
          BY <5>b DEF Front, k
        <5> HIDE DEF front
        <5>3. front \in Seq(ToSet(front)) /\ ToSet(front) = {}
          BY <5>2, SequenceIs DEF ToSet
        <5> QED
          BY <5>3
      <4>2. CASE line.rest # <<>>
        BY <3>1, <4>2, FrontIs
      <4> QED
        BY <4>1, <4>2
    <3> HIDE DEF front
    <3>3. more \in Seq(R)
      BY <2>1, <3>2
    <3> HIDE DEF more
    <3>4. more \o <<Quote>> \in Seq(R)
      BY <2>2, <3>3, ConcatType
    <3>5. AddChar(line, CharOf[chr]) = [line EXCEPT !.rest = more \o <<Quote>>]
      BY DEF AddChar, more, front
    <3> QED
      BY <3>1, <3>4, <3>5
  <2>4. Line("InsertString", <<Quote, CharOf[chr], Quote>>) \in L
    BY <2>1, <2>2 DEF Line
  <2> QED
    BY <2>3, <2>4
<1> HIDE DEF L
<1>6. ASSUME NEW st \in S, NEW k \in 1 .. n PROVE One(st, seq[k]) \in S
  <2> DEFINE chr == insertchar_val(lines[k])
             ok == chr \in DOMAIN CharOf /\ vet_optimize_macro_stream(SubSeq(lines, k, Len(lines)))
             joined == Append(Front(st.out), AddChar(Last(st.out), CharOf[chr]))
             begun == Append(st.out, Line("InsertString", <<Quote, CharOf[chr], Quote>>))
             other == Append(st.out, lines[k])
             more == IF st.building THEN joined ELSE begun
  <2>1. One(st, seq[k]) = IF ok THEN [out |-> more, building |-> TRUE] ELSE [out |-> other, building |-> FALSE]
    BY <1>2
  <2>2. st.out \in Seq(L) /\ st.building \in BOOLEAN /\ (st.building => st.out # <<>>)
    OBVIOUS
  <2>3. other \in Seq(L)
    BY <1>4, <2>2
  <2>4. ASSUME chr \in DOMAIN CharOf PROVE more \in Seq(L) /\ more # <<>>
    <3> HIDE DEF chr, S
    <3>1. CASE st.building
      <4>1. Front(st.out) \in Seq(L) /\ Last(st.out) \in L
        BY <2>2, <3>1, FrontIs
      <4> DEFINE line == AddChar(Last(st.out), CharOf[chr])
                 front == Front(st.out)
      <4>2. line \in L /\ front \in Seq(L) /\ joined = Append(front, line)
        BY <1>5, <2>4, <4>1
      <4> HIDE DEF line, front, joined
      <4>3. joined \in Seq(L) /\ Len(joined) = Len(front) + 1 /\ Len(front) \in Nat
        BY <4>2, AppendProperties
      <4>4. joined # <<>>
        BY <4>3
      <4> QED
        BY <3>1, <4>3, <4>4
    <3>2. CASE ~st.building
      <4> DEFINE line == Line("InsertString", <<Quote, CharOf[chr], Quote>>)
      <4>1. line \in L /\ begun = Append(st.out, line)
        BY <1>5, <2>4
      <4> HIDE DEF line, begun
      <4>2. begun \in Seq(L) /\ Len(begun) = Len(st.out) + 1 /\ Len(st.out) \in Nat
        BY <2>2, <4>1, AppendProperties
      <4>3. begun # <<>>
        BY <4>2
      <4> QED
        BY <3>2, <4>2, <4>3
    <3> QED
      BY <3>1, <3>2
  <2> HIDE DEF chr, more, other, One
  <2>5. ok => [out |-> more, building |-> TRUE] \in S
    BY <2>4
  <2>6. [out |-> other, building |-> FALSE] \in S
    BY <2>3
  <2> HIDE DEF ok, S
  <2> QED
    BY <2>1, <2>5, <2>6
<1> HIDE DEF n, b, seq, One, S
<1>7. G \in [S \X (1 .. n) -> S] /\ \A x \in S, k \in 1 .. n : G[<<x, k>>] = One(x, seq[k])
  BY <1>6
<1> HIDE DEF G
<1>8. \A t \in SUBSET (1 .. n) : t # {} => Max(t) \in 1 .. n
  BY <1>1, MaxUpTo
<1>9. IsFold(c)
  <2>1. PICK h \in [SUBSET (1 .. n) -> S] : FoldsBy(h, b, n, G)
    BY <1>1, <1>3, <1>7, FoldExists
  <2>2. \A t \in SUBSET (1 .. n) : h[t] = IF t = {} THEN b ELSE G[<<h[t \ {Max(t)}], Max(t)>>]
    BY ONLY <2>1 DEF FoldsBy
  <2>3. \A t \in SUBSET (1 .. n) : t # {} => G[<<h[t \ {Max(t)}], Max(t)>>] = One(h[t \ {Max(t)}], seq[Max(t)])
    BY <1>7, <1>8
  <2>4. h = [t \in SUBSET (1 .. n) |-> h[t]]
    OBVIOUS
  <2>5. h = [t \in SUBSET (1 .. n) |-> IF t = {} THEN b ELSE One(h[t \ {Max(t)}], seq[Max(t)])]
    BY <2>2, <2>3, <2>4
  <2>6. IsFold(h)
    BY <1>2, <2>5
  <2> HIDE DEF IsFold
  <2> QED
    BY ONLY <2>6 DEF c
<1> HIDE DEF c
<1>10. FoldsIn(S, c, b, n, G)
  <2>1. \A t \in SUBSET (1 .. n) : c[t] = IF t = {} THEN b ELSE One(c[t \ {Max(t)}], seq[Max(t)])
    BY <1>2, <1>9
  <2> HIDE DEF IsFold
  <2>2. {} \in SUBSET (1 .. n)
    OBVIOUS
  <2> QED
    BY <1>7, <1>8, <2>1, <2>2 DEF FoldsIn
<1> HIDE DEF IsFold
<1>11. RunsTo(S, c[1 .. n], b, n, G)
  BY <1>1, <1>3, <1>7, <1>10, FoldTrace
<1>12. c[1 .. n] \in S
  BY <1>1, <1>11 DEF RunsTo
<1>13. optimize_macro(lines) \in Seq(L)
  BY <1>a, <1>b, <1>2, <1>12 DEF S
<1> DEFINE q == optimize_macro(lines)
<1>14. IsSequence(q) /\ DOMAIN q = 1 .. Len(q) /\ \A i \in 1 .. Len(q) : q[i] \in L
  BY <1>13, SequenceIs
<1> HIDE DEF q, R, W
<1>15. \A x \in L : IsLine(x)
  <2> SUFFICES ASSUME NEW x \in L PROVE IsLine(x)
    OBVIOUS
  <2>1. x.rest \in Seq(R) /\ x = [word |-> x.word, rest |-> x.rest]
    BY DEF L
  <2> QED
    BY <2>1, SequenceIs DEF IsLine, Line
<1> QED
  BY <1>14, <1>15 DEF AreLines, q

-----------------------------------------------------------------------------
(* A macro begins, if there are not too many.                              *)
LEMMA PlayMacroStays ==
  ASSUME NEW E, NEW t, Fine(E, t), NEW lines, AreLines(lines), NEW times, NEW name
  PROVE  Stays(E, t, play_macro(t, lines, times, name))
<1> DEFINE noted == Note(t, "include", name)
           frame == [lines |-> lines, at |-> 1, times |-> times, name |-> name]
           v == Append(noted.frames, frame)
           a == [noted EXCEPT !.frames = v]
           r == [noted EXCEPT !.error = OK, !.stop = FALSE, !.frames = v]
<1>1. Stays(E, t, noted) /\ DOMAIN t = Fields
  BY NoteStays, DocOf
<1>2. noted.frames = t.frames
  BY <1>1 DEF Note, Fields
<1>3. \A e : Stays(E, t, Note(Err(noted, e), "conclude", name))
  <2> SUFFICES ASSUME NEW e PROVE Stays(E, t, Note(Err(noted, e), "conclude", name))
    OBVIOUS
  <2> HIDE DEF noted
  <2>1. Stays(E, noted, Err(noted, e))
    BY <1>1, ErrStays DEF Stays
  <2>2. Stays(E, t, Err(noted, e))
    BY <1>1, <2>1, Follows
  <2>3. Stays(E, Err(noted, e), Note(Err(noted, e), "conclude", name))
    BY <2>1, NoteStays DEF Stays
  <2> QED
    BY <2>2, <2>3, Follows
<1>4. ASSUME ~TooDeep(t) PROVE Stays(E, t, r)
  <2>1. IsFrame(frame)
    BY DEF IsFrame
  <2>2. IsSequence(t.frames) /\ Len(t.frames) <= MaxDepth /\ \A i \in DOMAIN t.frames : IsFrame(t.frames[i])
    BY DEF Fine, Held, AreFrames
  <2>3. Len(t.frames) \in Nat /\ DOMAIN t.frames = 1 .. Len(t.frames)
    BY <2>2, SequenceIs
  <2>4. Len(t.frames) + 1 <= MaxDepth
    BY <1>4, <2>3, LimitsAssumption DEF TooDeep
  <2> HIDE DEF frame
  <2>5. /\ IsSequence(v) /\ Len(v) = Len(t.frames) + 1
        /\ \A i \in 1 .. Len(t.frames) + 1 : v[i] = IF i = Len(t.frames) + 1 THEN frame ELSE t.frames[i]
    BY <1>2, <2>2, SequenceExtended
  <2> HIDE DEF v
  <2>6. DOMAIN v = 1 .. Len(t.frames) + 1
    BY <2>5, SequenceIs
  <2>7. AreFrames(v)
    BY <2>1, <2>2, <2>3, <2>4, <2>5, <2>6 DEF AreFrames
  <2>8. v # <<>>
    BY <2>3, <2>5
  <2> HIDE DEF noted
  <2>9. Fine(E, noted) /\ DOMAIN noted = Fields
    BY <1>1, DocOf DEF Stays
  <2>10. Stays(E, noted, a)
    BY <2>7, <2>8, <2>9, PartStays
  <2>11. Fine(E, a) /\ DOMAIN a = Fields
    BY <2>10, DocOf DEF Stays
  <2>12. /\ DOMAIN r = Fields /\ r.order = a.order /\ r.recent = a.recent /\ r.cur = a.cur /\ r.doc = a.doc
         /\ r.disk = a.disk /\ r.scripts = a.scripts /\ r.macros = a.macros /\ r.recording = a.recording
         /\ r.frames = a.frames /\ r.pstack = a.pstack /\ r.mode = a.mode
    BY <2>9 DEF Fields
  <2> HIDE DEF a, r
  <2>13. Stays(E, a, r)
    BY <2>11, <2>12, Aside
  <2>14. Stays(E, t, a)
    BY <1>1, <2>10, Follows
  <2> QED
    BY <2>13, <2>14, Follows
<1>5. \/ play_macro(t, lines, times, name) = Note(Err(noted, OK), "conclude", name)
      \/ play_macro(t, lines, times, name) = Note(Err(noted, "MAX_MACRO_DEPTH_EXCEEDED"), "conclude", name)
      \/ ~TooDeep(t) /\ play_macro(t, lines, times, name) = r
  BY DEF play_macro
<1> HIDE DEF noted, r
<1> QED
  BY <1>3, <1>4, <1>5

(* A macro is called, and loaded if it is not yet.                         *)
LEMMA ExecuteStays ==
  ASSUME NEW E, NEW t, Fine(E, t), NEW name
  PROVE  Stays(E, t, execute_macro(t, name))
<1>1. AreMacros(t.macros) /\ AreMacros(t.scripts) /\ DOMAIN t = Fields
  BY DEF Fine, Held
<1>2. CASE name \in DOMAIN t.macros
  <2>1. AreLines(t.macros[name])
    BY <1>1, <1>2 DEF AreMacros
  <2>2. Stays(E, t, play_macro(t, t.macros[name], 1, name))
    BY <2>1, PlayMacroStays
  <2> QED
    BY <1>2, <2>2 DEF execute_macro
<1>3. CASE name \notin DOMAIN t.macros /\ Places(t, name) # {}
  <2> DEFINE P == Places(t, name)
             key == <<FirstPlace(t, name), name>>
             v == Updated(t.macros, name, t.scripts[key])
             a == load_macro(t, name)
  <2>1. P # {} /\ P \subseteq 1 .. 3
    BY <1>3 DEF Places
  <2>2. \E i \in P : \A j \in P : i <= j
    <3> HIDE DEF P
    <3>1. \A j \in P : j = 1 \/ j = 2 \/ j = 3
      BY <2>1
    <3>2. CASE 1 \in P
      BY <3>1, <3>2
    <3>3. CASE 1 \notin P /\ 2 \in P
      BY <3>1, <3>3
    <3>4. CASE 1 \notin P /\ 2 \notin P
      <4>1. 3 \in P /\ \A j \in P : j = 3
        BY <2>1, <3>1, <3>4
      <4>2. \A j \in P : 3 <= j
        BY <4>1
      <4> QED
        BY <4>1, <4>2
    <3> QED
      BY <3>2, <3>3, <3>4
  <2> DEFINE k == CHOOSE i \in P : \A j \in P : i <= j
  <2>3. k \in P
    BY <2>2
  <2>4. key = <<(<<"here", "user", "global">>)[k], name>>
    BY DEF FirstPlace
  <2> HIDE DEF k
  <2>5. key \in DOMAIN t.scripts
    BY <2>3, <2>4 DEF Places
  <2> HIDE DEF key, P
  <2>6. AreLines(t.scripts[key])
    BY <1>1, <2>5 DEF AreMacros
  <2>7. DOMAIN v = DOMAIN t.macros \cup {name} /\ v[name] = t.scripts[key]
        /\ \A m \in DOMAIN t.macros : m # name => v[m] = t.macros[m]
    BY DEF Updated
  <2>8. a = [t EXCEPT !.macros = v]
    BY DEF load_macro, key
  <2> HIDE DEF v
  <2>9. AreMacros(v)
    BY <1>1, <2>6, <2>7 DEF AreMacros
  <2>10. a.macros[name] = t.scripts[key]
    BY <1>1, <2>7, <2>8 DEF Fields
  <2> HIDE DEF a
  <2>11. Stays(E, t, a)
    BY <2>8, <2>9, PartStays
  <2>12. Stays(E, a, play_macro(a, a.macros[name], 1, name))
    BY <2>6, <2>10, <2>11, PlayMacroStays DEF Stays
  <2>13. execute_macro(t, name) = play_macro(a, a.macros[name], 1, name)
    BY <1>3 DEF execute_macro, a
  <2> QED
    BY <2>11, <2>12, <2>13, Follows
<1>4. CASE name \notin DOMAIN t.macros /\ Places(t, name) = {}
  <2>1. execute_macro(t, name) = Err(t, "CANT_OPEN_MACRO")
    BY <1>4 DEF execute_macro
  <2> QED
    BY <2>1, ErrStays
<1> QED
  BY <1>2, <1>3, <1>4

(* The macros that are played go on without their names.                   *)
LEMMA UnloadStays ==
  ASSUME NEW E, NEW t, Fine(E, t)
  PROVE  Stays(E, t, unload_macros(t))
<1> DEFINE fr == t.frames
           New(i) == IF fr[i].name = Unnamed THEN fr[i] ELSE [fr[i] EXCEPT !.name = Freed]
           v == [i \in DOMAIN fr |-> New(i)]
           a == [t EXCEPT !.macros = <<>>]
           r == unload_macros(t)
<1>1. /\ DOMAIN t = Fields /\ IsSequence(fr) /\ Len(fr) <= MaxDepth
      /\ \A i \in DOMAIN fr : IsFrame(fr[i])
  BY DEF Fine, Held, AreFrames
<1>2. Len(fr) \in Nat /\ DOMAIN fr = 1 .. Len(fr)
  BY <1>1, SequenceIs
<1>3. \A i \in DOMAIN fr : IsFrame(New(i))
  BY <1>1 DEF IsFrame
<1>4. a = [t EXCEPT !.macros = <<>>] /\ a.frames = fr /\ DOMAIN a = Fields
  BY <1>1 DEF Fields
<1>5. r = [a EXCEPT !.frames = v]
  BY <1>1 DEF unload_macros, Fields
<1> HIDE DEF fr, New, a, r
<1>6. DOMAIN v = 1 .. Len(fr) /\ \A i \in DOMAIN v : IsFrame(v[i])
  BY <1>2, <1>3
<1>7. IsSequence(v) /\ Len(v) = Len(fr)
  <2> DEFINE R == {New(i) : i \in DOMAIN fr}
  <2>1. v \in [1 .. Len(fr) -> R]
    BY <1>2
  <2> HIDE DEF R, v
  <2>2. v \in Seq(R)
    BY <1>2, <2>1, SeqDef
  <2> QED
    BY <1>2, <2>1, <2>2, SequenceIs
<1> HIDE DEF v
<1>8. AreFrames(v)
  BY <1>1, <1>6, <1>7 DEF AreFrames
<1>9. fr # <<>> => v # <<>>
  <2> SUFFICES ASSUME fr # <<>> PROVE v # <<>>
    OBVIOUS
  <2>1. Len(fr) # 0
    BY <1>1, SequenceIs
  <2> QED
    BY <1>7, <2>1
<1>10. AreMacros(<<>>)
  <2>1. DOMAIN <<>> = {}
    OBVIOUS
  <2> QED
    BY <2>1 DEF AreMacros
<1>11. Stays(E, t, a)
  BY <1>4, <1>10, PartStays
<1>12. Stays(E, a, r)
  <2>1. Fine(E, a) /\ (a.frames # <<>> => v # <<>>)
    BY <1>4, <1>9, <1>11 DEF Stays
  <2> QED
    BY ONLY <1>5, <1>8, <2>1, PartStays
<1> QED
  BY <1>11, <1>12, Follows DEF r

(* Recording begins and ends.                                              *)
LEMMA RecordStays ==
  ASSUME NEW E, NEW t, Fine(E, t), NEW c
  PROVE  Stays(E, t, Record(t, c)) /\ Stays(E, t, RECORD(t, c))
<1>1. AreLines(t.recording) /\ AreLines(CurDoc(t).cur_macro) /\ DOMAIN t = Fields
  BY DocOf DEF Fine, Held, IsDoc
<1>2. AreLines(NoStream) /\ AreLines(<<>>)
  BY ShortSequences, ShortLines DEF NoStream
<1> DEFINE a == [t EXCEPT !.doc[t.cur].cur_macro = t.recording]
           b == [a EXCEPT !.recording = NoStream]
           r == Record(t, c)
<1>3. Stays(E, t, b)
  <2>1. Stays(E, t, a)
    BY <1>1, MacroStays
  <2> HIDE DEF a
  <2>2. Stays(E, a, b)
    BY <1>2, <2>1, PartStays DEF Stays
  <2> HIDE DEF b
  <2> QED
    BY <2>1, <2>2, Follows
<1>4. \A v : AreLines(v) => Stays(E, t, [t EXCEPT !.recording = v])
  BY PartStays
<1>5. b = [t EXCEPT !.doc[t.cur].cur_macro = t.recording, !.recording = NoStream]
  OBVIOUS
<1>6. \/ r = b \/ r = Err(t, "ERROR")
      \/ \E v \in {NoStream, CurDoc(t).cur_macro, <<>>} : r = [t EXCEPT !.recording = v]
  BY <1>5 DEF Record
<1> HIDE DEF b, r
<1>7. Stays(E, t, r)
  BY <1>1, <1>2, <1>3, <1>4, <1>6, ErrStays
<1>8. DOMAIN r = Fields /\ Fine(E, r)
  BY <1>7, DocOf DEF Stays
<1> DEFINE q == RECORD(t, c)
           done == IF t.recording # NoStream THEN r.done
                   ELSE IF c = 1 THEN Asked(CurDoc(t).cur_macro) ELSE <<>>
<1>9. q = [r EXCEPT !.done = done]
  BY DEF RECORD, r
<1> HIDE DEF q, done
<1>10. /\ DOMAIN q = Fields /\ q.order = r.order /\ q.recent = r.recent /\ q.cur = r.cur /\ q.doc = r.doc
       /\ q.disk = r.disk /\ q.scripts = r.scripts /\ q.macros = r.macros /\ q.recording = r.recording
       /\ q.frames = r.frames /\ q.pstack = r.pstack /\ q.mode = r.mode
  BY <1>8, <1>9 DEF Fields
<1>11. Stays(E, r, q)
  BY <1>8, <1>10, Aside
<1> QED
  BY <1>7, <1>11, Follows DEF r, q

(* Macros are saved and loaded.                                            *)
LEMMA MacroFilesStay ==
  ASSUME NEW E, NEW t, Fine(E, t), NEW file
  PROVE  /\ Stays(E, t, SAVEMACRO([t EXCEPT !.doc[t.cur].cur_macro = optimize_macro(@)], file))
         /\ Stays(E, t, OPENMACRO(t, file))
<1>1. AreLines(CurDoc(t).cur_macro) /\ DOMAIN t = Fields /\ AreMacros(t.scripts)
  BY DocOf DEF Fine, Held, IsDoc
<1> DEFINE a == [t EXCEPT !.doc[t.cur].cur_macro = optimize_macro(CurDoc(t).cur_macro)]
<1>2. Stays(E, t, a)
  BY <1>1, OptimizedLines, MacroStays
<1>3. a = [t EXCEPT !.doc[t.cur].cur_macro = optimize_macro(@)]
  BY DEF CurDoc
<1> HIDE DEF a
<1> DEFINE v == Updated(a.scripts, <<"here", file>>, CurDoc(a).cur_macro)
           r == SAVEMACRO(a, file)
<1>4. Stays(E, t, r)
  <2>1. Fine(E, a) /\ AreMacros(a.scripts) /\ AreLines(CurDoc(a).cur_macro)
    BY <1>2, DocOf DEF Stays, Fine, Held, IsDoc
  <2>2. AreMacros(v)
    BY <2>1 DEF AreMacros, Updated
  <2>3. r = [a EXCEPT !.scripts = v]
    BY DEF SAVEMACRO
  <2> HIDE DEF v, r
  <2>4. Stays(E, a, r)
    BY <2>1, <2>2, <2>3, PartStays
  <2> QED
    BY <1>2, <2>4, Follows
<1>5. Stays(E, t, OPENMACRO(t, file))
  <2>1. CASE file \in DOMAIN t.scripts
    <3>1. AreLines(t.scripts[file])
      BY <1>1, <2>1 DEF AreMacros
    <3>2. Stays(E, t, [t EXCEPT !.doc[t.cur].cur_macro = t.scripts[file]])
      BY <3>1, MacroStays
    <3> QED
      BY <2>1, <3>2 DEF OPENMACRO
  <2>2. CASE file \notin DOMAIN t.scripts
    BY <2>2, ErrStays DEF OPENMACRO
  <2> QED
    BY <2>1, <2>2
<1> QED
  BY <1>3, <1>4, <1>5 DEF r

-----------------------------------------------------------------------------
(* The preferences for a document, those for its extension or the defaults.*)
LEMMA WithAutoPrefsStays ==
  ASSUME NEW t, Fine({}, t)
  PROVE  Stays({}, t, WithAutoPrefs(t))
<1>1. \A ext : Stays({}, t, load_auto_prefs(t, ext))
  BY AutoPrefsStay
<1> QED
  BY <1>1, Follows DEF WithAutoPrefs, OrDefPrefs

(* The new document takes the macro of the one before it.                  *)
LEMMA FromOldStays ==
  ASSUME NEW t, Fine({}, t), Second(t)
  PROVE  Stays({}, t, FromOld(t)) /\ Len(t.order) > 1
<1> DEFINE k == PlaceIn(t.order, t.cur)
           old == t.order[k - 1]
<1>1. IsOrder(DOMAIN t.doc, t.order) /\ t.cur \in DOMAIN t.doc
  BY DEF Fine, Listed
<1>2. /\ Len(t.order) \in Nat /\ k \in 1 .. Len(t.order)
      /\ \A i \in 1 .. Len(t.order) : t.order[i] \in DOMAIN t.doc
  BY <1>1, OrderIs
<1>3. k > 1
  BY DEF Second
<1> HIDE DEF k
<1>4. k - 1 \in 1 .. Len(t.order) /\ Len(t.order) > 1
  BY <1>2, <1>3
<1>5. old \in DOMAIN t.doc
  BY <1>2, <1>4
<1> HIDE DEF old
<1>6. AreLines(t.doc[old].cur_macro)
  BY <1>5, DocOf DEF IsDoc
<1>7. Stays({}, t, [t EXCEPT !.doc[t.cur].cur_macro = t.doc[old].cur_macro])
  BY <1>6, MacroStays
<1> QED
  BY <1>4, <1>7 DEF FromOld, old, k

(* PrevDoc, that is recorded.                                              *)
LEMMA GoBackGoes ==
  ASSUME NEW t, Fine({}, t)
  PROVE  Goes({}, t, GoBack(t)) /\ GoBack(t).order = t.order
<1> DEFINE x == Action("PrevDoc", 1, NoString)
           a == Recorded(t, x)
<1>1. IsSequence(x.p)
  BY ShortSequences DEF Action, NoString
<1> HIDE DEF x
<1>2. Stays({}, t, a)
  BY <1>1, RecordedStays
<1> HIDE DEF a
<1>3. Goes({}, a, PREVDOC(a)) /\ PREVDOC(a).order = a.order
  BY <1>2, AroundGoes DEF Stays
<1>4. a.order = t.order /\ Goes({}, t, a)
  BY <1>2, Follows DEF Stays, SameList
<1>5. GoBack(t) = PREVDOC(a)
  BY DEF GoBack, a, x
<1> QED
  BY <1>3, <1>4, <1>5, Follows

(* The file was loaded: the new document is kept, and maybe the old one.   *)
LEMMA KeptGoes ==
  ASSUME NEW t, Fine({}, t), Second(t), NEW name, NEW new
  PROVE  Goes({}, t, Kept(t, name, new))
<1> DEFINE n == Named_(t, name)
           w == WithAutoPrefs(n)
           f == FromOld(w)
           k == Err(f, t.error)
           g == GoBack(k)
<1>1. Stays({}, t, n)
  BY MarksStay DEF Named_
<1> HIDE DEF n
<1>2. Stays({}, n, w)
  BY <1>1, WithAutoPrefsStays DEF Stays
<1> HIDE DEF w
<1>3. Stays({}, t, w)
  BY <1>1, <1>2, Follows
<1>4. Fine({}, w) /\ w.order = t.order /\ w.cur = t.cur
  BY <1>3 DEF Stays, SameList
<1>5. Second(w)
  BY <1>4 DEF Second
<1>6. Stays({}, w, f) /\ Len(w.order) > 1
  BY <1>4, <1>5, FromOldStays
<1> HIDE DEF f
<1>7. Stays({}, f, k)
  BY <1>6, ErrStays DEF Stays
<1> HIDE DEF k
<1>8. Stays({}, w, k)
  BY <1>6, <1>7, Follows
<1>9. Stays({}, t, k)
  BY <1>3, <1>8, Follows
<1>10. Fine({}, k) /\ Len(k.order) > 1 /\ Goes({}, t, k)
  BY <1>4, <1>6, <1>9, Follows DEF Stays, SameList
<1>11. Goes({}, k, g) /\ g.order = k.order
  BY <1>10, GoBackGoes
<1> HIDE DEF g
<1>12. Goes({}, g, delete_buffer(g))
  <2>1. Fine({}, g) /\ Len(g.order) > 1
    BY <1>10, <1>11 DEF Goes
  <2> QED
    BY <2>1, DeleteGoes
<1>13. Goes({}, t, delete_buffer(g))
  <2>1. Goes({}, k, delete_buffer(g))
    BY <1>11, <1>12, Follows
  <2> QED
    BY <1>10, <2>1, Follows
<1>14. Kept(t, name, new) = IF new THEN k ELSE delete_buffer(g)
  BY DEF Kept, n, w, f, k, g
<1> QED
  BY <1>10, <1>13, <1>14

(* It was not: the new document goes away.                                 *)
LEMMA NotKeptGoes ==
  ASSUME NEW t, Fine({}, t), Second(t)
  PROVE  Goes({}, t, NotKept(t))
<1> DEFINE a == delete_buffer(t)
           g == GoBack(a)
           e == t.error
<1>1. Goes({}, t, a)
  BY FromOldStays, DeleteGoes
<1> HIDE DEF a
<1>2. Goes({}, a, g)
  BY <1>1, GoBackGoes DEF Goes
<1> HIDE DEF g
<1>3. Goes({}, t, g) /\ Fine({}, g)
  BY <1>1, <1>2, Follows DEF Goes
<1> HIDE DEF e
<1>4. Goes({}, g, Err(g, e))
  BY <1>3, ErrStays, Follows
<1>5. NotKept(t) = Err(g, e)
  BY DEF NotKept, a, g, e
<1> QED
  BY <1>3, <1>4, <1>5, Follows

(* Open and OpenNew.                                                       *)
LEMMA OpenFreshGoes ==
  ASSUME NEW t, Fine({}, t), Second(t), NEW name, NEW c, NEW new, NEW empty, NEW u
  PROVE  Goes({}, t, OpenFresh(t, name, c, new, empty, u))
<1> DEFINE asks == Named(t, name) # {} /\ ~(t.dprompt /\ c = 0)
           told == IF asks THEN [t EXCEPT !.dprompt = u.second] ELSE t
           loaded == load_file_in_buffer(told, name)
           made == Created(loaded, new, empty, u)
<1>1. Stays({}, t, told)
  <2> DEFINE r == [t EXCEPT !.dprompt = u.second]
  <2>1. DOMAIN t = Fields
    BY DocOf
  <2>2. /\ DOMAIN r = Fields /\ r.order = t.order /\ r.recent = t.recent /\ r.cur = t.cur /\ r.doc = t.doc
        /\ r.disk = t.disk /\ r.scripts = t.scripts /\ r.macros = t.macros /\ r.recording = t.recording
        /\ r.frames = t.frames /\ r.pstack = t.pstack /\ r.mode = t.mode
    BY <2>1 DEF Fields
  <2> HIDE DEF r
  <2>3. Stays({}, t, r)
    BY <2>2, Aside
  <2>4. told = IF asks THEN r ELSE t
    BY DEF r
  <2> HIDE DEF told, asks
  <2> QED
    BY <2>3, <2>4, Follows
<1> HIDE DEF told
<1>2. Stays({}, told, loaded)
  BY <1>1, LoadStays DEF Stays
<1> HIDE DEF loaded
<1>3. Stays({}, t, loaded)
  BY <1>1, <1>2, Follows
<1>4. Stays({}, t, made)
  <2>1. Stays({}, loaded, Err(loaded, OK))
    BY <1>3, ErrStays DEF Stays
  <2>2. Stays({}, t, Err(loaded, OK))
    BY <1>3, <2>1, Follows
  <2> QED
    BY <1>3, <2>2 DEF Created
<1> HIDE DEF made
<1>5. ASSUME NEW r, Stays({}, t, r) PROVE Fine({}, r) /\ Second(r) /\ Goes({}, t, r)
  BY <1>5, Follows DEF Second, Stays, SameList
<1>6. Goes({}, t, NotKept(Err(told, OK)))
  <2> DEFINE r == Err(told, OK)
  <2>1. Stays({}, told, r)
    BY <1>1, ErrStays DEF Stays
  <2> HIDE DEF r
  <2>2. Stays({}, t, r)
    BY <1>1, <2>1, Follows
  <2>3. Goes({}, r, NotKept(r)) /\ Goes({}, t, r)
    BY <1>5, <2>2, NotKeptGoes
  <2> QED
    BY <2>3, Follows DEF r
<1>7. Goes({}, t, KeptIfLoaded(made, name, new))
  <2>1. Fine({}, made) /\ Second(made) /\ Goes({}, t, made)
    BY <1>4, <1>5
  <2>2. Goes({}, made, Kept(made, name, new)) /\ Goes({}, made, NotKept(made))
    BY <2>1, KeptGoes, NotKeptGoes
  <2>3. Goes({}, t, Kept(made, name, new)) /\ Goes({}, t, NotKept(made))
    BY <2>1, <2>2, Follows
  <2> QED
    BY <2>3 DEF KeptIfLoaded
<1>8. OpenFresh(t, name, c, new, empty, u) =
        IF asks /\ ~u.second THEN NotKept(Err(told, OK)) ELSE KeptIfLoaded(made, name, new)
  BY DEF OpenFresh, made, loaded, told
<1> QED
  BY <1>6, <1>7, <1>8

(* With its questions.                                                     *)
LEMMA OpenGoes ==
  ASSUME NEW t, Fine({}, t), NEW name, NEW c, NEW new, NEW u
  PROVE  Goes({}, t, OPEN(t, name, c, new, u))
<1> DEFINE lose == ~new /\ CurDoc(t).is_modified
           a == IF lose THEN Agreed(t, "lose") ELSE t
           b == new_buffer(a)
           empty == is_buffer_empty(CurDoc(t))
<1>1. Stays({}, t, a)
  BY ErrStays, Follows
<1> HIDE DEF a
<1>2. ASSUME Free(t) # {} PROVE Goes({}, t, OpenFresh(b, name, c, new, empty, u))
  <2>1. Fine({}, a) /\ a.order = t.order /\ Goes({}, t, a)
    BY <1>1, Follows DEF Stays, SameList
  <2>2. Free(a) # {}
    BY <1>2, <2>1 DEF Free
  <2>3. Held({}, a) /\ IsOrder(DOMAIN a.doc, a.order) /\ IsOrder(DOMAIN a.doc, a.recent) /\ a.cur \in DOMAIN a.doc
    BY <2>1 DEF Fine, Listed
  <2>4. b = new_buffer(a)
    OBVIOUS
  <2> HIDE DEF b
  <2>5. Goes({}, a, b) /\ Second(b)
    BY <2>2, <2>3, <2>4, NewGoes
  <2>6. Goes({}, b, OpenFresh(b, name, c, new, empty, u))
    BY <2>5, OpenFreshGoes DEF Goes
  <2>7. Goes({}, t, b)
    BY <2>1, <2>5, Follows
  <2> QED
    BY <2>6, <2>7, Follows
<1>3. \A e : Goes({}, t, Err(t, e))
  BY ErrStays, Follows
<1>4. \/ \E e : OPEN(t, name, c, new, u) = Err(t, e)
      \/ Free(t) # {} /\ OPEN(t, name, c, new, u) = OpenFresh(b, name, c, new, empty, u)
  BY DEF OPEN, a, b, empty
<1> HIDE DEF b, empty
<1> QED
  BY <1>2, <1>3, <1>4

(* Save and SaveAs.                                                        *)
LEMMA SaveAsStays ==
  ASSUME NEW t, Fine({}, t), NEW name, NEW u, u.writes \in Nat
  PROVE  Stays({}, t, SAVEAS(t, name, u)) /\ Stays({}, t, SAVE(t, u))
<1>1. ASSUME NEW r, Fine({}, r), NEW on PROVE Stays({}, r, ReadOnly(r, on))
  <2>1. Stays({}, r, [r EXCEPT !.doc[r.cur].opt["read_only"] = on])
    BY <1>1, MarksStay
  <2> QED
    BY <2>1 DEF ReadOnly
<1>2. ASSUME NEW r, Fine({}, r), NEW path PROVE Stays({}, r, Renamed(r, path))
  <2> DEFINE other == CurDoc(r).name = None \/ extension(CurDoc(r).name) # extension(path)
             d == CurDoc(r)
             a == [r EXCEPT !.doc[r.cur].name = path]
             v == IF other THEN NoSyntax ELSE r.doc[r.cur].syn
             named == [r EXCEPT !.doc[r.cur].name = path, !.doc[r.cur].syn = IF other THEN NoSyntax ELSE @]
             ext == ExtensionOf([CurDoc(r) EXCEPT !.name = path])
  <2>1. Stays({}, r, named)
    <3> HIDE DEF other
    <3>1. named = [a EXCEPT !.doc[r.cur].syn = v]
      OBVIOUS
    <3>2. Stays({}, r, a)
      BY <1>2, MarksStay
    <3> HIDE DEF a, v, named
    <3>3. Fine({}, a) /\ a.cur = r.cur
      BY <3>2 DEF Stays, SameList
    <3>4. Stays({}, a, [a EXCEPT !.doc[a.cur].syn = v])
      BY <3>3, MarksStay
    <3>5. Stays({}, a, named)
      BY <3>1, <3>3, <3>4
    <3> QED
      BY <3>2, <3>5, Follows
  <2> HIDE DEF named
  <2>2. Stays({}, named, load_auto_prefs(named, ext))
    BY <2>1, AutoPrefsStay DEF Stays
  <2>3. Stays({}, r, load_auto_prefs(named, ext))
    BY <2>1, <2>2, Follows
  <2>4. Renamed(r, path) = IF other THEN load_auto_prefs(named, ext) ELSE named
    BY DEF Renamed, named
  <2> HIDE DEF other, ext
  <2> QED
    BY <2>1, <2>3, <2>4
<1>3. ASSUME NEW r, Fine({}, r), NEW path PROVE Stays({}, r, SavedAs(r, path))
  <2> DEFINE n == Renamed(r, path)
  <2>1. Stays({}, r, n)
    BY <1>2, <1>3
  <2> HIDE DEF n
  <2>2. Stays({}, n, Err(n, OK))
    BY <2>1, ErrStays DEF Stays
  <2>3. Stays({}, r, Err(n, OK)) /\ Stays({}, r, Err(r, "ERROR"))
    BY <1>3, <2>1, <2>2, Follows, ErrStays
  <2> QED
    BY <2>3 DEF SavedAs, n
<1>4. ASSUME NEW path PROVE Stays({}, t, SAVEAS(t, path, u))
  <2> DEFINE ro == CurDoc(t).opt.read_only
             changed == buffer_file_modified(t, t.cur, path)
             a == IF changed THEN Agreed(t, "overwrite") ELSE t
             b == ReadOnly(a, FALSE)
             c == save_buffer_to_file(b, t.cur, path, u)
             d == ReadOnly(c, ro)
             r == SavedAs(d, path)
  <2>1. Stays({}, t, a) /\ \A e : Stays({}, t, Err(t, e))
    BY ErrStays, Follows
  <2> HIDE DEF a
  <2>2. Stays({}, a, b)
    BY <1>1, <2>1 DEF Stays
  <2> HIDE DEF b
  <2>3. Stays({}, t, b)
    BY <2>1, <2>2, Follows
  <2>4. Stays({}, b, c)
    <3>1. Fine({}, b) /\ t.cur \in DOMAIN b.doc
      BY <2>3, DocOf DEF Stays, SameList
    <3> QED
      BY <3>1, SaveStays
  <2> HIDE DEF c
  <2>5. Stays({}, t, c)
    BY <2>3, <2>4, Follows
  <2> HIDE DEF ro
  <2>6. Stays({}, c, d)
    BY <1>1, <2>5 DEF Stays
  <2> HIDE DEF d
  <2>7. Stays({}, t, d)
    BY <2>5, <2>6, Follows
  <2>8. Stays({}, d, r)
    BY <1>3, <2>7 DEF Stays
  <2>9. Stays({}, t, r) /\ Stays({}, t, t)
    BY <2>7, <2>8, Follows
  <2>10. (\E e : SAVEAS(t, path, u) = Err(t, e)) \/ SAVEAS(t, path, u) = t \/ SAVEAS(t, path, u) = r
    BY DEF SAVEAS, r, d, c, b, a, ro
  <2> HIDE DEF r
  <2> QED
    BY <2>1, <2>9, <2>10
<1>5. Stays({}, t, SAVE(t, u))
  BY <1>4 DEF SAVE
<1> QED
  BY <1>4, <1>5

-----------------------------------------------------------------------------
(* What a command may leave, in a session that was in order.               *)
Comes(t, r) ==
  \/ Exited(r)
  \/ Fine({}, r) /\ r.mode \in {"editing", "selecting"} /\ (t.frames # <<>> => r.frames # <<>>)

(* How it comes to be.                                                     *)
LEMMA ComesIf ==
  ASSUME NEW t, t.mode \in {"editing", "selecting"}, NEW r, NEW q
  PROVE  /\ Goes({}, t, r) => Comes(t, r)
         /\ Stays({}, t, r) => Comes(t, r) /\ r.mode = t.mode
         /\ Stays({}, t, r) /\ Comes(r, q) => Comes(t, q)
         /\ Exited(r) => Comes(t, r)
<1>1. ASSUME Goes({}, t, r) PROVE Comes(t, r)
  BY <1>1 DEF Goes, Onward, Comes
<1>2. ASSUME Stays({}, t, r) PROVE Goes({}, t, r) /\ r.mode = t.mode
  BY <1>2 DEF Stays, Goes, Onward
<1>3. ASSUME Stays({}, t, r), Comes(r, q) PROVE Comes(t, q)
  BY <1>3 DEF Stays, Onward, Comes
<1>4. Exited(r) => Comes(t, r)
  BY DEF Comes
<1> QED
  BY <1>1, <1>2, <1>3, <1>4

(* The end of a session.                                                   *)
LEMMA LeavingComes ==
  ASSUME NEW t, Fine({}, t), t.mode = "editing", NEW u, u.writes \in Nat
  PROVE  Comes(t, EXIT(t, u)) /\ Comes(t, QUIT(t, u)) /\ Comes(t, CLOSEDOC(t, u))
<1>1. Comes(t, EXIT(t, u))
  <2> DEFINE a == save_all_modified_buffers(t, u)
             r == [a EXCEPT !.mode = "exited"]
  <2>1. Stays({}, t, a)
    BY SaveAllStays
  <2> HIDE DEF a
  <2>2. DOMAIN a = Fields
    BY <2>1, DocOf DEF Stays
  <2>3. Exited(r)
    BY <2>2 DEF Exited, Fields
  <2> HIDE DEF r
  <2>4. Comes(t, a) /\ Comes(t, r)
    BY <2>1, <2>3, ComesIf
  <2>5. EXIT(t, u) = IF a.error = OK THEN r ELSE a
    BY DEF EXIT, ExitedIf, a, r
  <2> QED
    BY <2>4, <2>5
<1>2. Comes(t, QUIT(t, u))
  <2> DEFINE r == [Agreed(t, "lose") EXCEPT !.mode = "exited"]
  <2>1. DOMAIN t = Fields
    BY DocOf
  <2>2. Exited(r)
    BY <2>1 DEF Exited, Agreed, Fields
  <2> HIDE DEF r
  <2>3. Comes(t, r) /\ Comes(t, Err(t, "ERROR"))
    BY <2>2, ComesIf, ErrStays
  <2>4. QUIT(t, u) = r \/ QUIT(t, u) = Err(t, "ERROR")
    BY DEF QUIT, r
  <2> QED
    BY <2>3, <2>4
<1>3. Comes(t, CLOSEDOC(t, u))
  BY CloseGoes, ComesIf
<1> QED
  BY <1>1, <1>2, <1>3

(* The list of documents is shown.                                         *)
LEMMA SelectComes ==
  ASSUME NEW t, Fine({}, t), NEW r, r = [t EXCEPT !.mode = "selecting"]
  PROVE  Comes(t, r) /\ r.frames = t.frames
<1>1. DOMAIN t = Fields
  BY DocOf
<1>2. /\ DOMAIN r = Fields /\ r.order = t.order /\ r.recent = t.recent /\ r.cur = t.cur /\ r.doc = t.doc
      /\ r.disk = t.disk /\ r.scripts = t.scripts /\ r.macros = t.macros /\ r.recording = t.recording
      /\ r.frames = t.frames /\ r.pstack = t.pstack /\ r.mode = "selecting"
  BY <1>1 DEF Fields
<1> QED
  BY <1>2 DEF Fine, Held, Listed, Comes

(* Whatever the command.                                                   *)
LEMMA PerformComes ==
  ASSUME NEW t, Fine({}, t), t.mode = "editing", NEW x, x.c \in Int, IsSequence(x.p),
         NEW u, u.writes \in Nat
  PROVE  Comes(t, Perform(t, x, u))
<1>1. ASSUME NEW r, Stays({}, t, r) \/ Goes({}, t, r) PROVE Comes(t, r)
  BY <1>1, ComesIf
<1> DEFINE path == Path(x, u)
           file == <<"here", x.p[1]>>
           ext == ExtensionOf(CurDoc(t))
           joined == [t EXCEPT !.doc[t.cur].cur_macro = optimize_macro(@)]
           exit == EXIT(t, u)
           quit == QUIT(t, u)
           saveall == save_all_modified_buffers(t, u)
           save == SAVE(t, u)
           saveas == SAVEAS(t, path, u)
           clear == CLEAR(t, u)
           open == OPEN(t, path, x.c, x.a = "OpenNew", u)
           newdoc == new_buffer(t)
           close == CLOSEDOC(t, u)
           next == NEXTDOC(t)
           prev == PREVDOC(t)
           select == [t EXCEPT !.mode = "selecting"]
           option == SetOption(t, x)
           popped == Popped(t, x.c)
           loadp == load_prefs(t, file)
           savep == save_prefs(t, file, FALSE)
           loada == load_auto_prefs(t, ext)
           savea == save_auto_prefs(t, ext)
           saved == save_auto_prefs(t, DefPrefs)
           record == RECORD(t, x.c)
           play == play_macro(t, CurDoc(t).cur_macro, x.c, Unnamed)
           macro == execute_macro(t, x.p[1])
           savem == SAVEMACRO(joined, x.p[1])
           openm == OPENMACRO(t, file)
           unload == unload_macros(t)
           typed == Type(t, Text(x))
           system == OfSystem(t, x, u)
<1>2. Comes(t, exit) /\ Comes(t, quit) /\ Comes(t, close)
  BY LeavingComes
<1>3. Comes(t, saveall) /\ Comes(t, save) /\ Comes(t, saveas)
  BY <1>1, SaveAllStays, SaveAsStays
<1>4. Comes(t, clear)
  <2> DEFINE a == [t EXCEPT !.doc[t.cur] = clear_buffer(@)]
  <2>1. Stays({}, t, a)
    BY ClearStays
  <2> HIDE DEF a
  <2>2. Stays({}, a, Agreed(a, "lose"))
    BY <2>1, ErrStays DEF Stays
  <2>3. Stays({}, t, Agreed(a, "lose")) /\ Stays({}, t, Err(t, "ERROR"))
    BY <2>1, <2>2, Follows, ErrStays
  <2>4. clear = Agreed(a, "lose") \/ clear = Err(t, "ERROR")
    BY DEF CLEAR, a
  <2> QED
    BY <1>1, <2>3, <2>4
<1>5. Comes(t, open) /\ Comes(t, newdoc) /\ Comes(t, next) /\ Comes(t, prev)
  BY <1>1, OpenGoes, NewDocGoes, AroundGoes
<1>6. Comes(t, select)
  BY SelectComes
<1>7. Comes(t, option) /\ Comes(t, popped)
  BY <1>1, SetOptionStays, RepeatedStays DEF Popped
<1>8. Comes(t, loadp) /\ Comes(t, savep) /\ Comes(t, loada) /\ Comes(t, savea) /\ Comes(t, saved)
  BY <1>1, LoadPrefsStays, SavePrefsStays, AutoPrefsStay
<1>9. Comes(t, record) /\ Comes(t, macro) /\ Comes(t, openm) /\ Comes(t, savem) /\ Comes(t, unload)
  BY <1>1, RecordStays, ExecuteStays, MacroFilesStay, UnloadStays
<1>10. Comes(t, play)
  BY <1>1, DocOf, PlayMacroStays DEF IsDoc
<1>11. Comes(t, typed)
  <2>1. IsSequence(Text(x))
    BY ShortSequences DEF Text
  <2> QED
    BY <1>1, <2>1, TypeStays
<1>12. Comes(t, system) /\ Comes(t, t)
  BY <1>1, ErrStays, Follows DEF OfSystem
<1> DEFINE All == {exit, quit, saveall, save, saveas, clear, open, newdoc, close, next, prev, select, option,
                   popped, loadp, savep, loada, savea, saved, record, play, macro, savem, openm, unload, typed,
                   system, t}
<1>13. Perform(t, x, u) \in All
  BY DEF Perform
<1> HIDE DEF exit, quit, saveall, save, saveas, clear, open, newdoc, close, next, prev, select, option,
             popped, loadp, savep, loada, savea, saved, record, play, macro, savem, openm, unload, typed, system
<1>14. \A r \in All : Comes(t, r)
  BY <1>2, <1>3, <1>4, <1>5, <1>6, <1>7, <1>8, <1>9, <1>10, <1>11, <1>12
<1> HIDE DEF All
<1> QED
  BY <1>13, <1>14

(* It is recorded before.                                                  *)
LEMMA ActionComes ==
  ASSUME NEW t, Fine({}, t), t.mode = "editing", NEW x, x.c \in Int, IsSequence(x.p),
         NEW u, u.writes \in Nat
  PROVE  Comes(t, do_action(t, x, u))
<1> DEFINE b == Begun(t, x)
<1>1. Stays({}, t, b)
  BY BegunStays
<1> HIDE DEF b
<1>2. Fine({}, b) /\ b.mode = "editing"
  BY <1>1 DEF Stays, Onward
<1>3. Comes(b, Perform(b, x, u))
  BY <1>2, PerformComes
<1>4. Comes(t, Perform(b, x, u))
  BY <1>1, <1>3, ComesIf
<1> QED
  BY <1>4 DEF do_action, b

(* A line of a macro, or one that the user types.                          *)
LEMMA LineComes ==
  ASSUME NEW t, Fine({}, t), t.mode = "editing", NEW line, IsLine(line), NEW u, u.writes \in Nat
  PROVE  Comes(t, execute_command_line(t, line, u))
<1> DEFINE x == parse(line, CurDoc(t).exec_only_options)
           m == execute_macro(t, line.word)
<1>1. IsSequence(x.act.p) /\ x.act.c \in Int
  BY ParseIs
<1> HIDE DEF x
<1>2. Comes(t, do_action(t, x.act, u))
  BY <1>1, ActionComes
<1>3. Comes(t, OrNoCommand(m)) /\ \A e : Comes(t, Err(t, e))
  <2>1. Stays({}, t, m)
    BY ExecuteStays
  <2> HIDE DEF m
  <2>2. Stays({}, m, Err(m, "NO_SUCH_COMMAND"))
    BY <2>1, ErrStays DEF Stays
  <2>3. Stays({}, t, Err(m, "NO_SUCH_COMMAND")) /\ \A e : Stays({}, t, Err(t, e))
    BY <2>1, <2>2, Follows, ErrStays
  <2>4. OrNoCommand(m) = m \/ OrNoCommand(m) = Err(m, "NO_SUCH_COMMAND")
    BY DEF OrNoCommand
  <2> QED
    BY <2>1, <2>3, <2>4, ComesIf
<1>4. \/ execute_command_line(t, line, u) = do_action(t, x.act, u)
      \/ execute_command_line(t, line, u) = OrNoCommand(m)
      \/ execute_command_line(t, line, u) = Err(t, x.error)
  BY DEF execute_command_line, Executed, x, m
<1> HIDE DEF m
<1> QED
  BY <1>2, <1>3, <1>4

-----------------------------------------------------------------------------
(* A document for the next file, and the options for it.                   *)
LEMMA PreparedGoes ==
  ASSUME NEW t, Fine({}, t), NEW first, NEW binary
  PROVE  Goes({}, t, Prepared(t, first, binary))
<1> DEFINE fresh == IF first THEN t ELSE new_buffer(t)
           r == [fresh EXCEPT !.doc[fresh.cur].opt["binary"] = binary]
<1>1. Goes({}, t, fresh)
  <2>1. Goes({}, t, t) /\ Goes({}, t, new_buffer(t))
    BY NewDocGoes, Follows
  <2> QED
    BY <2>1
<1>2. Prepared(t, first, binary) = r
  BY DEF Prepared
<1> HIDE DEF fresh
<1>3. Stays({}, fresh, r)
  BY <1>1, MarksStay DEF Goes
<1> HIDE DEF r
<1> QED
  BY <1>1, <1>2, <1>3, Follows

(* The line that was asked for.                                            *)
LEMMA OpenedWithStays ==
  ASSUME NEW t, Fine({}, t), NEW opt
  PROVE  Stays({}, t, OpenedWith(t, opt))
<1> DEFINE a == IF opt.ro THEN ReadOnly(t, TRUE) ELSE t
           r == AtLine(a, opt.line)
<1>1. Stays({}, t, a)
  <2>1. Stays({}, t, [t EXCEPT !.doc[t.cur].opt["read_only"] = TRUE]) /\ Stays({}, t, t)
    BY MarksStay, Follows
  <2> QED
    BY <2>1 DEF ReadOnly
<1>2. OpenedWith(t, opt) = r
  BY DEF OpenedWith
<1> HIDE DEF a
<1>3. Fine({}, a) /\ Stays({}, a, a)
  BY <1>1, Follows DEF Stays
<1>4. \A v : Stays({}, a, [a EXCEPT !.doc[a.cur].at = v])
  BY <1>3, MarksStay
<1>5. Stays({}, a, r)
  BY <1>3, <1>4 DEF AtLine
<1> HIDE DEF r
<1> QED
  BY <1>1, <1>2, <1>5, Follows

(* What is left after a word of the command line.                          *)
IsOpening(t, st) == DOMAIN st = {"s", "first_file", "opt"} /\ Goes({}, t, st.s)

(* A word is an option, or a file that is opened with the options before.  *)
LEMMA WordGoes ==
  ASSUME NEW t, NEW st, IsOpening(t, st), NEW word, NEW u
  PROVE  IsOpening(t, Words(st, word, u))
<1> DEFINE a == st.s
           p == Prepared(a, st.first_file, st.opt.binary)
           o == OPEN(p, PathOf[word], 0, FALSE, u)
           r == OpenedWith(o, st.opt)
<1>1. DOMAIN st = {"s", "first_file", "opt"} /\ Goes({}, t, a)
  BY DEF IsOpening
<1>2. Goes({}, a, p)
  BY <1>1, PreparedGoes DEF Goes
<1>3. Goes({}, p, o)
  <2>1. Fine({}, p)
    BY <1>2 DEF Goes
  <2> HIDE DEF p
  <2> QED
    BY <2>1, OpenGoes
<1>4. Goes({}, o, r)
  <2>1. Fine({}, o)
    BY <1>3 DEF Goes
  <2> HIDE DEF o
  <2>2. Stays({}, o, r)
    BY <2>1, OpenedWithStays
  <2> HIDE DEF r
  <2> QED
    BY <2>2, Follows
<1>5. \/ Words(st, word, u) = [s |-> r, first_file |-> FALSE, opt |-> NoOptions]
      \/ \E v : Words(st, word, u) = [st EXCEPT !.opt = v]
  <2> DEFINE v1 == [st.opt EXCEPT !.line = scenario.lines[word]]
             v2 == [st.opt EXCEPT !.binary = TRUE]
             v3 == [st.opt EXCEPT !.ro = TRUE]
  <2>1. /\ [st EXCEPT !.opt.line = scenario.lines[word]] = [st EXCEPT !.opt = v1]
        /\ [st EXCEPT !.opt.binary = TRUE] = [st EXCEPT !.opt = v2]
        /\ [st EXCEPT !.opt.ro = TRUE] = [st EXCEPT !.opt = v3]
    OBVIOUS
  <2> HIDE DEF v1, v2, v3
  <2>2. \/ Words(st, word, u) = [s |-> r, first_file |-> FALSE, opt |-> NoOptions]
        \/ \E v \in {v1, v2, v3} : Words(st, word, u) = [st EXCEPT !.opt = v]
    BY <2>1 DEF Words
  <2> QED
    BY <2>2
<1> HIDE DEF r, o, p
<1>6. Goes({}, t, r)
  <2> HIDE DEF a
  <2>1. Goes({}, t, p)
    BY <1>1, <1>2, Follows
  <2>2. Goes({}, t, o)
    BY <1>3, <2>1, Follows
  <2> QED
    BY <1>4, <2>2, Follows
<1>7. IsOpening(t, [s |-> r, first_file |-> FALSE, opt |-> NoOptions])
  BY <1>6 DEF IsOpening
<1>8. \A v : IsOpening(t, [st EXCEPT !.opt = v])
  BY <1>1 DEF IsOpening
<1> QED
  BY <1>5, <1>7, <1>8

(* All of them.                                                            *)
LEMMA AllOpenedGoes ==
  ASSUME NEW t, Fine({}, t), NEW args, IsSequence(args), NEW u
  PROVE  Goes({}, t, AllOpened(t, args, u))
<1> DEFINE n == Len(args)
           b == [s |-> t, first_file |-> TRUE, opt |-> NoOptions]
           Next1(y, k) == Words(y, args[k], u)
           Runs(k, f) == f = [i \in 0 .. k |-> IF i = 0 THEN b ELSE Next1(f[i - 1], i)]
           Ok(k) == \E f : Runs(k, f)
           c == CHOOSE f : Runs(n, f)
           T == {k \in 0 .. n : Ok(k)}
           U == {k \in 0 .. n : IsOpening(t, c[k])}
<1>1. n \in Nat
  BY SequenceIs
<1>2. AllOpened(t, args, u) = c[n].s
  BY DEF AllOpened
<1>b. IsOpening(t, b)
  BY Follows DEF IsOpening
<1> HIDE DEF n, b, Next1
<1>3. 0 \in T
  <2>1. Runs(0, [i \in 0 .. 0 |-> b])
    OBVIOUS
  <2> HIDE DEF Runs
  <2> QED
    BY <1>1, <2>1
<1>4. ASSUME NEW k \in 1 .. n, k - 1 \in T PROVE k \in T
  <2>1. PICK f : Runs(k - 1, f)
    BY <1>4
  <2> DEFINE h == [i \in 0 .. k |-> IF i = k THEN Next1(f[k - 1], k) ELSE f[i]]
  <2>2. ASSUME NEW i \in 0 .. k PROVE h[i] = IF i = 0 THEN b ELSE Next1(h[i - 1], i)
    <3>1. CASE i = k
      <4>1. i # 0 /\ k - 1 \in 0 .. k /\ k - 1 # k
        BY <3>1
      <4>2. h[k - 1] = f[k - 1] /\ h[k] = Next1(f[k - 1], k)
        BY <4>1
      <4> QED
        BY <3>1, <4>1, <4>2
    <3>2. CASE i # k
      <4>1. i \in 0 .. k - 1 /\ (i # 0 => i - 1 \in 0 .. k /\ i - 1 # k)
        BY <3>2
      <4>2. f[i] = IF i = 0 THEN b ELSE Next1(f[i - 1], i)
        BY <2>1, <4>1
      <4>3. h[i] = f[i] /\ (i # 0 => h[i - 1] = f[i - 1])
        BY <3>2, <4>1
      <4> QED
        BY <4>2, <4>3
    <3> QED
      BY <3>1, <3>2
  <2>3. h = [i \in 0 .. k |-> h[i]]
    OBVIOUS
  <2> HIDE DEF h
  <2>4. Runs(k, h)
    BY <2>2, <2>3
  <2> HIDE DEF Runs
  <2> QED
    BY <1>1, <2>4
<1> HIDE DEF T
<1>5. \A k \in 0 .. n : k \in T
  BY ONLY <1>1, <1>3, <1>4, UpTo
<1>6. Runs(n, c)
  <2> HIDE DEF Runs, Ok
  <2>1. Ok(n)
    BY <1>1, <1>5 DEF T
  <2> QED
    BY <2>1 DEF Ok
<1> HIDE DEF c
<1>7. 0 \in U
  <2>1. c[0] = b
    BY <1>1, <1>6
  <2> QED
    BY <1>1, <1>b, <2>1
<1>8. ASSUME NEW k \in 1 .. n, k - 1 \in U PROVE k \in U
  <2>1. c[k] = Next1(c[k - 1], k) /\ IsOpening(t, c[k - 1]) /\ k \in 0 .. n
    BY <1>6, <1>8
  <2> DEFINE x == c[k - 1]
  <2>2. c[k] = Words(x, args[k], u) /\ IsOpening(t, x)
    BY <2>1 DEF Next1
  <2> HIDE DEF x
  <2>3. IsOpening(t, c[k])
    BY <2>2, WordGoes
  <2> QED
    BY <2>1, <2>3
<1> HIDE DEF U
<1>9. n \in U
  BY ONLY <1>1, <1>7, <1>8, UpTo
<1> QED
  BY <1>2, <1>9 DEF U, IsOpening

(* The first document is shown.                                            *)
LEMMA ShownGoes ==
  ASSUME NEW t, Fine({}, t)
  PROVE  Goes({}, t, FirstShown(t)) /\ FirstShown(t).error = OK
<1> DEFINE a == IF Len(t.order) > 1 THEN NEXTDOC(t) ELSE t
<1>1. Goes({}, t, a)
  BY AroundGoes, Follows
<1> HIDE DEF a
<1>2. Stays({}, a, Err(a, OK)) /\ Err(a, OK).error = OK
  BY <1>1, ErrStays DEF Goes
<1>3. FirstShown(t) = Err(a, OK)
  BY DEF FirstShown, a
<1> QED
  BY <1>1, <1>2, <1>3, Follows

(* The session begins.                                                     *)
LEMMA MainIs ==
  ASSUME scenario \in Scenarios, NEW u
  PROVE  Fine({}, main(u)) /\ main(u).mode = "editing" /\ main(u).error = OK
<1> DEFINE b == new_buffer(Start)
           p == load_auto_prefs(b, DefPrefs)
           o == AllOpened(p, scenario.args, u)
           r == FirstShown(o)
<1>1. /\ IsSequence(scenario.args)
      /\ \A f \in DOMAIN scenario.disk : IsSequence(scenario.disk[f].bytes)
      /\ \A file \in DOMAIN scenario.scripts : AreLines(scenario.scripts[file])
  BY ScenarioAssumption
<1>2. /\ Start.order = <<>> /\ Start.cur = NoDoc /\ Start.recent = <<>> /\ Start.doc = <<>>
      /\ Start.disk = scenario.disk /\ Start.scripts = scenario.scripts /\ Start.pstack = <<>>
      /\ Start.recording = NoStream /\ Start.frames = <<>> /\ Start.macros = <<>> /\ Start.mode = "editing"
      /\ DOMAIN Start = Fields
  BY DEF Start, Fields
<1>3. /\ DOMAIN <<>> = {} /\ IsSequence(<<>>) /\ Len(<<>>) = 0 /\ <<>> \in Seq(Docs) /\ ToSet(<<>>) = {}
      /\ IsInjective(<<>>)
  <2>1. DOMAIN <<>> = {} /\ Len(<<>>) = 0 /\ <<>> \in Seq(Docs)
    OBVIOUS
  <2> QED
    BY <2>1, ShortSequences DEF ToSet, IsInjective
<1>4. Held({}, Start)
  <2>1. AreFrames(<<>>) /\ IsStack(<<>>)
    BY <1>3, LimitsAssumption DEF AreFrames, IsStack
  <2>2. AreLines(NoStream)
    BY ShortSequences, ShortLines DEF NoStream
  <2>3. AreDocs({}, <<>>) /\ AreMacros(<<>>)
    BY <1>3 DEF AreDocs, AreMacros
  <2>4. AreFiles(scenario.disk) /\ AreMacros(scenario.scripts)
    BY <1>1 DEF AreFiles, AreMacros
  <2> QED
    BY <1>2, <2>1, <2>2, <2>3, <2>4 DEF Held
<1>5. IsOrder(DOMAIN Start.doc, Start.order) /\ IsOrder(DOMAIN Start.doc, Start.recent)
  BY <1>2, <1>3 DEF IsOrder
<1>6. Free(Start) # {}
  BY <1>2, <1>3, DocsAssumption DEF Free
<1>7. Goes({}, Start, b)
  <2>1. b = new_buffer(Start)
    OBVIOUS
  <2> HIDE DEF b
  <2> QED
    BY <1>2, <1>4, <1>5, <1>6, <2>1, NewGoes
<1> HIDE DEF b
<1>8. Stays({}, b, p)
  BY <1>7, AutoPrefsStay DEF Goes
<1> HIDE DEF p
<1>9. Goes({}, p, o)
  BY <1>1, <1>8, AllOpenedGoes DEF Stays
<1> HIDE DEF o
<1>10. Goes({}, o, r) /\ r.error = OK
  BY <1>9, ShownGoes DEF Goes
<1> HIDE DEF r
<1>11. Goes({}, Start, r)
  <2>1. Goes({}, Start, p)
    BY <1>7, <1>8, Follows
  <2>2. Goes({}, Start, o)
    BY <1>9, <2>1, Follows
  <2> QED
    BY <1>10, <2>2, Follows
<1>12. main(u) = r
  BY DEF main, Opened, r, o, p, b
<1> QED
  BY <1>2, <1>10, <1>11, <1>12 DEF Goes, Onward

-----------------------------------------------------------------------------
(* The documents are saved one by one in an emergency.                     *)
LEMMA AllAutoSavedStays ==
  ASSUME NEW E, NEW t, Fine(E, t)
  PROVE  Stays(E, t, AllAutoSaved(t))
<1> DEFINE n == Len(t.order)
           b == t
           Next1(y, k) == auto_save(y, t.order[k])
           Runs(k, f) == f = [i \in 0 .. k |-> IF i = 0 THEN b ELSE Next1(f[i - 1], i)]
           Ok(k) == \E f : Runs(k, f)
           c == CHOOSE f : Runs(n, f)
           T == {k \in 0 .. n : Ok(k)}
           U == {k \in 0 .. n : Stays(E, t, c[k])}
<1>1. n \in Nat /\ \A k \in 1 .. n : t.order[k] \in DOMAIN t.doc
  <2>1. IsOrder(DOMAIN t.doc, t.order)
    BY DEF Fine, Listed
  <2> QED
    BY <2>1, OrderIs
<1>2. AllAutoSaved(t) = c[n]
  BY DEF AllAutoSaved
<1> HIDE DEF n, b, Next1
<1>3. 0 \in T
  <2>1. Runs(0, [i \in 0 .. 0 |-> b])
    OBVIOUS
  <2> HIDE DEF Runs
  <2> QED
    BY <1>1, <2>1
<1>4. ASSUME NEW k \in 1 .. n, k - 1 \in T PROVE k \in T
  <2>1. PICK f : Runs(k - 1, f)
    BY <1>4
  <2> DEFINE h == [i \in 0 .. k |-> IF i = k THEN Next1(f[k - 1], k) ELSE f[i]]
  <2>2. ASSUME NEW i \in 0 .. k PROVE h[i] = IF i = 0 THEN b ELSE Next1(h[i - 1], i)
    <3>1. CASE i = k
      <4>1. i # 0 /\ k - 1 \in 0 .. k /\ k - 1 # k
        BY <3>1
      <4>2. h[k - 1] = f[k - 1] /\ h[k] = Next1(f[k - 1], k)
        BY <4>1
      <4> QED
        BY <3>1, <4>1, <4>2
    <3>2. CASE i # k
      <4>1. i \in 0 .. k - 1 /\ (i # 0 => i - 1 \in 0 .. k /\ i - 1 # k)
        BY <3>2
      <4>2. f[i] = IF i = 0 THEN b ELSE Next1(f[i - 1], i)
        BY <2>1, <4>1
      <4>3. h[i] = f[i] /\ (i # 0 => h[i - 1] = f[i - 1])
        BY <3>2, <4>1
      <4> QED
        BY <4>2, <4>3
    <3> QED
      BY <3>1, <3>2
  <2>3. h = [i \in 0 .. k |-> h[i]]
    OBVIOUS
  <2> HIDE DEF h
  <2>4. Runs(k, h)
    BY <2>2, <2>3
  <2> HIDE DEF Runs
  <2> QED
    BY <1>1, <2>4
<1> HIDE DEF T
<1>5. \A k \in 0 .. n : k \in T
  BY ONLY <1>1, <1>3, <1>4, UpTo
<1>6. Runs(n, c)
  <2> HIDE DEF Runs, Ok
  <2>1. Ok(n)
    BY <1>1, <1>5 DEF T
  <2> QED
    BY <2>1 DEF Ok
<1> HIDE DEF c
<1>7. 0 \in U
  <2>1. c[0] = b
    BY <1>1, <1>6
  <2>2. c[0] = t
    BY <2>1 DEF b
  <2> QED
    BY <1>1, <2>2, Follows
<1>8. ASSUME NEW k \in 1 .. n, k - 1 \in U PROVE k \in U
  <2>1. c[k] = Next1(c[k - 1], k) /\ Stays(E, t, c[k - 1]) /\ k \in 0 .. n
    BY <1>6, <1>8
  <2> DEFINE x == c[k - 1]
             d == t.order[k]
             u == [writes |-> Whole]
  <2>2. c[k] = auto_save(x, d) /\ Stays(E, t, x)
    BY <2>1 DEF Next1
  <2>3. u.writes \in Nat
    BY DEF Whole
  <2> HIDE DEF x
  <2>4. Fine(E, x) /\ d \in DOMAIN x.doc
    BY <1>1, <2>2 DEF Stays, SameList
  <2> HIDE DEF d, u
  <2>5. Stays(E, x, save_buffer_to_file(x, d, AutoName(x, d), u)) /\ Stays(E, x, x)
    BY <2>3, <2>4, SaveStays, Follows
  <2>6. Stays(E, x, auto_save(x, d))
    BY <2>5 DEF auto_save, u
  <2>7. Stays(E, t, c[k])
    BY <2>2, <2>6, Follows
  <2> QED
    BY <2>1, <2>7
<1> HIDE DEF U
<1>9. n \in U
  BY ONLY <1>1, <1>7, <1>8, UpTo
<1> QED
  BY <1>2, <1>9 DEF U

(* The macro that is played goes away.                                     *)
LEMMA ConcludeIs ==
  ASSUME NEW t, Fine({}, t), t.frames # <<>>
  PROVE  Fine({}, Conclude(t)) /\ Conclude(t).mode = t.mode /\ Conclude(t).error = t.error
<1> DEFINE v == Front(t.frames)
           a == [t EXCEPT !.frames = v]
           name == Last(t.frames).name
<1>1. /\ DOMAIN t = Fields /\ IsSequence(t.frames) /\ Len(t.frames) <= MaxDepth
      /\ \A i \in DOMAIN t.frames : IsFrame(t.frames[i])
  BY DEF Fine, Held, AreFrames
<1>2. t.frames \in Seq(ToSet(t.frames)) /\ DOMAIN t.frames = 1 .. Len(t.frames)
  BY <1>1, SequenceIs
<1>3. /\ v \in Seq(ToSet(t.frames)) /\ Len(v) = Len(t.frames) - 1 /\ Len(t.frames) \in Nat \ {0}
      /\ \A i \in 1 .. Len(t.frames) - 1 : v[i] = t.frames[i]
  BY <1>2, FrontIs
<1> HIDE DEF v
<1>4. IsSequence(v) /\ DOMAIN v = 1 .. Len(t.frames) - 1
  BY <1>3, SequenceIs
<1>5. Len(v) <= MaxDepth
  BY <1>1, <1>3, LimitsAssumption
<1>6. \A i \in DOMAIN v : IsFrame(v[i])
  BY <1>1, <1>2, <1>3, <1>4
<1>7. AreFrames(v)
  BY <1>4, <1>5, <1>6 DEF AreFrames
<1>8. /\ DOMAIN a = Fields /\ a.order = t.order /\ a.recent = t.recent /\ a.cur = t.cur /\ a.doc = t.doc
      /\ a.disk = t.disk /\ a.scripts = t.scripts /\ a.macros = t.macros /\ a.recording = t.recording
      /\ a.pstack = t.pstack /\ a.mode = t.mode /\ a.error = t.error /\ a.frames = v
  BY <1>1 DEF Fields
<1> HIDE DEF a
<1>9. Fine({}, a)
  BY <1>7, <1>8 DEF Fine, Held, Listed
<1> HIDE DEF name
<1>10. Stays({}, a, Note(a, "conclude", name)) /\ Note(a, "conclude", name).error = a.error
  BY <1>9, NoteStays
<1>11. Conclude(t) = Note(a, "conclude", name)
  BY DEF Conclude, a, v, name
<1> QED
  BY <1>8, <1>10, <1>11 DEF Stays, Onward

(* The next line of the macro.                                             *)
LEMMA NextLineStays ==
  ASSUME NEW t, Fine({}, t), t.frames # <<>>, Last(t.frames).at <= Len(Last(t.frames).lines)
  PROVE  LET r == [t EXCEPT !.frames[Len(t.frames)].at = @ + 1, !.agreed = {}]
         IN  /\ Stays({}, t, r) /\ r.frames # <<>>
             /\ IsLine(Last(t.frames).lines[Last(t.frames).at])
<1> DEFINE n == Len(t.frames)
           top == t.frames[n]
           next == [top EXCEPT !.at = top.at + 1]
           v == [t.frames EXCEPT ![n] = next]
           a == [t EXCEPT !.frames = v]
           r == [t EXCEPT !.frames[Len(t.frames)].at = @ + 1, !.agreed = {}]
<1>1. /\ DOMAIN t = Fields /\ IsSequence(t.frames) /\ Len(t.frames) <= MaxDepth
      /\ \A i \in DOMAIN t.frames : IsFrame(t.frames[i])
  BY DEF Fine, Held, AreFrames
<1>2. DOMAIN t.frames = 1 .. n /\ n \in Nat \ {0}
  <2>1. t.frames \in Seq(ToSet(t.frames)) /\ DOMAIN t.frames = 1 .. n
    BY <1>1, SequenceIs
  <2> QED
    BY <2>1, FrontIs
<1>3. Last(t.frames) = top /\ IsFrame(top)
  BY <1>1, <1>2 DEF Last
<1>4. IsLine(top.lines[top.at])
  <2>1. top.at \in Nat \ {0} /\ AreLines(top.lines)
    BY <1>3 DEF IsFrame
  <2>2. top.at <= Len(top.lines)
    BY <1>3
  <2> HIDE DEF top
  <2>3. DOMAIN top.lines = 1 .. Len(top.lines) /\ Len(top.lines) \in Nat
    BY <2>1, SequenceIs DEF AreLines
  <2> QED
    BY <2>1, <2>2, <2>3 DEF AreLines
<1>5. IsFrame(next)
  BY <1>3 DEF IsFrame
<1>6. r = [a EXCEPT !.agreed = {}]
  BY <1>1, <1>2
<1>7. a = [t EXCEPT !.frames = v]
  OBVIOUS
<1> HIDE DEF next, r, a, top
<1>8. /\ IsSequence(v) /\ Len(v) = n /\ DOMAIN v = 1 .. n
      /\ \A i \in 1 .. n : v[i] = IF i = n THEN next ELSE t.frames[i]
  BY <1>1, <1>2, SequenceReplaced
<1> HIDE DEF v
<1>9. AreFrames(v) /\ v # <<>>
  <2>1. AreFrames(v)
    BY <1>1, <1>2, <1>5, <1>8 DEF AreFrames
  <2>2. v # <<>>
    BY <1>2, <1>8
  <2> QED
    BY <2>1, <2>2
<1>10. Stays({}, t, a)
  BY <1>7, <1>9, PartStays
<1>11. Fine({}, a) /\ DOMAIN a = Fields
  BY <1>10, DocOf DEF Stays
<1>12. /\ DOMAIN r = Fields /\ r.order = a.order /\ r.recent = a.recent /\ r.cur = a.cur /\ r.doc = a.doc
       /\ r.disk = a.disk /\ r.scripts = a.scripts /\ r.macros = a.macros /\ r.recording = a.recording
       /\ r.frames = a.frames /\ r.pstack = a.pstack /\ r.mode = a.mode
  BY <1>6, <1>11 DEF Fields
<1>13. Stays({}, a, r)
  BY <1>11, <1>12, Aside
<1>14. Stays({}, t, r)
  BY <1>10, <1>13, Follows
<1>15. r.frames # <<>>
  BY <1>14 DEF Stays, Onward
<1> QED
  BY <1>3, <1>4, <1>14, <1>15 DEF r

(* A macro is played once more.                                            *)
LEMMA AgainStays ==
  ASSUME NEW t, Fine({}, t), t.frames # <<>>
  PROVE  LET r == [t EXCEPT !.frames[Len(t.frames)] = [@ EXCEPT !.at = 1, !.times = Last(t.frames).times - 1]]
         IN  Stays({}, t, r) /\ r.error = t.error
<1> DEFINE n == Len(t.frames)
           top == t.frames[n]
           next == [top EXCEPT !.at = 1, !.times = top.times - 1]
           v == [t.frames EXCEPT ![n] = next]
           r == [t EXCEPT !.frames[Len(t.frames)] = [@ EXCEPT !.at = 1, !.times = Last(t.frames).times - 1]]
<1>1. /\ DOMAIN t = Fields /\ IsSequence(t.frames) /\ Len(t.frames) <= MaxDepth
      /\ \A i \in DOMAIN t.frames : IsFrame(t.frames[i])
  BY DEF Fine, Held, AreFrames
<1>2. DOMAIN t.frames = 1 .. n /\ n \in Nat \ {0}
  <2>1. t.frames \in Seq(ToSet(t.frames)) /\ DOMAIN t.frames = 1 .. n
    BY <1>1, SequenceIs
  <2> QED
    BY <2>1, FrontIs
<1>3. IsFrame(top)
  BY <1>1, <1>2
<1>4. IsFrame(next)
  BY <1>3 DEF IsFrame
<1>5. r = [t EXCEPT !.frames = v]
  BY DEF Last
<1>6. r.error = t.error
  BY <1>1 DEF Fields
<1> HIDE DEF next, r, top
<1>7. /\ IsSequence(v) /\ Len(v) = n /\ DOMAIN v = 1 .. n
      /\ \A i \in 1 .. n : v[i] = IF i = n THEN next ELSE t.frames[i]
  BY <1>1, <1>2, SequenceReplaced
<1> HIDE DEF v
<1>8. AreFrames(v) /\ v # <<>>
  <2>1. AreFrames(v)
    BY <1>1, <1>2, <1>4, <1>7 DEF AreFrames
  <2>2. v # <<>>
    BY <1>2, <1>7
  <2> QED
    BY <2>1, <2>2
<1>9. Stays({}, t, r)
  BY <1>5, <1>8, PartStays
<1> QED
  BY <1>6, <1>9 DEF r

(* A document of the list is closed while the list is shown.               *)
LEMMA SelectCloseGoes ==
  ASSUME NEW t, Fine({}, t), Len(t.order) > 1, NEW b \in DOMAIN t.doc
  PROVE  LET r == [Removed(t, b) EXCEPT !.cur = IF b = t.cur THEN Next_(t, b) ELSE @]
         IN  Goes({}, t, r) /\ r.error = t.error
<1> DEFINE at == PlaceIn(t.order, b)
           next == t.order[IF at = Len(t.order) THEN 1 ELSE at + 1]
           c == IF b = t.cur THEN next ELSE t.cur
           a == [t EXCEPT !.cur = c]
           r == [Removed(t, b) EXCEPT !.cur = IF b = t.cur THEN Next_(t, b) ELSE @]
<1>1. IsOrder(DOMAIN t.doc, t.order) /\ t.cur \in DOMAIN t.doc /\ DOMAIN t = Fields
  BY DEF Fine, Listed, Held
<1>2. /\ Len(t.order) \in Nat /\ at \in 1 .. Len(t.order) /\ t.order[at] = b
      /\ \A i \in 1 .. Len(t.order) : t.order[i] \in DOMAIN t.doc
      /\ \A i, j \in 1 .. Len(t.order) : t.order[i] = t.order[j] => i = j
  BY <1>1, OrderIs
<1>3. next = Next_(t, b)
  BY DEF Next_
<1> HIDE DEF at
<1>4. next \in DOMAIN t.doc \ {b}
  <2> DEFINE k == IF at = Len(t.order) THEN 1 ELSE at + 1
  <2>1. k \in 1 .. Len(t.order) /\ k # at
    BY <1>2
  <2> HIDE DEF k
  <2>2. t.order[k] \in DOMAIN t.doc /\ t.order[k] # b
    BY <1>2, <2>1
  <2> QED
    BY <2>2 DEF k
<1>5. c \in DOMAIN t.doc \ {b}
  BY <1>1, <1>4
<1>6. r = Removed(a, b)
  <2> DEFINE w == IF b = t.cur THEN Next_(t, b) ELSE t.cur
             o == Without(t.order, b)
             q == Without(t.recent, b)
             m == [x \in DOMAIN t.doc \ {b} |-> t.doc[x]]
  <2>1. Removed(t, b) = [t EXCEPT !.order = o, !.recent = q, !.doc = m]
    BY DEF Removed
  <2>2. Removed(a, b) = [a EXCEPT !.order = o, !.recent = q, !.doc = m]
    <3>1. a.order = t.order /\ a.recent = t.recent /\ a.doc = t.doc
      BY <1>1 DEF Fields
    <3> HIDE DEF a
    <3> QED
      BY <3>1 DEF Removed
  <2> HIDE DEF o, q, m
  <2>3. Removed(t, b).cur = t.cur
    BY <1>1, <2>1 DEF Fields
  <2>4. r = [Removed(t, b) EXCEPT !.cur = c]
    BY <1>3, <2>3
  <2> HIDE DEF c, r
  <2> QED
    BY <1>1, <2>1, <2>2, <2>4 DEF Fields
<1>7. a = [t EXCEPT !.cur = c]
  OBVIOUS
<1> HIDE DEF r, a, c
<1>8. Goes({}, t, r) /\ r.error = t.error
  BY ONLY Fine({}, t), <1>5, <1>6, <1>7, RemovedIs
<1> QED
  BY <1>8 DEF r

-----------------------------------------------------------------------------
(* The invariant: a session that goes on is in order, and no error is left *)
(* over when no macro is played.                                           *)
AtRest(t) == t.frames = <<>> => t.error = OK
Moves(t) ==
  /\ Held({}, t) /\ IsOrder(DOMAIN t.doc, t.recent) /\ IsOrder(DOMAIN t.doc, t.moving[1])
  /\ t.moving[2] \in DOMAIN t.doc /\ t.order = <<>>
InOrder(t) ==
  /\ t.mode \in {"editing", "selecting", "moving", "exited", "killed"}
  /\ t.mode \in {"editing", "selecting"} => Fine({}, t) /\ AtRest(t)
  /\ t.mode = "moving" => Moves(t) /\ AtRest(t)
IInv == InOrder(s) /\ scenario \in Scenarios

(* A command has begun.                                                    *)
Begins(b, x) == Fine({}, b) /\ b.mode = "editing" /\ b.cur = s.cur /\ x.c \in Int /\ IsSequence(x.p)

(* What is left over of a command is put in order.                         *)
LEMMA SettledIs ==
  ASSUME NEW t, NEW r, Comes(t, r)
  PROVE  InOrder(Settled(r))
<1> DEFINE q == [r EXCEPT !.error = OK]
<1>1. Settled(r) = IF r.frames = <<>> THEN q ELSE r
  BY DEF Settled
<1>2. CASE Exited(r)
  <2>1. q.mode = "exited" /\ r.mode = "exited"
    BY <1>2 DEF Exited, Fields
  <2> HIDE DEF q
  <2> QED
    BY <1>1, <2>1 DEF InOrder
<1>3. CASE Fine({}, r) /\ r.mode \in {"editing", "selecting"}
  <2>1. Stays({}, r, q) /\ q.error = OK
    BY <1>3, ErrStays DEF Err
  <2>2. Fine({}, q) /\ q.mode = r.mode
    BY <2>1 DEF Stays, Onward
  <2> HIDE DEF q
  <2>3. r.frames # <<>> => AtRest(r)
    BY DEF AtRest
  <2>4. AtRest(q)
    BY <2>1 DEF AtRest
  <2> QED
    BY <1>1, <1>3, <2>2, <2>3, <2>4 DEF InOrder
<1> QED
  BY <1>2, <1>3 DEF Comes

(* The user does something.                                                *)
LEMMA NowStays ==
  ASSUME NEW t, Fine({}, t)
  PROVE  LET r == [t EXCEPT !.left = @ - 1, !.agreed = {}]
         IN  Stays({}, t, r) /\ r.error = t.error
<1> DEFINE r == [t EXCEPT !.left = @ - 1, !.agreed = {}]
<1>1. DOMAIN t = Fields
  BY DocOf
<1>2. /\ DOMAIN r = Fields /\ r.order = t.order /\ r.recent = t.recent /\ r.cur = t.cur /\ r.doc = t.doc
      /\ r.disk = t.disk /\ r.scripts = t.scripts /\ r.macros = t.macros /\ r.recording = t.recording
      /\ r.frames = t.frames /\ r.pstack = t.pstack /\ r.mode = t.mode /\ r.error = t.error
  BY <1>1 DEF Fields
<1> HIDE DEF r
<1> QED
  BY <1>2, Aside DEF r

(* A command of the user begins.                                           *)
LEMMA ReadyIs ==
  ASSUME IInv, Ready
  PROVE  /\ Fine({}, s) /\ Fine({}, Now) /\ Now.mode = "editing"
         /\ \A x \in scenario.commands : Begins(Begun(Now, x), x)
         /\ \A u \in Replies : u.writes \in Nat
<1>1. Fine({}, s) /\ s.mode = "editing" /\ scenario \in Scenarios
  BY DEF IInv, InOrder, Ready
<1>2. Stays({}, s, Now)
  BY <1>1, NowStays DEF Now
<1>3. Fine({}, Now) /\ Now.mode = "editing" /\ Now.cur = s.cur
  BY <1>1, <1>2 DEF Stays, Onward, SameList
<1>4. /\ \A x \in scenario.commands : x.c \in Int /\ IsSequence(x.p)
      /\ scenario.writes \subseteq Nat
  BY <1>1, ScenarioAssumption
<1>5. ASSUME NEW x \in scenario.commands PROVE Begins(Begun(Now, x), x)
  <2> DEFINE a == Now
             b == Begun(a, x)
  <2>1. Fine({}, a) /\ a.mode = "editing" /\ a.cur = s.cur /\ x.c \in Int /\ IsSequence(x.p)
    BY <1>3, <1>4
  <2> HIDE DEF a
  <2>2. Stays({}, a, b)
    BY <2>1, BegunStays
  <2> HIDE DEF b
  <2>3. Fine({}, b) /\ b.mode = "editing" /\ b.cur = s.cur
    BY <2>1, <2>2 DEF Stays, Onward, SameList
  <2>4. Begins(b, x)
    BY <2>1, <2>3 DEF Begins
  <2> QED
    BY <2>4 DEF a, b
<1>6. \A u \in Replies : u.writes \in Nat
  BY <1>4 DEF Replies
<1> QED
  BY <1>1, <1>3, <1>5, <1>6

(* The text is emptied, if the user agrees.                                *)
LEMMA ClearedStays ==
  ASSUME NEW t, Fine({}, t), NEW u
  PROVE  Stays({}, t, CLEAR(t, u))
<1> DEFINE a == [t EXCEPT !.doc[t.cur] = clear_buffer(@)]
<1>1. Stays({}, t, a)
  BY ClearStays
<1> HIDE DEF a
<1>2. Stays({}, a, Agreed(a, "lose"))
  BY <1>1, ErrStays DEF Stays
<1>3. Stays({}, t, Agreed(a, "lose")) /\ Stays({}, t, Err(t, "ERROR"))
  BY <1>1, <1>2, Follows, ErrStays
<1>4. CLEAR(t, u) = Agreed(a, "lose") \/ CLEAR(t, u) = Err(t, "ERROR")
  BY DEF CLEAR, a
<1> QED
  BY <1>3, <1>4

(* What is typed.                                                          *)
LEMMA TextIsSequence ==
  ASSUME NEW x, IsSequence(x.p)
  PROVE  IsSequence(Text(x))
BY ShortSequences DEF Text

(* Another program is run.                                                 *)
LEMMA SystemStays ==
  ASSUME NEW t, Fine({}, t), NEW x, NEW u
  PROVE  Stays({}, t, OfSystem(t, x, u))
BY ErrStays, Follows DEF OfSystem

(* The commands on documents.                                              *)
LEMMA DocumentsKeep ==
  ASSUME IInv, Documents_
  PROVE  InOrder(s')
<1>1. \A x \in scenario.commands : Ready => Begins(Begun(Now, x), x)
  BY ReadyIs
<1>2. \A u \in Replies : Ready => u.writes \in Nat
  BY ReadyIs
<1>3. CASE EXIT_A
  <2>1. PICK x \in scenario.commands, u \in Replies :
         Ready /\ s' = Settled(EXIT(Begun(Now, x), u))
    BY <1>3 DEF EXIT_A, Of, Done
  <2> DEFINE b == Begun(Now, x)
             r == EXIT(b, u)
  <2>2. Begins(b, x) /\ u.writes \in Nat
    BY <1>1, <1>2, <2>1
  <2> HIDE DEF b
  <2>3. Comes(b, r)
    BY <2>2, LeavingComes DEF Begins
  <2> HIDE DEF r
  <2>4. InOrder(Settled(r))
    BY <2>3, SettledIs
  <2> QED
    BY <2>1, <2>4 DEF r, b
<1>4. CASE QUIT_A
  <2>1. PICK x \in scenario.commands, u \in Replies :
         Ready /\ s' = Settled(QUIT(Begun(Now, x), u))
    BY <1>4 DEF QUIT_A, Of, Done
  <2> DEFINE b == Begun(Now, x)
             r == QUIT(b, u)
  <2>2. Begins(b, x) /\ u.writes \in Nat
    BY <1>1, <1>2, <2>1
  <2> HIDE DEF b
  <2>3. Comes(b, r)
    BY <2>2, LeavingComes DEF Begins
  <2> HIDE DEF r
  <2>4. InOrder(Settled(r))
    BY <2>3, SettledIs
  <2> QED
    BY <2>1, <2>4 DEF r, b
<1>5. CASE SAVEALL_A
  <2>1. PICK x \in scenario.commands, u \in Replies :
         Ready /\ s' = Settled(save_all_modified_buffers(Begun(Now, x), u))
    BY <1>5 DEF SAVEALL_A, Of, Done
  <2> DEFINE b == Begun(Now, x)
             r == save_all_modified_buffers(b, u)
  <2>2. Begins(b, x) /\ u.writes \in Nat
    BY <1>1, <1>2, <2>1
  <2> HIDE DEF b
  <2>a. Stays({}, b, r)
    BY <2>2, SaveAllStays DEF Begins
  <2> HIDE DEF r
  <2>3. Comes(b, r)
    BY <2>2, <2>a, ComesIf DEF Begins
  <2>4. InOrder(Settled(r))
    BY <2>3, SettledIs
  <2> QED
    BY <2>1, <2>4 DEF r, b
<1>6. CASE SAVE_A
  <2>1. PICK x \in scenario.commands, u \in Replies :
         Ready /\ s' = Settled(SAVE(Begun(Now, x), u))
    BY <1>6 DEF SAVE_A, Of, Done
  <2> DEFINE b == Begun(Now, x)
             r == SAVE(b, u)
  <2>2. Begins(b, x) /\ u.writes \in Nat
    BY <1>1, <1>2, <2>1
  <2> HIDE DEF b
  <2>a. Stays({}, b, r)
    BY <2>2, SaveAsStays DEF Begins
  <2> HIDE DEF r
  <2>3. Comes(b, r)
    BY <2>2, <2>a, ComesIf DEF Begins
  <2>4. InOrder(Settled(r))
    BY <2>3, SettledIs
  <2> QED
    BY <2>1, <2>4 DEF r, b
<1>7. CASE SAVEAS_A
  <2>1. PICK x \in scenario.commands, u \in Replies :
         Ready /\ s' = Settled(SAVEAS(Begun(Now, x), Path(x, u), u))
    BY <1>7 DEF SAVEAS_A, Of, Done
  <2> DEFINE b == Begun(Now, x)
             r == SAVEAS(b, Path(x, u), u)
  <2>2. Begins(b, x) /\ u.writes \in Nat
    BY <1>1, <1>2, <2>1
  <2> HIDE DEF b
  <2>a. Stays({}, b, r)
    BY <2>2, SaveAsStays DEF Begins
  <2> HIDE DEF r
  <2>3. Comes(b, r)
    BY <2>2, <2>a, ComesIf DEF Begins
  <2>4. InOrder(Settled(r))
    BY <2>3, SettledIs
  <2> QED
    BY <2>1, <2>4 DEF r, b
<1>8. CASE CLEAR_A
  <2>1. PICK x \in scenario.commands, u \in Replies :
         Ready /\ s' = Settled(CLEAR(Begun(Now, x), u))
    BY <1>8 DEF CLEAR_A, Of, Done
  <2> DEFINE b == Begun(Now, x)
             r == CLEAR(b, u)
  <2>2. Begins(b, x) /\ u.writes \in Nat
    BY <1>1, <1>2, <2>1
  <2> HIDE DEF b
  <2>a. Stays({}, b, r)
    BY <2>2, ClearedStays DEF Begins
  <2> HIDE DEF r
  <2>3. Comes(b, r)
    BY <2>2, <2>a, ComesIf DEF Begins
  <2>4. InOrder(Settled(r))
    BY <2>3, SettledIs
  <2> QED
    BY <2>1, <2>4 DEF r, b
<1>9. CASE OPEN_A
  <2>1. PICK x \in scenario.commands, u \in Replies :
         Ready /\ s' = Settled(OPEN(Begun(Now, x), Path(x, u), x.c, x.a = "OpenNew", u))
    BY <1>9 DEF OPEN_A, Of, Done
  <2> DEFINE b == Begun(Now, x)
             r == OPEN(b, Path(x, u), x.c, x.a = "OpenNew", u)
  <2>2. Begins(b, x) /\ u.writes \in Nat
    BY <1>1, <1>2, <2>1
  <2> HIDE DEF b
  <2>a. Goes({}, b, r)
    BY <2>2, OpenGoes DEF Begins
  <2> HIDE DEF r
  <2>3. Comes(b, r)
    BY <2>2, <2>a, ComesIf DEF Begins
  <2>4. InOrder(Settled(r))
    BY <2>3, SettledIs
  <2> QED
    BY <2>1, <2>4 DEF r, b
<1>10. CASE NEWDOC_A
  <2>1. PICK x \in scenario.commands :
         Ready /\ s' = Settled(new_buffer(Begun(Now, x)))
    BY <1>10 DEF NEWDOC_A, Of, Done
  <2> DEFINE b == Begun(Now, x)
             r == new_buffer(b)
  <2>2. Begins(b, x)
    BY <1>1, <2>1
  <2> HIDE DEF b
  <2>a. Goes({}, b, r)
    BY <2>2, NewDocGoes DEF Begins
  <2> HIDE DEF r
  <2>3. Comes(b, r)
    BY <2>2, <2>a, ComesIf DEF Begins
  <2>4. InOrder(Settled(r))
    BY <2>3, SettledIs
  <2> QED
    BY <2>1, <2>4 DEF r, b
<1>11. CASE CLOSEDOC_A
  <2>1. PICK x \in scenario.commands, u \in Replies :
         Ready /\ s' = Settled(CLOSEDOC(Begun(Now, x), u))
    BY <1>11 DEF CLOSEDOC_A, Of, Done
  <2> DEFINE b == Begun(Now, x)
             r == CLOSEDOC(b, u)
  <2>2. Begins(b, x) /\ u.writes \in Nat
    BY <1>1, <1>2, <2>1
  <2> HIDE DEF b
  <2>3. Comes(b, r)
    BY <2>2, LeavingComes DEF Begins
  <2> HIDE DEF r
  <2>4. InOrder(Settled(r))
    BY <2>3, SettledIs
  <2> QED
    BY <2>1, <2>4 DEF r, b
<1>12. CASE NEXTDOC_A
  <2>1. PICK x \in scenario.commands :
         Ready /\ s' = Settled(NEXTDOC(Begun(Now, x)))
    BY <1>12 DEF NEXTDOC_A, Of, Done
  <2> DEFINE b == Begun(Now, x)
             r == NEXTDOC(b)
  <2>2. Begins(b, x)
    BY <1>1, <2>1
  <2> HIDE DEF b
  <2>a. Goes({}, b, r)
    BY <2>2, AroundGoes DEF Begins
  <2> HIDE DEF r
  <2>3. Comes(b, r)
    BY <2>2, <2>a, ComesIf DEF Begins
  <2>4. InOrder(Settled(r))
    BY <2>3, SettledIs
  <2> QED
    BY <2>1, <2>4 DEF r, b
<1>13. CASE PREVDOC_A
  <2>1. PICK x \in scenario.commands :
         Ready /\ s' = Settled(PREVDOC(Begun(Now, x)))
    BY <1>13 DEF PREVDOC_A, Of, Done
  <2> DEFINE b == Begun(Now, x)
             r == PREVDOC(b)
  <2>2. Begins(b, x)
    BY <1>1, <2>1
  <2> HIDE DEF b
  <2>a. Goes({}, b, r)
    BY <2>2, AroundGoes DEF Begins
  <2> HIDE DEF r
  <2>3. Comes(b, r)
    BY <2>2, <2>a, ComesIf DEF Begins
  <2>4. InOrder(Settled(r))
    BY <2>3, SettledIs
  <2> QED
    BY <2>1, <2>4 DEF r, b
<1>14. CASE SELECTDOC_A
  <2>1. PICK x \in scenario.commands :
         Ready /\ s' = Settled([Begun(Now, x) EXCEPT !.mode = "selecting"])
    BY <1>14 DEF SELECTDOC_A, Of, Done
  <2> DEFINE b == Begun(Now, x)
             r == [b EXCEPT !.mode = "selecting"]
  <2>2. Begins(b, x)
    BY <1>1, <2>1
  <2> HIDE DEF b
  <2>3. Comes(b, r)
    BY <2>2, SelectComes DEF Begins
  <2> HIDE DEF r
  <2>4. InOrder(Settled(r))
    BY <2>3, SettledIs
  <2> QED
    BY <2>1, <2>4 DEF r, b
<1>15. CASE INSERT_A
  <2>1. PICK x \in scenario.commands :
         Ready /\ s' = Settled(Type(Begun(Now, x), Text(x)))
    BY <1>15 DEF INSERT_A, Of, Done
  <2> DEFINE b == Begun(Now, x)
             r == Type(b, Text(x))
  <2>2. Begins(b, x)
    BY <1>1, <2>1
  <2> HIDE DEF b
  <2>a. Stays({}, b, r)
    BY <2>2, TextIsSequence, TypeStays DEF Begins
  <2> HIDE DEF r
  <2>3. Comes(b, r)
    BY <2>2, <2>a, ComesIf DEF Begins
  <2>4. InOrder(Settled(r))
    BY <2>3, SettledIs
  <2> QED
    BY <2>1, <2>4 DEF r, b
<1>16. CASE SYSTEM_A
  <2>1. PICK x \in scenario.commands, u \in Replies :
         Ready /\ s' = Settled(OfSystem(Begun(Now, x), x, u))
    BY <1>16 DEF SYSTEM_A, Of, Done
  <2> DEFINE b == Begun(Now, x)
             r == OfSystem(b, x, u)
  <2>2. Begins(b, x) /\ u.writes \in Nat
    BY <1>1, <1>2, <2>1
  <2> HIDE DEF b
  <2>a. Stays({}, b, r)
    BY <2>2, SystemStays DEF Begins
  <2> HIDE DEF r
  <2>3. Comes(b, r)
    BY <2>2, <2>a, ComesIf DEF Begins
  <2>4. InOrder(Settled(r))
    BY <2>3, SettledIs
  <2> QED
    BY <2>1, <2>4 DEF r, b
<1> QED
  BY <1>3, <1>4, <1>5, <1>6, <1>7, <1>8, <1>9, <1>10, <1>11, <1>12, <1>13, <1>14, <1>15, <1>16 DEF Documents_

(* Options and preferences.                                                *)
LEMMA OptionsKeep ==
  ASSUME IInv, Options_
  PROVE  InOrder(s')
<1>1. \A x \in scenario.commands : Ready => Begins(Begun(Now, x), x)
  BY ReadyIs
<1>2. CASE Options_A
  <2>1. PICK x \in scenario.commands :
         Ready /\ s' = Settled(SetOption(Begun(Now, x), x))
    BY <1>2 DEF Options_A, Of, Done
  <2> DEFINE b == Begun(Now, x)
             r == SetOption(b, x)
  <2>2. Begins(b, x)
    BY <1>1, <2>1
  <2> HIDE DEF b
  <2>a. Stays({}, b, r)
    BY <2>2, SetOptionStays DEF Begins
  <2> HIDE DEF r
  <2>3. Comes(b, r)
    BY <2>2, <2>a, ComesIf DEF Begins
  <2>4. InOrder(Settled(r))
    BY <2>3, SettledIs
  <2> QED
    BY <2>1, <2>4 DEF r, b
<1>3. CASE POPPREFS_A
  <2>1. PICK x \in scenario.commands :
         Ready /\ s' = Settled(Popped(Begun(Now, x), x.c))
    BY <1>3 DEF POPPREFS_A, Of, Done
  <2> DEFINE b == Begun(Now, x)
             r == Popped(b, x.c)
  <2>2. Begins(b, x)
    BY <1>1, <2>1
  <2> HIDE DEF b
  <2>a. Stays({}, b, r)
    BY <2>2, RepeatedStays DEF Begins, Popped
  <2> HIDE DEF r
  <2>3. Comes(b, r)
    BY <2>2, <2>a, ComesIf DEF Begins
  <2>4. InOrder(Settled(r))
    BY <2>3, SettledIs
  <2> QED
    BY <2>1, <2>4 DEF r, b
<1>4. CASE LOADPREFS_A
  <2>1. PICK x \in scenario.commands :
         Ready /\ s' = Settled(load_prefs(Begun(Now, x), <<"here", x.p[1]>>))
    BY <1>4 DEF LOADPREFS_A, Of, Done
  <2> DEFINE b == Begun(Now, x)
             r == load_prefs(b, <<"here", x.p[1]>>)
  <2>2. Begins(b, x)
    BY <1>1, <2>1
  <2> HIDE DEF b
  <2>a. Stays({}, b, r)
    BY <2>2, LoadPrefsStays DEF Begins
  <2> HIDE DEF r
  <2>3. Comes(b, r)
    BY <2>2, <2>a, ComesIf DEF Begins
  <2>4. InOrder(Settled(r))
    BY <2>3, SettledIs
  <2> QED
    BY <2>1, <2>4 DEF r, b
<1>5. CASE SAVEPREFS_A
  <2>1. PICK x \in scenario.commands :
         Ready /\ s' = Settled(save_prefs(Begun(Now, x), <<"here", x.p[1]>>, FALSE))
    BY <1>5 DEF SAVEPREFS_A, Of, Done
  <2> DEFINE b == Begun(Now, x)
             r == save_prefs(b, <<"here", x.p[1]>>, FALSE)
  <2>2. Begins(b, x)
    BY <1>1, <2>1
  <2> HIDE DEF b
  <2>a. Stays({}, b, r)
    BY <2>2, SavePrefsStays DEF Begins
  <2> HIDE DEF r
  <2>3. Comes(b, r)
    BY <2>2, <2>a, ComesIf DEF Begins
  <2>4. InOrder(Settled(r))
    BY <2>3, SettledIs
  <2> QED
    BY <2>1, <2>4 DEF r, b
<1>6. CASE LOADAUTOPREFS_A
  <2>1. PICK x \in scenario.commands :
         Ready /\ s' = Settled(load_auto_prefs(Begun(Now, x), ExtensionOf(CurDoc(s))))
    BY <1>6 DEF LOADAUTOPREFS_A, Of, Done
  <2> DEFINE b == Begun(Now, x)
             r == load_auto_prefs(b, ExtensionOf(CurDoc(s)))
  <2>2. Begins(b, x)
    BY <1>1, <2>1
  <2> HIDE DEF b
  <2>a. Stays({}, b, r)
    BY <2>2, AutoPrefsStay DEF Begins
  <2> HIDE DEF r
  <2>3. Comes(b, r)
    BY <2>2, <2>a, ComesIf DEF Begins
  <2>4. InOrder(Settled(r))
    BY <2>3, SettledIs
  <2> QED
    BY <2>1, <2>4 DEF r, b
<1>7. CASE SAVEAUTOPREFS_A
  <2>1. PICK x \in scenario.commands :
         Ready /\ s' = Settled(save_auto_prefs(Begun(Now, x), ExtensionOf(CurDoc(s))))
    BY <1>7 DEF SAVEAUTOPREFS_A, Of, Done
  <2> DEFINE b == Begun(Now, x)
             r == save_auto_prefs(b, ExtensionOf(CurDoc(s)))
  <2>2. Begins(b, x)
    BY <1>1, <2>1
  <2> HIDE DEF b
  <2>a. Stays({}, b, r)
    BY <2>2, AutoPrefsStay DEF Begins
  <2> HIDE DEF r
  <2>3. Comes(b, r)
    BY <2>2, <2>a, ComesIf DEF Begins
  <2>4. InOrder(Settled(r))
    BY <2>3, SettledIs
  <2> QED
    BY <2>1, <2>4 DEF r, b
<1>8. CASE SAVEDEFPREFS_A
  <2>1. PICK x \in scenario.commands :
         Ready /\ s' = Settled(save_auto_prefs(Begun(Now, x), DefPrefs))
    BY <1>8 DEF SAVEDEFPREFS_A, Of, Done
  <2> DEFINE b == Begun(Now, x)
             r == save_auto_prefs(b, DefPrefs)
  <2>2. Begins(b, x)
    BY <1>1, <2>1
  <2> HIDE DEF b
  <2>a. Stays({}, b, r)
    BY <2>2, AutoPrefsStay DEF Begins
  <2> HIDE DEF r
  <2>3. Comes(b, r)
    BY <2>2, <2>a, ComesIf DEF Begins
  <2>4. InOrder(Settled(r))
    BY <2>3, SettledIs
  <2> QED
    BY <2>1, <2>4 DEF r, b
<1> QED
  BY <1>2, <1>3, <1>4, <1>5, <1>6, <1>7, <1>8 DEF Options_

(* The commands on macros, and what the user types as a line.              *)
LEMMA MacroCommandsKeep ==
  ASSUME IInv,
         RECORD_A \/ PLAY_A \/ SAVEMACRO_A \/ OPENMACRO_A \/ MACRO_A \/ UNLOADMACROS_A \/ EXEC_A
  PROVE  InOrder(s')
<1>1. \A x \in scenario.commands : Ready => Begins(Begun(Now, x), x) /\ Fine({}, s)
  BY ReadyIs
<1>2. CASE RECORD_A
  <2>1. PICK x \in scenario.commands :
         Ready /\ s' = Settled(RECORD(Begun(Now, x), x.c))
    BY <1>2 DEF RECORD_A, Of, Done
  <2> DEFINE b == Begun(Now, x)
             r == RECORD(b, x.c)
  <2>2. Begins(b, x)
    BY <1>1, <2>1
  <2> HIDE DEF b
  <2>a. Stays({}, b, r)
    BY <2>2, RecordStays DEF Begins
  <2> HIDE DEF r
  <2>3. Comes(b, r)
    BY <2>2, <2>a, ComesIf DEF Begins
  <2>4. InOrder(Settled(r))
    BY <2>3, SettledIs
  <2> QED
    BY <2>1, <2>4 DEF r, b
<1>3. CASE PLAY_A
  <2>1. PICK x \in scenario.commands :
         Ready /\ s' = Settled(play_macro(Begun(Now, x), CurDoc(s).cur_macro, x.c, Unnamed))
    BY <1>3 DEF PLAY_A, Of, Done
  <2> DEFINE b == Begun(Now, x)
             r == play_macro(b, CurDoc(s).cur_macro, x.c, Unnamed)
  <2>2. Begins(b, x)
    BY <1>1, <2>1
  <2> HIDE DEF b
  <2>a. AreLines(CurDoc(s).cur_macro)
    BY <1>1, <2>1, DocOf DEF IsDoc
  <2>b. Stays({}, b, r)
    BY <2>2, <2>a, PlayMacroStays DEF Begins
  <2> HIDE DEF r
  <2>3. Comes(b, r)
    BY <2>2, <2>b, ComesIf DEF Begins
  <2>4. InOrder(Settled(r))
    BY <2>3, SettledIs
  <2> QED
    BY <2>1, <2>4 DEF r, b
<1>4. CASE OPENMACRO_A
  <2>1. PICK x \in scenario.commands :
         Ready /\ s' = Settled(OPENMACRO(Begun(Now, x), <<"here", x.p[1]>>))
    BY <1>4 DEF OPENMACRO_A, Of, Done
  <2> DEFINE b == Begun(Now, x)
             r == OPENMACRO(b, <<"here", x.p[1]>>)
  <2>2. Begins(b, x)
    BY <1>1, <2>1
  <2> HIDE DEF b
  <2>a. Stays({}, b, r)
    BY <2>2, MacroFilesStay DEF Begins
  <2> HIDE DEF r
  <2>3. Comes(b, r)
    BY <2>2, <2>a, ComesIf DEF Begins
  <2>4. InOrder(Settled(r))
    BY <2>3, SettledIs
  <2> QED
    BY <2>1, <2>4 DEF r, b
<1>5. CASE MACRO_A
  <2>1. PICK x \in scenario.commands :
         Ready /\ s' = Settled(execute_macro(Begun(Now, x), x.p[1]))
    BY <1>5 DEF MACRO_A, Of, Done
  <2> DEFINE b == Begun(Now, x)
             r == execute_macro(b, x.p[1])
  <2>2. Begins(b, x)
    BY <1>1, <2>1
  <2> HIDE DEF b
  <2>a. Stays({}, b, r)
    BY <2>2, ExecuteStays DEF Begins
  <2> HIDE DEF r
  <2>3. Comes(b, r)
    BY <2>2, <2>a, ComesIf DEF Begins
  <2>4. InOrder(Settled(r))
    BY <2>3, SettledIs
  <2> QED
    BY <2>1, <2>4 DEF r, b
<1>6. CASE UNLOADMACROS_A
  <2>1. PICK x \in scenario.commands :
         Ready /\ s' = Settled(unload_macros(Begun(Now, x)))
    BY <1>6 DEF UNLOADMACROS_A, Of, Done
  <2> DEFINE b == Begun(Now, x)
             r == unload_macros(b)
  <2>2. Begins(b, x)
    BY <1>1, <2>1
  <2> HIDE DEF b
  <2>a. Stays({}, b, r)
    BY <2>2, UnloadStays DEF Begins
  <2> HIDE DEF r
  <2>3. Comes(b, r)
    BY <2>2, <2>a, ComesIf DEF Begins
  <2>4. InOrder(Settled(r))
    BY <2>3, SettledIs
  <2> QED
    BY <2>1, <2>4 DEF r, b
<1>7. CASE SAVEMACRO_A
  <2>1. PICK x \in scenario.commands :
         Ready /\ s' = Settled(SAVEMACRO([Begun(Now, x) EXCEPT !.doc[s.cur].cur_macro = optimize_macro(@)], x.p[1]))
    BY <1>7 DEF SAVEMACRO_A, Of, Done
  <2> DEFINE b == Begun(Now, x)
             file == x.p[1]
             r == SAVEMACRO([b EXCEPT !.doc[b.cur].cur_macro = optimize_macro(@)], file)
  <2>2. Begins(b, x)
    BY <1>1, <2>1
  <2> HIDE DEF b, file
  <2>3. Stays({}, b, r)
    BY <2>2, MacroFilesStay DEF Begins
  <2>4. r = SAVEMACRO([b EXCEPT !.doc[s.cur].cur_macro = optimize_macro(@)], file)
    BY <2>2 DEF Begins
  <2> HIDE DEF r
  <2>5. Comes(b, r)
    BY <2>2, <2>3, ComesIf DEF Begins
  <2>6. InOrder(Settled(r))
    BY <2>5, SettledIs
  <2> QED
    BY <2>1, <2>4, <2>6 DEF b, file
<1>8. CASE EXEC_A
  <2>1. PICK line \in scenario.typed, u \in Replies : Ready /\ s' = Settled(execute_command_line(Now, line, u))
    BY <1>8 DEF EXEC_A, Done
  <2>2. IsLine(line) /\ u.writes \in Nat /\ Fine({}, Now) /\ Now.mode = "editing"
    BY <2>1, ReadyIs, ScenarioAssumption DEF IInv
  <2> DEFINE a == Now
             r == execute_command_line(a, line, u)
  <2>3. Fine({}, a) /\ a.mode = "editing"
    BY <2>2
  <2> HIDE DEF a
  <2>4. Comes(a, r)
    BY <2>2, <2>3, LineComes
  <2> HIDE DEF r
  <2>5. InOrder(Settled(r))
    BY <2>4, SettledIs
  <2> QED
    BY <2>1, <2>5 DEF r, a
<1> QED
  BY <1>2, <1>3, <1>4, <1>5, <1>6, <1>7, <1>8

(* The macro that is played.                                               *)
LEMMA MacroStepsKeep ==
  ASSUME IInv, MacroStep \/ MacroReturn \/ MacroStops \/ Interrupt
  PROVE  InOrder(s')
<1>1. /\ Playing => Fine({}, s) /\ s.frames # <<>> /\ s.mode = "editing"
      /\ \A u \in Replies : u.writes \in Nat
  <2>1. scenario \in Scenarios /\ (s.mode = "editing" => Fine({}, s))
    BY DEF IInv, InOrder
  <2>2. \A u \in Replies : u.writes \in Nat
    BY <2>1, ScenarioAssumption DEF Replies
  <2> QED
    BY <2>1, <2>2 DEF Playing
<1>2. ASSUME NEW r, Fine({}, r), r.mode = "editing", r.error = OK \/ r.frames # <<>>
      PROVE  InOrder(r)
  BY <1>2 DEF InOrder, AtRest
<1>3. CASE MacroStep
  <2> DEFINE a == [s EXCEPT !.frames[Len(s.frames)].at = @ + 1, !.agreed = {}]
             line == Top.lines[Top.at]
  <2>1. PICK u \in Replies : Playing /\ Top.at <= Len(Top.lines) /\ s' = execute_command_line(a, line, u)
    BY <1>3 DEF MacroStep
  <2>2. Stays({}, s, a) /\ a.frames # <<>> /\ IsLine(line)
    BY <1>1, <2>1, NextLineStays DEF Top
  <2> DEFINE r == execute_command_line(a, line, u)
  <2> HIDE DEF a, line
  <2>3. Fine({}, a) /\ a.mode = "editing" /\ u.writes \in Nat
    BY <1>1, <2>1, <2>2 DEF Stays, Onward
  <2>4. Comes(a, r)
    BY <2>2, <2>3, LineComes
  <2>5. s' = r
    BY <2>1
  <2> HIDE DEF r
  <2>6. InOrder(r)
    BY <2>2, <2>4 DEF Comes, Exited, InOrder, AtRest
  <2> QED
    BY <2>5, <2>6
<1>4. CASE MacroReturn
  <2> DEFINE a == [s EXCEPT !.frames[Len(s.frames)] = [@ EXCEPT !.at = 1, !.times = Top.times - 1]]
             c == Conclude(s)
  <2>1. Playing /\ s.error = OK /\ (s' = a \/ s' = c)
    BY <1>4 DEF MacroReturn
  <2>2. Stays({}, s, a) /\ a.error = s.error
    BY <1>1, <2>1, AgainStays DEF Top
  <2>3. Fine({}, c) /\ c.mode = s.mode /\ c.error = s.error
    BY <1>1, <2>1, ConcludeIs
  <2> HIDE DEF a, c
  <2>4. InOrder(a) /\ InOrder(c)
    BY <1>1, <1>2, <2>1, <2>2, <2>3 DEF Stays, Onward
  <2> QED
    BY <2>1, <2>4
<1>5. CASE MacroStops
  <2> DEFINE c == Conclude(s)
             r == Settled(c)
  <2>1. Playing /\ s' = r
    BY <1>5 DEF MacroStops
  <2>2. Fine({}, c) /\ c.mode = "editing"
    BY <1>1, <2>1, ConcludeIs
  <2> HIDE DEF c
  <2>3. Comes(c, c)
    BY <2>2 DEF Comes
  <2>4. InOrder(r)
    BY <2>3, SettledIs
  <2> HIDE DEF r
  <2> QED
    BY <2>1, <2>4
<1>6. CASE Interrupt
  <2> DEFINE r == [s EXCEPT !.stop = TRUE, !.agreed = {}]
  <2>1. Playing /\ s' = r
    BY <1>6 DEF Interrupt
  <2>2. DOMAIN s = Fields /\ Fine({}, s)
    BY <1>1, <2>1, DocOf
  <2>3. /\ DOMAIN r = Fields /\ r.order = s.order /\ r.recent = s.recent /\ r.cur = s.cur /\ r.doc = s.doc
        /\ r.disk = s.disk /\ r.scripts = s.scripts /\ r.macros = s.macros /\ r.recording = s.recording
        /\ r.frames = s.frames /\ r.pstack = s.pstack /\ r.mode = s.mode
    BY <2>2 DEF Fields
  <2> HIDE DEF r
  <2>4. Stays({}, s, r)
    BY <2>2, <2>3, Aside
  <2>5. InOrder(r)
    BY <1>1, <1>2, <2>1, <2>3, <2>4 DEF Stays
  <2> QED
    BY <2>1, <2>5
<1> QED
  BY <1>3, <1>4, <1>5, <1>6

(* The documents in another order.                                         *)
LEMMA AnotherOrder ==
  ASSUME NEW t, Fine({}, t), NEW order \in SetToSeqs(ToSet(t.order))
  PROVE  IsOrder(DOMAIN t.doc, order)
<1> DEFINE D == DOMAIN t.doc
           n == Cardinality(D)
<1>1. IsOrder(D, t.order)
  BY DEF Fine, Listed
<1>2. ToSet(t.order) = D /\ D \subseteq Docs
  BY <1>1, OrderIs DEF IsOrder
<1>3. IsFiniteSet(D) /\ n \in Nat
  <2> DEFINE m == Len(t.order)
  <2>1. /\ m \in Nat /\ t.order \in [1 .. m -> D] /\ \A b \in D : \E i \in 1 .. m : t.order[i] = b
    <3>1. /\ m \in Nat /\ DOMAIN t.order = 1 .. m /\ \A i \in 1 .. m : t.order[i] \in D
          /\ \A b \in D : PlaceIn(t.order, b) \in 1 .. m /\ t.order[PlaceIn(t.order, b)] = b
      BY <1>1, OrderIs
    <3>2. t.order \in Seq(Docs)
      BY <1>1 DEF IsOrder
    <3>3. t.order = [i \in 1 .. m |-> t.order[i]]
      BY <3>1, <3>2
    <3>4. t.order \in [1 .. m -> D]
      BY <3>1, <3>3
    <3> QED
      BY <3>1, <3>4
  <2> HIDE DEF D, m
  <2>2. IsFiniteSet(1 .. m)
    BY <2>1, FS_Interval
  <2>3. t.order \in Surjection(1 .. m, D)
    BY <2>1, Fun_IsSurj
  <2>4. IsFiniteSet(D)
    BY <2>2, <2>3, FS_Surjection
  <2> QED
    BY <2>4, FS_CardinalityType
<1>4. order \in [1 .. n -> D] /\ \A i, j \in 1 .. n : i # j => order[i] # order[j]
  BY <1>2 DEF SetToSeqs
<1> HIDE DEF n, D
<1>5. \A b \in D : \E i \in 1 .. n : order[i] = b
  <2> DEFINE R == {order[i] : i \in 1 .. n}
  <2>1. order \in [1 .. n -> R]
    BY <1>4
  <2>2. order \in Bijection(1 .. n, R)
    <3>1. order \in Injection(1 .. n, R)
      BY <1>4, <2>1, Fun_IsInj
    <3>2. order \in Surjection(1 .. n, R)
      BY <2>1, Fun_IsSurj
    <3> QED
      BY <3>1, <3>2 DEF Bijection
  <2>3. IsFiniteSet(R) /\ Cardinality(R) = n
    <3>1. IsFiniteSet(1 .. n) /\ Cardinality(1 .. n) = n
      BY <1>3, FS_Interval
    <3> HIDE DEF R
    <3>2. ExistsBijection(1 .. n, R)
      BY <2>2 DEF ExistsBijection
    <3> QED
      BY <3>1, <3>2, FS_Bijection
  <2>4. R \subseteq D
    BY <1>4
  <2> HIDE DEF R
  <2>5. R = D
    BY <1>3, <2>3, <2>4, FS_Subset DEF n
  <2> QED
    BY <2>5 DEF R
<1>6. order \in Seq(D) /\ Len(order) = n /\ DOMAIN order = 1 .. n
  <2>1. order \in Seq(D)
    BY <1>3, <1>4, SeqDef
  <2> QED
    BY <1>3, <1>4, <2>1
<1>7. IsSequence(order)
  BY <1>6, SequenceIs
<1>8. IsOrder(D, order)
  BY <1>2, <1>4, <1>5, <1>6, <1>7, IsOrderIf
<1> QED
  BY <1>8 DEF D

(* The list of documents is shown.                                         *)
LEMMA SelectsKeep ==
  ASSUME IInv, Selects_
  PROVE  InOrder(s')
<1>1. /\ s.mode = "selecting" => Fine({}, s) /\ AtRest(s)
      /\ s.mode = "moving" => Moves(s) /\ AtRest(s)
      /\ \A u \in Replies : u.writes \in Nat
  <2>1. \A u \in Replies : u.writes \in Nat
    BY ScenarioAssumption DEF IInv, Replies
  <2> QED
    BY <2>1 DEF IInv, InOrder
<1>2. CASE SelectSave
  <2>1. PICK b \in ToSet(s.order), u \in Replies :
          s.mode = "selecting" /\ s' = Err(save_buffer_to_file(Now, b, None, u), OK)
    BY <1>2 DEF SelectSave, Selecting
  <2> DEFINE a == Now
             c == save_buffer_to_file(a, b, None, u)
             r == Err(c, OK)
  <2>2. Fine({}, s) /\ u.writes \in Nat
    BY <1>1, <2>1
  <2>3. Stays({}, s, a)
    BY <2>2, NowStays DEF Now
  <2> HIDE DEF a
  <2>4. Fine({}, a) /\ b \in DOMAIN a.doc /\ a.mode = "selecting"
    BY <2>1, <2>2, <2>3 DEF Fine, Listed, IsOrder, Stays, SameList, Onward
  <2>5. Stays({}, a, c)
    BY <2>2, <2>4, SaveStays
  <2> HIDE DEF c
  <2>6. Stays({}, c, r) /\ r.error = OK
    BY <2>5, ErrStays DEF Stays
  <2> HIDE DEF r
  <2>7. Fine({}, r) /\ r.mode = "selecting"
    BY <2>4, <2>5, <2>6 DEF Stays, Onward
  <2>8. InOrder(r)
    BY <2>6, <2>7 DEF InOrder, AtRest
  <2> QED
    BY <2>1, <2>8 DEF r, c, a
<1>3. CASE SelectClose
  <2>1. PICK b \in ToSet(s.order) :
          /\ s.mode = "selecting" /\ Len(s.order) > 1
          /\ s' = [Removed(Now, b) EXCEPT !.cur = IF b = s.cur THEN Next_(s, b) ELSE @]
    BY <1>3 DEF SelectClose, Selecting
  <2> DEFINE a == Now
             r == [Removed(a, b) EXCEPT !.cur = IF b = a.cur THEN Next_(a, b) ELSE @]
  <2>2. Fine({}, s) /\ AtRest(s)
    BY <1>1, <2>1
  <2>3. Stays({}, s, a) /\ a.error = s.error
    BY <2>2, NowStays DEF Now
  <2>4. a.frames = s.frames
    BY <2>2, DocOf DEF Now, Fields
  <2> HIDE DEF a
  <2>5. /\ Fine({}, a) /\ b \in DOMAIN a.doc /\ a.mode = "selecting" /\ a.order = s.order /\ a.cur = s.cur
    BY <2>1, <2>2, <2>3 DEF Fine, Listed, IsOrder, Stays, SameList, Onward
  <2>6. Goes({}, a, r) /\ r.error = a.error
    BY <2>1, <2>5, SelectCloseGoes
  <2>7. s' = r
    BY <2>1, <2>5 DEF a, Next_
  <2> HIDE DEF r
  <2>8. InOrder(r)
    BY <2>2, <2>3, <2>4, <2>5, <2>6 DEF InOrder, AtRest, Goes, Onward
  <2> QED
    BY <2>7, <2>8
<1>4. CASE SelectTake
  <2>1. PICK order \in SetToSeqs(ToSet(s.order)), b \in ToSet(s.order) :
          /\ s.mode = "selecting"
          /\ s' = IF order = s.order THEN Actuate([s EXCEPT !.mode = "editing", !.cur = b], b)
                  ELSE [s EXCEPT !.mode = "moving", !.order = <<>>, !.moving = <<order, b>>]
    BY <1>4 DEF SelectTake, Selecting
  <2>2. Fine({}, s) /\ AtRest(s) /\ DOMAIN s = Fields /\ b \in DOMAIN s.doc
    BY <1>1, <2>1, DocOf DEF Fine, Listed, IsOrder
  <2> DEFINE a == [s EXCEPT !.mode = "editing"]
             r == Actuate([a EXCEPT !.cur = b], b)
             m == [s EXCEPT !.mode = "moving", !.order = <<>>, !.moving = <<order, b>>]
  <2>3. InOrder(r)
    <3>1. /\ DOMAIN a = Fields /\ a.order = s.order /\ a.recent = s.recent /\ a.cur = s.cur /\ a.doc = s.doc
          /\ a.disk = s.disk /\ a.scripts = s.scripts /\ a.macros = s.macros /\ a.recording = s.recording
          /\ a.frames = s.frames /\ a.pstack = s.pstack /\ a.mode = "editing" /\ a.error = s.error
      BY <2>2 DEF Fields
    <3> HIDE DEF a
    <3>2. Fine({}, a)
      BY <2>2, <3>1 DEF Fine, Held, Listed
    <3>3. r = Actuate([a EXCEPT !.cur = b], b) /\ b \in DOMAIN a.doc
      BY <2>2, <3>1
    <3> HIDE DEF r
    <3>4. Goes({}, a, r) /\ r.error = a.error
      BY <3>2, <3>3, SwitchGoes
    <3> QED
      BY <2>2, <3>1, <3>4 DEF Goes, Onward, InOrder, AtRest
  <2>4. InOrder(m)
    <3>1. /\ DOMAIN m = Fields /\ m.recent = s.recent /\ m.doc = s.doc /\ m.moving = <<order, b>>
          /\ m.disk = s.disk /\ m.scripts = s.scripts /\ m.macros = s.macros /\ m.recording = s.recording
          /\ m.frames = s.frames /\ m.pstack = s.pstack /\ m.mode = "moving" /\ m.error = s.error
          /\ m.order = <<>>
      BY <2>2 DEF Fields
    <3> HIDE DEF m
    <3>2. Held({}, m) /\ IsOrder(DOMAIN s.doc, s.recent)
      BY <2>2, <3>1 DEF Fine, Held, Listed
    <3>3. IsOrder(DOMAIN s.doc, order)
      BY <2>2, AnotherOrder
    <3>4. m.moving[1] = order /\ m.moving[2] = b
      BY <3>1
    <3>5. Moves(m) /\ AtRest(m)
      BY <2>2, <3>1, <3>2, <3>3, <3>4 DEF Moves, AtRest
    <3> QED
      BY <3>1, <3>5 DEF InOrder
  <2>5. [s EXCEPT !.mode = "editing", !.cur = b] = [a EXCEPT !.cur = b]
    OBVIOUS
  <2>6. s' = r \/ s' = m
    BY <2>1, <2>5
  <2> HIDE DEF r, m
  <2> QED
    BY <2>3, <2>4, <2>6
<1>5. CASE SelectPut
  <2> DEFINE b == s.moving[2]
             q == s.moving[1]
             a == [s EXCEPT !.mode = "editing", !.order = q, !.cur = b, !.moving = <<>>]
             r == Actuate(a, b)
  <2>1. s.mode = "moving" /\ s' = r
    BY <1>5 DEF SelectPut
  <2>2. Held({}, s) /\ IsOrder(DOMAIN s.doc, s.recent) /\ IsOrder(DOMAIN s.doc, q) /\ b \in DOMAIN s.doc /\ AtRest(s)
    BY <1>1, <2>1 DEF Moves
  <2> HIDE DEF b, q
  <2>3. DOMAIN s = Fields /\ b \in Docs
    BY <2>2, OrderIs DEF Held
  <2>4. /\ DOMAIN a = Fields /\ a.order = q /\ a.recent = s.recent /\ a.cur = b /\ a.doc = s.doc
        /\ a.disk = s.disk /\ a.scripts = s.scripts /\ a.macros = s.macros /\ a.recording = s.recording
        /\ a.frames = s.frames /\ a.pstack = s.pstack /\ a.mode = "editing" /\ a.error = s.error
    BY <2>3 DEF Fields
  <2>5. r = Actuate(a, b)
    OBVIOUS
  <2> HIDE DEF a, r
  <2>6. Held({}, a) /\ IsOrder(DOMAIN a.doc, a.recent)
    BY <2>2, <2>4 DEF Held
  <2>7. Held({}, r) /\ IsOrder(DOMAIN a.doc \cup {b}, r.recent) /\ SameButRecent(a, r)
    BY <2>3, <2>5, <2>6, ActuateIs
  <2>8. DOMAIN a.doc \cup {b} = DOMAIN s.doc
    BY <2>2, <2>4
  <2>9. Fine({}, r)
    BY <2>2, <2>4, <2>7, <2>8 DEF Fine, Listed, SameButRecent
  <2>10. InOrder(r)
    BY <2>2, <2>4, <2>7, <2>9 DEF InOrder, AtRest, SameButRecent
  <2> QED
    BY <2>1, <2>10
<1>6. CASE SelectEscape
  <2> DEFINE a == [s EXCEPT !.mode = "editing"]
             e == Err(a, "ERROR")
             r == Settled(e)
  <2>1. s.mode = "selecting" /\ s' = r
    BY <1>6 DEF SelectEscape, Selecting
  <2>2. Fine({}, s) /\ DOMAIN s = Fields
    BY <1>1, <2>1, DocOf
  <2>3. /\ DOMAIN a = Fields /\ a.order = s.order /\ a.recent = s.recent /\ a.cur = s.cur /\ a.doc = s.doc
        /\ a.disk = s.disk /\ a.scripts = s.scripts /\ a.macros = s.macros /\ a.recording = s.recording
        /\ a.frames = s.frames /\ a.pstack = s.pstack /\ a.mode = "editing"
    BY <2>2 DEF Fields
  <2> HIDE DEF a
  <2>4. Fine({}, a)
    BY <2>2, <2>3 DEF Fine, Held, Listed
  <2>5. Stays({}, a, e)
    BY <2>4, ErrStays
  <2> HIDE DEF e
  <2>6. Comes(a, e)
    BY <2>3, <2>5, ComesIf
  <2>7. InOrder(r)
    BY <2>6, SettledIs
  <2> HIDE DEF r
  <2> QED
    BY <2>1, <2>7
<1> QED
  BY <1>2, <1>3, <1>4, <1>5, <1>6 DEF Selects_

(* Another program writes a file.                                          *)
LEMMA ExternalKeeps ==
  ASSUME IInv, ExternalWrite
  PROVE  InOrder(s')
<1>1. PICK f \in scenario.written, bytes \in scenario.contents :
        s.mode \in {"editing", "selecting"} /\ s' = PutFile(Now, f, bytes, TRUE)
  BY DEF ExternalWrite
<1>2. Fine({}, s) /\ AtRest(s) /\ IsSequence(bytes)
  BY <1>1, ScenarioAssumption DEF IInv, InOrder
<1> DEFINE a == Now
           r == PutFile(a, f, bytes, TRUE)
<1>3. Stays({}, s, a) /\ a.error = s.error
  BY <1>2, NowStays DEF Now
<1>4. a.frames = s.frames /\ DOMAIN a = Fields
  BY <1>2, DocOf DEF Now, Fields
<1> HIDE DEF a
<1>5. Stays({}, a, r)
  BY <1>2, <1>3, PutFileStays DEF Stays
<1>6. r.error = a.error /\ r.frames = a.frames
  BY <1>4 DEF PutFile, Fields
<1> HIDE DEF r
<1>7. InOrder(r)
  BY <1>1, <1>2, <1>3, <1>4, <1>5, <1>6 DEF InOrder, AtRest, Stays, Onward
<1> QED
  BY <1>1, <1>7 DEF r, a

(* No document is on the list.                                             *)
LEMMA NoneSaved ==
  ASSUME NEW t, t.order = <<>>
  PROVE  AllAutoSaved(t) = t
<1> DEFINE n == Len(t.order)
           Next1(y, k) == auto_save(y, t.order[k])
           Runs(f) == f = [k \in 0 .. n |-> IF k = 0 THEN t ELSE Next1(f[k - 1], k)]
           c == CHOOSE f : Runs(f)
           h == [k \in 0 .. n |-> t]
<1>1. AllAutoSaved(t) = c[n]
  BY DEF AllAutoSaved
<1>2. n = 0
  OBVIOUS
<1> HIDE DEF n, Next1
<1>3. h = [k \in 0 .. n |-> IF k = 0 THEN t ELSE Next1(h[k - 1], k)]
  BY <1>2
<1>4. Runs(h)
  BY <1>3
<1>5. Runs(c)
  <2> HIDE DEF Runs, h
  <2> QED
    BY <1>4
<1> HIDE DEF c
<1>6. c[n] = t
  BY <1>2, <1>5
<1> QED
  BY <1>1, <1>6

(* A fatal signal.                                                         *)
LEMMA FatalKeeps ==
  ASSUME IInv, FatalSignal
  PROVE  InOrder(s')
<1> DEFINE a == [s EXCEPT !.agreed = {}]
           c == AllAutoSaved(a)
           r == [c EXCEPT !.mode = "killed"]
<1>1. s' = r /\ s.mode \in {"editing", "selecting", "moving"}
  BY ScenarioAssumption DEF FatalSignal, IInv
<1>2. DOMAIN s = Fields
  BY <1>1 DEF IInv, InOrder, Fine, Moves, Held
<1>3. /\ DOMAIN a = Fields /\ a.order = s.order /\ a.recent = s.recent /\ a.cur = s.cur /\ a.doc = s.doc
      /\ a.disk = s.disk /\ a.scripts = s.scripts /\ a.macros = s.macros /\ a.recording = s.recording
      /\ a.frames = s.frames /\ a.pstack = s.pstack /\ a.mode = s.mode
  BY <1>2 DEF Fields
<1> HIDE DEF a
<1>4. DOMAIN c = Fields
  <2>1. CASE s.mode = "moving"
    <3>1. a.order = <<>>
      BY <1>3, <2>1 DEF IInv, InOrder, Moves
    <3> QED
      BY <1>3, <3>1, NoneSaved
  <2>2. CASE s.mode # "moving"
    <3>1. Fine({}, s)
      BY <1>1, <2>2 DEF IInv, InOrder
    <3>2. Stays({}, s, a)
      BY <1>3, <3>1, Aside
    <3>3. Stays({}, a, c)
      BY <3>2, AllAutoSavedStays DEF Stays
    <3> HIDE DEF c
    <3> QED
      BY <3>3, DocOf DEF Stays
  <2> QED
    BY <2>1, <2>2
<1> HIDE DEF c
<1>5. r.mode = "killed"
  BY <1>4 DEF Fields
<1> HIDE DEF r
<1>6. InOrder(r)
  BY <1>5 DEF InOrder
<1> QED
  BY <1>1, <1>6
-----------------------------------------------------------------------------
(* The invariant holds at the start, every step keeps it, and it is more   *)
(* than what SessionSound says.                                            *)
LEMMA InvStart ==
  ASSUME Init
  PROVE  IInv
<1>1. PICK u \in Replies : s = main(u) /\ scenario \in Scenarios
  BY DEF Init
<1>2. Fine({}, s) /\ s.mode = "editing" /\ s.error = OK
  BY <1>1, MainIs
<1> QED
  BY <1>1, <1>2 DEF IInv, InOrder, AtRest

(* Every step.                                                             *)
LEMMA InvKept ==
  ASSUME IInv, [Next]_vars
  PROVE  IInv'
<1>1. CASE Next
  <2>1. InOrder(s')
    <3>1. CASE Documents_
      BY <3>1, DocumentsKeep
    <3>2. CASE Options_
      BY <3>2, OptionsKeep
    <3>3. CASE Macros_
      BY <3>3, MacroCommandsKeep, MacroStepsKeep DEF Macros_
    <3>4. CASE Selects_
      BY <3>4, SelectsKeep
    <3>5. CASE ExternalWrite
      BY <3>5, ExternalKeeps
    <3>6. CASE FatalSignal
      BY <3>6, FatalKeeps
    <3> QED
      BY <1>1, <3>1, <3>2, <3>3, <3>4, <3>5, <3>6 DEF Next
  <2>2. scenario' = scenario
    <3>1. CASE Documents_
      BY <3>1 DEF Documents_, EXIT_A, QUIT_A, SAVEALL_A, SAVE_A, SAVEAS_A, CLEAR_A, OPEN_A, NEWDOC_A,
                  CLOSEDOC_A, NEXTDOC_A, PREVDOC_A, SELECTDOC_A, INSERT_A, SYSTEM_A, Done
    <3>2. CASE Options_
      BY <3>2 DEF Options_, Options_A, POPPREFS_A, LOADPREFS_A, SAVEPREFS_A, LOADAUTOPREFS_A,
                  SAVEAUTOPREFS_A, SAVEDEFPREFS_A, Done
    <3>3. CASE Macros_
      BY <3>3 DEF Macros_, RECORD_A, PLAY_A, SAVEMACRO_A, OPENMACRO_A, MACRO_A, UNLOADMACROS_A, EXEC_A,
                  MacroStep, MacroReturn, MacroStops, Interrupt, Done
    <3>4. CASE Selects_
      BY <3>4 DEF Selects_, SelectSave, SelectClose, SelectTake, SelectPut, SelectEscape
    <3>5. CASE ExternalWrite \/ FatalSignal
      BY <3>5 DEF ExternalWrite, FatalSignal
    <3> QED
      BY <1>1, <3>1, <3>2, <3>3, <3>4, <3>5 DEF Next
  <2>3. InOrder(s)'
    BY <2>1
  <2> QED
    BY <2>2, <2>3 DEF IInv
<1>2. CASE UNCHANGED vars
  <2>1. s' = s /\ scenario' = scenario
    BY <1>2 DEF vars
  <2>2. InOrder(s) /\ scenario \in Scenarios
    BY DEF IInv
  <2>3. InOrder(s')
    BY <2>1, <2>2
  <2>4. InOrder(s)'
    BY <2>3
  <2> QED
    BY <2>1, <2>2, <2>4 DEF IInv
<1> QED
  BY <1>1, <1>2

(* What it says of the documents and the limits.                           *)
LEMMA InvSays ==
  ASSUME IInv
  PROVE  SessionSound
<1>1. ASSUME s.mode \in {"editing", "selecting"}
      PROVE  /\ s.cur \in ToSet(s.order) /\ ToSet(s.order) = ToSet(s.recent) /\ ToSet(s.order) = DOMAIN s.doc
             /\ IsInjective(s.order) /\ IsInjective(s.recent)
             /\ \A b \in DOMAIN s.doc : s.doc[b].lines # <<>> /\ ~s.doc[b].exec_only_options
  <2>1. Fine({}, s)
    BY <1>1 DEF IInv, InOrder
  <2>2. /\ ToSet(s.order) = DOMAIN s.doc /\ ToSet(s.recent) = DOMAIN s.doc /\ s.cur \in DOMAIN s.doc
        /\ IsInjective(s.order) /\ IsInjective(s.recent)
    BY <2>1 DEF Fine, Listed, IsOrder
  <2>3. \A b \in DOMAIN s.doc : s.doc[b].lines # <<>> /\ ~s.doc[b].exec_only_options
    BY <2>1, DocOf DEF IsDoc, IsText
  <2> QED
    BY <2>2, <2>3
<1>2. ASSUME s.mode \in {"editing", "selecting", "moving"}
      PROVE  Len(s.frames) <= MaxDepth /\ Len(s.pstack) <= MaxPrefs /\ (s.frames = <<>> => s.error = OK)
  <2>1. Held({}, s) /\ AtRest(s)
    BY <1>2 DEF IInv, InOrder, Fine, Moves
  <2> QED
    BY <2>1 DEF Held, AreFrames, IsStack, AtRest
<1> QED
  BY <1>1, <1>2 DEF SessionSound

(* The list of documents and the order in which they were used are always  *)
(* the same documents, each once, the current one is among them, no        *)
(* document is without a line or left executing only options, macros and   *)
(* the stack of options stay within their limits, and no error is left     *)
(* over when no macro is played: after every command, also one that fails  *)
(* half way, and whatever is recorded, played, loaded or typed.            *)
THEOREM SessionStaysSound == Spec => []SessionSound
<1>1. Init => IInv
  BY InvStart
<1>2. IInv /\ [Next]_vars => IInv'
  BY InvKept
<1>3. IInv => SessionSound
  BY InvSays
<1> QED
  BY <1>1, <1>2, <1>3, PTL DEF Spec
=============================================================================
