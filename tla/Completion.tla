----------------------------- MODULE Completion -----------------------------
(***************************************************************************)
(* What can be put in for the beginning of a word, of the name of a file   *)
(* or of a syntax: autocomplete() (autocomp.c), complete_filename()        *)
(* (input.c), request_files() and request_syntax() (request.c).  A document*)
(* here is a record d with its lines, each a sequence of bytes, d.enc, and *)
(* where its cursor is, d.cur_line and d.cur_pos.                          *)
(***************************************************************************)
EXTENDS Utf8, Requester, Paths

CONSTANTS Tree,        \* the directories: for each, the names in it and if they are directories
          SyntaxNames  \* the syntaxes, each with whether it is in the directory of the user

EXTERNAL_FLAG_CHAR == 42
-----------------------------------------------------------------------------
(* Words: an apostrophe is in one when word characters are on both sides.  *)
InWord(s, p, enc) ==
  \/ WordAt(s, p, enc)
  \/ Byte(s, p) = 39 /\ p > 0 /\ WordAt(s, prev_pos(s, p, enc), enc) /\ p + 1 < Len(s) /\ WordAt(s, p + 1, enc)
WordStarts(s, enc) ==
  {p \in Starts(s, enc) : WordAt(s, p, enc) /\ (p = 0 \/ ~InWord(s, prev_pos(s, p, enc), enc))}
WordEnd(s, p, enc) == Min({q \in Starts(s, enc) \cup {Len(s)} : q > p /\ (q = Len(s) \/ ~InWord(s, q, enc))})
WordsOf(s, enc) ==
  LET starts == SetToSortSeq(WordStarts(s, enc), <)
  IN  [k \in DOMAIN starts |-> [from |-> starts[k], to |-> WordEnd(s, starts[k], enc)]]
BytesIn(s, w) == SubSeq(s, w.from + 1, w.to)

Completes(prefix, str, case_search) ==
  /\ Len(str) > Len(prefix)
  /\ IF case_search THEN Start(str, Len(prefix)) = prefix ELSE SamePrefix(prefix, str, Len(prefix))
(* The word that the cursor is in is not offered.                          *)
AtCursor(d, i, w) == i = d.cur_line /\ w.from <= d.cur_pos /\ d.cur_pos <= w.to
Offered(d, i, w, current, enc) ==
  ~(current /\ AtCursor(d, i, w)) /\ (d.enc = enc \/ is_ascii(BytesIn(d.lines[i], w)))
Candidates(d, i, current, enc) ==
  LET ws == SelectSeq(WordsOf(d.lines[i], d.enc), LAMBDA w : Offered(d, i, w, current, enc))
  IN  [k \in DOMAIN ws |-> BytesIn(d.lines[i], ws[k])]
search_buff(l, d, current, enc, prefix, case_search) ==
  FoldLeft(LAMBDA m, str : req_list_add(m, str, ~current), l,
           SelectSeq(FlattenSeq([i \in DOMAIN d.lines |-> Candidates(d, i, current, enc)]),
                     LAMBDA str : Completes(prefix, str, case_search)))

(* The entries are put in order again, and their lengths are not.          *)
Sorted(l) ==
  [l EXCEPT !.entries = SortSeq(@, LAMBDA a, b : strdictcmp(StrAt(l.chars, a), StrAt(l.chars, b)) < 0)]
AllDocs(docs, cur, prefix, case_search) ==
  FoldLeft(LAMBDA l, i : search_buff(l, docs[i], FALSE, docs[cur].enc, prefix, case_search),
           search_buff(req_list_init(IF case_search THEN "case" ELSE "dict", FALSE, FALSE, EXTERNAL_FLAG_CHAR),
                       docs[cur], TRUE, docs[cur].enc, prefix, case_search),
           SelectSeq([i \in DOMAIN docs |-> i], LAMBDA i : i # cur))

(* max_prefix(): how much of s is in t too, as characters.                 *)
MaxPrefix(s, s_enc, t, t_enc) ==
  LET ps == SetToSortSeq(Starts(s, s_enc), <)
      pt == SetToSortSeq(Starts(t, t_enc), <)
      k == Max({k \in 0 .. Min({Len(ps), Len(pt)}) :
                  \A i \in 1 .. k : get_char(s, ps[i], s_enc) = get_char(t, pt[i], t_enc)})
  IN  IF k = Len(ps) THEN Len(s) ELSE ps[k + 1]
Unmarked(str, mark) == IF str # <<>> /\ Last(str) = mark THEN Front(str) ELSE str
Common2(s, t) == MaxPrefix(s, detect_encoding(Unmarked(s, EXTERNAL_FLAG_CHAR)), t, detect_encoding(t))
BadCommonAll(strs) == Common2(strs[1], Last(strs))
CommonAll(strs) ==
  Min({Len(Unmarked(strs[1], EXTERNAL_FLAG_CHAR))} \cup {Common2(strs[1], strs[i]) : i \in DOMAIN strs \ {1}})

(* What autocomplete() gives back at once, or the list to choose from.     *)
NoMatch == [how |-> "none"]
Answered(strs, m) ==
  [how |-> "got", p |-> SubSeq(strs[1], 1, m),
   whole |-> \E i \in DOMAIN strs : Len(Unmarked(strs[i], EXTERNAL_FLAG_CHAR)) = m]
AnsweredFrom(l, strs, m, prefix, prune) ==
  IF m > Len(prefix) THEN Answered(strs, m) ELSE [how |-> "ask", l |-> [l EXCEPT !.prune = prune]]
AskedFrom(l, strs, prefix, prune) ==
  IF strs = <<>> THEN NoMatch ELSE AnsweredFrom(l, strs, CommonAll(strs), prefix, prune)
FromList(l, prefix, prune) == AskedFrom(l, Texts(l), prefix, prune)
autocomplete(docs, cur, prefix, case_search, prune) ==
  FromList(Sorted(req_list_finalize(AllDocs(docs, cur, prefix, case_search))), prefix, prune)

(* context_prefix(): the word characters before the cursor.                *)
context_prefix(d) ==
  LET s == d.lines[d.cur_line]
      p == Min({p \in Starts(s, d.enc) \cup {d.cur_pos} :
                  p <= d.cur_pos /\ \A q \in Starts(s, d.enc) : p <= q /\ q < d.cur_pos => WordAt(s, q, d.enc)})
  IN  IF d.cur_pos > Len(s) THEN d.cur_pos ELSE p
-----------------------------------------------------------------------------
(* Names of files as bytes.                                                *)
Slashes(bytes) == SetToSortSeq({i \in DOMAIN bytes : bytes[i] = Slash} \cup {Len(bytes) + 1}, <)
PartsOf(bytes) ==
  LET ends == Slashes(bytes)
  IN  [k \in DOMAIN ends |-> SubSeq(bytes, IF k = 1 THEN 1 ELSE ends[k - 1] + 1, ends[k] - 1)]
PathOf(bytes) ==
  IF bytes # <<>> /\ Head(bytes) = Slash THEN [root |-> TRUE, parts |-> PartsOf(Tail(bytes))]
  ELSE [root |-> FALSE, parts |-> PartsOf(bytes)]
BytesOf(name) ==
  (IF name.root THEN <<Slash>> ELSE <<>>)
    \o FlattenSeq([i \in DOMAIN name.parts |-> name.parts[i] \o IF i < Len(name.parts) THEN <<Slash>> ELSE <<>>])
DirOf(name) == [name EXCEPT !.parts = Append(Front(@), Empty)]
Listing(dir) == Tree[dir] \cup {[name |-> Dot, dir |-> TRUE], [name |-> Up, dir |-> TRUE]}
is_prefix(p, str) == Start(str, Len(p)) = p

(* complete_filename(): what the names that begin so have in common, or    *)
(* Nothing.                                                                *)
Nothing == <<-1>>
Beginning(dir, part) == {e \in Listing(dir) : is_prefix(part, e.name)}
SharedBy(es) ==
  LET one == (CHOOSE e \in es : TRUE).name
  IN  SubSeq(one, 1, Max({k \in 0 .. Len(one) : \A e \in es : is_prefix(SubSeq(one, 1, k), e.name)}))
AddSlash(es) == IF Cardinality(es) = 1 /\ \A e \in es : e.dir THEN <<Slash>> ELSE <<>>
CompleteIn(name, dir) ==
  IF dir \notin DOMAIN Tree \/ Beginning(dir, file_part(name)) = {} THEN Nothing
  ELSE BytesOf([name EXCEPT !.parts = Append(Front(@), SharedBy(Beginning(dir, file_part(name))))])
         \o AddSlash(Beginning(dir, file_part(name)))
complete_filename(bytes, cwd) == CompleteIn(PathOf(bytes), FileOf(DirOf(PathOf(bytes)), cwd))

(* request_files(): f.start is the directory it began in and goes back to, *)
(* f.at the one that is shown.                                             *)
FilesFrom(name, cwd, use_prefix) ==
  [start |-> cwd, at |-> FileOf(DirOf(name), cwd), absolute |-> name.root, use_prefix |-> use_prefix,
   file |-> file_part(name)]
CanOpen(f) == f.at \in DOMAIN Tree
FileList(f) ==
  req_list_finalize(
    FoldLeft(LAMBDA l, e : req_list_add(l, e.name, e.dir), req_list_init("files", TRUE, FALSE, Slash),
             SetToSeq({e \in Listing(f.at) : f.use_prefix => is_prefix(f.file, e.name)})))
IsDir(str) == Last(str) = Slash
Enter(f, str) ==
  LET dir == Walk(f.at, Front(str))
  IN  IF dir \in DOMAIN Tree THEN [f EXCEPT !.at = dir, !.use_prefix = FALSE] ELSE f
FullName(f, str) == [root |-> TRUE, parts |-> f.at \o PartsOf(str)]
BadFileName(f, str) == BytesOf(relative_file_path(FullName(f, str), f.at))
FileName(f, str) ==
  BytesOf(IF f.absolute THEN FullName(f, str) ELSE relative_file_path(FullName(f, str), f.start))

(* request_syntax(): the names of both directories, each once.             *)
SyntaxList ==
  req_list_finalize(
    FoldLeft(LAMBDA l, e : req_list_add(l, e.name, e.own), req_list_init("files", FALSE, FALSE, EXTERNAL_FLAG_CHAR),
             SetToSortSeq(SyntaxNames, LAMBDA a, b : a.own /\ ~b.own)))
SyntaxName(str) == Unmarked(str, EXTERNAL_FLAG_CHAR)
=============================================================================
