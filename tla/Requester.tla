------------------------------ MODULE Requester -----------------------------
(***************************************************************************)
(* The requester (request.c): the user looks for one of the strings of a   *)
(* list by moving over pages of columns, by typing what it starts with,    *)
(* and may put the entries in another order.  The record q holds           *)
(*   q.l       the list (rl0), in the order in which it was made;          *)
(*   q.rl      the entries that are shown (rl), in the order of the screen;*)
(*   q.len     their lengths; q.prune whether only matches are shown;      *)
(*   q.fuzz    fuzz_len, how much of the selected entry was typed;         *)
(*   q.pages   the pages; q.page, q.C, q.R where the selected entry is;    *)
(*   q.lines, q.columns the screen.                                        *)
(* Entries, pages, rows and columns are counted from 0, as in the code.    *)
(***************************************************************************)
EXTENDS ReqList

CONSTANTS
  BY_COLUMN, MAX_REQ_COLS, \* req_order, and the most columns of a page
  UNNAMED_NAME             \* a document without a name

Count(q) == Len(q.rl)
Entry(q, n) == q.rl[n + 1]
Shown(q, n) == StrAt(q.l.chars, Entry(q, n))
SumTo(widths, n) == FoldLeft(LAMBDA a, b : a + b, 0, SubSeq(widths, 1, n))
NoPage == [first |-> 0, entries |-> 0, cols |-> 0, rows |-> 0, col_width |-> <<>>]
Page(q) == IF q.page + 1 \in DOMAIN q.pages THEN q.pages[q.page + 1] ELSE NoPage

(* fit_page(): each column is as wide as its longest entry.                *)
ColOf(i, cols, rows) == IF BY_COLUMN THEN i \div rows ELSE i % cols
RowOf(i, cols, rows) == IF BY_COLUMN THEN i % rows ELSE i \div cols
ColWidth(q, n0, entries, cols, rows, c) ==
  Max({q.len[n0 + i + 1] : i \in {i \in 0 .. entries - 1 : ColOf(i, cols, rows) = c}})
UsedCols(entries, cols, rows) == IF BY_COLUMN THEN (entries - 1) \div rows + 1 ELSE Min({entries, cols})
UsedRows(entries, cols, rows) == IF BY_COLUMN THEN Min({entries, rows}) ELSE (entries - 1) \div cols + 1
fit_page(q, n0, entries, cols, rows) ==
  [first |-> n0, entries |-> entries, cols |-> UsedCols(entries, cols, rows), rows |-> UsedRows(entries, cols, rows),
   col_width |-> [c \in 1 .. UsedCols(entries, cols, rows) |-> ColWidth(q, n0, entries, cols, rows, c - 1)]]
Width(p) == SumTo(p.col_width, p.cols)
Fits(q, p) == p.cols = 1 \/ Width(p) <= q.columns

(* reset_req_pages(): as many columns as fit on each page.                 *)
MaxRows(q) == q.lines - 1
MaxCols(q) == Min({q.columns \div 3, MAX_REQ_COLS})
PageFrom(q, first, cols) == fit_page(q, first, Min({cols * MaxRows(q), Count(q) - first}), cols, MaxRows(q))
BestPage(q, first) ==
  PageFrom(q, first, Max({cols \in 1 .. MaxCols(q) : cols = 1 \/ Fits(q, PageFrom(q, first, cols))}))
NextFirst(pages) == IF pages = <<>> THEN 0 ELSE Last(pages).first + Last(pages).entries
WithPages(q, kept) ==
  FoldLeft(LAMBDA pages, i : IF NextFirst(pages) < Count(q) THEN Append(pages, BestPage(q, NextFirst(pages))) ELSE pages,
           kept, [i \in 1 .. Count(q) |-> i])

(* The last page of columns is made about as wide as it is high.           *)
ColsFor(entries, rows) == (entries + rows - 1) \div rows
Proportional(q, p) == (Width(p) * 1000) \div p.rows < (q.columns * 1000) \div (q.lines - 1)
GoodPages(q, p) ==
  {rows \in 1 .. MaxRows(q) :
     /\ ColsFor(p.entries, rows) < MAX_REQ_COLS
     /\ LET t == fit_page(q, p.first, p.entries, ColsFor(p.entries, rows), rows)
        IN  Fits(q, t) /\ (rows = MaxRows(q) \/ Proportional(q, t))}
Lower(q, p, cols, rows) ==
  {g \in 1 .. rows : \A r \in g .. rows - 1 :
                       cols * r >= p.entries /\ Fits(q, fit_page(q, p.first, p.entries, cols, r))}
Lowest(q, p, cols, rows) == fit_page(q, p.first, p.entries, cols, Min(Lower(q, p, cols, rows)))
Tweaked(q, p) ==
  IF GoodPages(q, p) = {} THEN p
  ELSE Lowest(q, p, ColsFor(p.entries, Min(GoodPages(q, p))), Min(GoodPages(q, p)))
LastTweaked(q, pages) == IF BY_COLUMN /\ pages # <<>> THEN Append(Front(pages), Tweaked(q, Last(pages))) ELSE pages

PagesWith(q, n) == {i \in DOMAIN q.pages : q.pages[i].first + q.pages[i].entries > n}
reset_req_pages(q, n0) ==
  [q EXCEPT !.pages = LastTweaked(q, WithPages(q, IF PagesWith(q, n0) = {} THEN <<>>
                                                  ELSE SubSeq(q.pages, 1, Min(PagesWith(q, n0)) - 1)))]

(* n2pcrx(), pcr2n() and normalize().                                      *)
At(q, p, d) == [q EXCEPT !.page = p - 1, !.C = ColOf(d, q.pages[p].cols, q.pages[p].rows),
                         !.R = RowOf(d, q.pages[p].cols, q.pages[p].rows)]
n2pcr(q, n) ==
  IF PagesWith(q, n) = {} THEN [q EXCEPT !.page = 0, !.C = 0, !.R = 0]
  ELSE At(q, Min(PagesWith(q, n)), n - q.pages[Min(PagesWith(q, n))].first)
pcr2n(q, c, r) ==
  IF BY_COLUMN THEN Page(q).first + Page(q).rows * c + r ELSE Page(q).first + Page(q).cols * r + c
Current(q) == pcr2n(q, q.C, q.R)
normalize(q, n) == n2pcr(q, Max({0, Min({n, Count(q) - 1})}))
-----------------------------------------------------------------------------
(* Moves.                                                                  *)
LastOf(q) == Page(q).first + Page(q).entries - 1
ToPrevRow(q) ==
  IF pcr2n(q, Page(q).cols - 1, q.R - 1) <= LastOf(q) THEN pcr2n(q, Page(q).cols - 1, q.R - 1)
  ELSE pcr2n(q, Page(q).cols - 2, q.R - 1)
Leftwards(q) ==
  IF q.R = 0 /\ q.C = 0 THEN (IF q.page > 0 THEN Page(q).first - 1 ELSE Current(q))
  ELSE IF q.C > 0 THEN pcr2n(q, q.C - 1, q.R)
  ELSE ToPrevRow(q)
Rightwards(q) ==
  IF Current(q) = LastOf(q) THEN LastOf(q) + 1
  ELSE IF q.C < Page(q).cols - 1 /\ pcr2n(q, q.C + 1, q.R) <= LastOf(q) THEN pcr2n(q, q.C + 1, q.R)
  ELSE IF q.R < Page(q).rows - 1 THEN pcr2n(q, 0, q.R + 1)
  ELSE Current(q)
Upwards(q) ==
  IF q.R = 0 /\ q.C = 0 THEN (IF q.page > 0 THEN Page(q).first - 1 ELSE Current(q))
  ELSE IF q.R > 0 THEN pcr2n(q, q.C, q.R - 1)
  ELSE pcr2n(q, q.C - 1, Page(q).rows - 1)
Downwards(q) ==
  IF Current(q) = LastOf(q) THEN LastOf(q) + 1
  ELSE IF q.R = Page(q).rows - 1 THEN pcr2n(q, q.C + 1, 0)
  ELSE pcr2n(q, q.C, q.R + 1)

request_move_left(q) == normalize(q, Leftwards(q))
request_move_right(q) == normalize(q, Rightwards(q))
request_move_up(q) == normalize(q, Upwards(q))
request_move_down(q) == normalize(q, Downwards(q))
request_move_next(q) == normalize(q, Current(q) + 1)
request_move_previous(q) == normalize(q, Current(q) - 1)
request_move_to_sof(q) == normalize(q, 0)
request_move_to_eof(q) == normalize(q, Count(q) - 1)
request_toggle_seof(q) == IF q.C + q.R + q.page = 0 THEN request_move_to_eof(q) ELSE request_move_to_sof(q)
request_move_to_sol(q) == FoldLeft(LAMBDA t, i : IF t.C > 0 THEN request_move_left(t) ELSE t, q, [i \in 1 .. q.C |-> i])
CanEol(q) == q.C < Page(q).cols - 1 /\ pcr2n(q, q.C + 1, q.R) < Count(q)
request_move_to_eol(q) ==
  FoldLeft(LAMBDA t, i : IF CanEol(t) THEN request_move_right(t) ELSE t, q, [i \in 1 .. Page(q).cols |-> i])
request_toggle_seol(q) == IF q.C # 0 THEN [q EXCEPT !.C = 0] ELSE request_move_to_eol(q)

(* To the same part of another page.                                       *)
PerMille(q) == ((Current(q) - Page(q).first) * 65536) \div Page(q).entries
SamePart(part, p) == (part * (p.entries + 1)) \div 65536 + p.first
request_prev_page(q) ==
  IF q.page = 0 THEN normalize(q, 0)
  ELSE normalize(q, Max({SamePart(PerMille(q), q.pages[q.page]), q.pages[q.page].first}))
request_next_page(q) ==
  IF LastOf(q) + 1 >= Count(q) THEN normalize(q, Count(q) - 1)
  ELSE LET p == q.pages[q.page + 2] IN normalize(q, Min({SamePart(PerMille(q), p), p.first + p.entries - 1}))
request_move_inc_up(q) ==
  IF q.C # 0 THEN request_move_to_sol(q) ELSE IF q.R = 0 THEN request_move_to_sof(q) ELSE request_prev_page(q)
request_move_inc_down(q) ==
  IF q.C # Page(q).cols - 1 THEN request_move_to_eol(q)
  ELSE IF q.R = Page(q).rows - 1 THEN request_move_to_eof(q)
  ELSE request_next_page(q)
-----------------------------------------------------------------------------
(* F2 and F3: the selected entry changes places with the next one, or goes *)
(* all the way to the other end.                                           *)
reorder_referent(q, n) ==
  IF q.l.allow_reorder /\ \E i \in DOMAIN q.l.entries : q.l.reorder[i] = n
    THEN (CHOOSE i \in DOMAIN q.l.entries : q.l.reorder[i] = n) - 1
  ELSE n
Swap(seq, i, j) == [seq EXCEPT ![i] = seq[j], ![j] = seq[i]]
Swapped(q, a, b) ==
  [q EXCEPT !.l.reorder = Swap(@, reorder_referent(q, a) + 1, reorder_referent(q, b) + 1),
            !.rl = Swap(@, a + 1, b + 1), !.len = Swap(@, a + 1, b + 1)]
Steps(from, to) == [i \in 1 .. (IF from < to THEN to - from ELSE from - to) |-> IF from < to THEN from + i - 1 ELSE from - i + 1]
Moved(q, from, to) == FoldLeft(LAMBDA t, n : Swapped(t, n, IF from < to THEN n + 1 ELSE n - 1), q, Steps(from, to))
MovedTo(q, from, to) ==
  normalize(reset_req_pages([Moved(q, from, to) EXCEPT !.l.reordered = TRUE], Min({from, to})), to)
request_reorder(q, dir) ==
  IF ~q.l.allow_reorder \/ Count(q) < 2 THEN q
  ELSE MovedTo(q, Current(q), (Current(q) + dir + Count(q)) % Count(q))
-----------------------------------------------------------------------------
(* What is typed selects the entries that go on with it.                   *)
Selected(q) == Shown(q, Current(q))
common_prefix_len(q) ==
  Max({n \in 0 .. Len(Shown(q, 0)) : \A i \in 0 .. Count(q) - 1 : SamePrefix(Shown(q, 0), Shown(q, i), n)})
Goes(q, n, c) ==
  /\ SamePrefix(Selected(q), Shown(q, n), q.fuzz) /\ Len(Shown(q, n)) > q.fuzz
  /\ localised_up_case(Shown(q, n)[q.fuzz + 1]) = c

count_fuzz_matches(q, len) ==
  IF len <= 0 THEN Len(q.l.entries)
  ELSE IF len > Len(Selected(q)) THEN 1
  ELSE Cardinality({i \in DOMAIN q.l.entries : SamePrefix(Selected(q), TextOf(q.l, i), len)})
FuzzBack(q) == {n \in 0 .. q.fuzz : n = 0 \/ count_fuzz_matches(q, n) # count_fuzz_matches(q, q.fuzz)}
FuzzOn(q, fuzz) ==
  {n \in fuzz .. Len(Selected(q)) + 1 :
     \A m \in fuzz + 1 .. n : count_fuzz_matches(q, m) = count_fuzz_matches(q, fuzz)}
shift_fuzz(q, d) == [q EXCEPT !.fuzz = IF d < 0 THEN Max(FuzzBack(q)) ELSE Max(FuzzOn(q, q.fuzz))]

(* The places in q.l of the entries to show, in their order.               *)
Matches(q) ==
  SelectSeq([i \in DOMAIN q.l.entries |-> reorder_referent(q, i - 1) + 1],
            LAMBDA i : ~q.prune \/ SamePrefix(Selected(q), TextOf(q.l, i), q.fuzz))
IndexOf(rl, p) == IF p \in ToSet(rl) THEN (CHOOSE i \in DOMAIN rl : rl[i] = p) - 1 ELSE 0
ShowOnly(q, places, p) ==
  LET t == [q EXCEPT !.rl = [i \in DOMAIN places |-> q.l.entries[places[i]]],
                     !.len = [i \in DOMAIN places |-> q.l.lengths[places[i]]]]
  IN  normalize(reset_req_pages(t, 0), IndexOf(t.rl, p))
rebuild_rl_entries(q) == ShowOnly(q, Matches(q), Entry(q, Current(q)))
toggle_prune(q) == rebuild_rl_entries([q EXCEPT !.prune = ~@, !.l.prune = ~q.prune])
fuzz_back(q) == IF q.fuzz = 0 THEN q ELSE rebuild_rl_entries(shift_fuzz(q, -1))

Kept(q, kept, p) ==
  LET t == [q EXCEPT !.rl = [i \in DOMAIN kept |-> q.rl[kept[i]]], !.len = [i \in DOMAIN kept |-> q.len[kept[i]]]]
  IN  normalize(reset_req_pages([t EXCEPT !.fuzz = common_prefix_len(t)], 0), IndexOf(t.rl, p))
PruneTo(q, kept) == IF kept = <<>> THEN q ELSE Kept(q, kept, Entry(q, Current(q)))
RoundFrom(q, n) == [i \in 1 .. Count(q) |-> (n + i - 1) % Count(q)]
NextGoing(q, going) ==
  IF going = <<>> THEN q
  ELSE normalize(shift_fuzz([n2pcr(q, going[1]) EXCEPT !.fuzz = @ + 1], 1), going[1])
fuzz_forward(q, c) ==
  IF q.prune THEN PruneTo(q, SelectSeq([i \in 1 .. Count(q) |-> i], LAMBDA i : Goes(q, i - 1, c)))
  ELSE NextGoing(q, SelectSeq(RoundFrom(q, Current(q)), LAMBDA n : Goes(q, n, c)))
-----------------------------------------------------------------------------
(* request_strings() begins, and before each key the prefix is cut to the  *)
(* length of the entry.                                                    *)
request_strings_init(l, lines, columns) ==
  LET q == [l |-> l, rl |-> l.entries, len |-> l.lengths, prune |-> l.prune, fuzz |-> 0, pages |-> <<>>,
            page |-> 0, C |-> 0, R |-> 0, lines |-> lines, columns |-> columns]
  IN  [q EXCEPT !.fuzz = common_prefix_len(q)]
AtKey(q) == [q EXCEPT !.fuzz = Min({@, Len(Selected(q))})]
request_strings(l, n, lines, columns) ==
  AtKey(n2pcr(reset_req_pages(request_strings_init(l, lines, columns), 0), n))
Resized(q, lines, columns) ==
  AtKey(n2pcr(reset_req_pages([q EXCEPT !.lines = lines, !.columns = columns], 0), Current(q)))

(* request_strings_cleanup(): the place of the selected entry in the list. *)
Choice(q) == IndexOf(q.l.entries, Entry(q, Current(q)))
-----------------------------------------------------------------------------
(* The requester of the documents (SelectDoc): the entry i of q.l is the   *)
(* document docs[i]. Documents are saved and closed in it, and put in the  *)
(* order that is shown.                                                    *)
DOC_SUFFIX == 42

DocName(d) == IF d.name = <<>> THEN UNNAMED_NAME ELSE d.name
DocList(docs, prune) ==
  [req_list_finalize(FoldLeft(LAMBDA l, d : req_list_add(l, DocName(d), d.modified),
                              req_list_init("none", TRUE, TRUE, DOC_SUFFIX), docs))
     EXCEPT !.ignore_tab = TRUE, !.prune = prune]
Place0(q) == Choice(q) + 1                          \* of the selected document

(* Save: the document is not modified any more, and its mark goes.         *)
Strip(q, p, text) ==
  IF Last(text) = q.l.suffix THEN [q EXCEPT !.l.chars[p + Len(text) - 1] = NULchar] ELSE q
handle_savedoc(q) == normalize(Strip(q, Entry(q, Current(q)), Selected(q)), Current(q))

(* CloseDoc: there is always an entry left to show.                        *)
CanClose(q, docs) == ~docs[Place0(q)].modified /\ Len(q.l.entries) > 1
StillShown(q) == IF Count(q) = 1 THEN fuzz_back(q) ELSE q
Dropped(q, n) == [q EXCEPT !.rl = RemoveAt(@, n + 1), !.len = RemoveAt(@, n + 1)]
BadDeleted(q, o, p) == [q EXCEPT !.l = req_list_del(@, o)]
Deleted(q, o, p) ==
  [q EXCEPT !.l = req_list_del(@, o),
            !.rl = [i \in DOMAIN @ |-> Shifted(@[i], p, LengthToDelete(q.l, o))]]
CloseFrom(q, n, o, p) ==
  LET d == Dropped(q, n)
      e == Deleted([d EXCEPT !.fuzz = common_prefix_len(d)], o, p)
  IN  normalize(reset_req_pages(e, 0), Min({n, Count(e) - 1}))
handle_closedoc(q) ==
  LET p == Entry(q, Current(q))
      s == StillShown(q)
  IN  CloseFrom(s, IndexOf(s.rl, p), Place0(q), p)
(* The current document, when the o-th of n goes.                          *)
CurAfterClose(cur, o, n) ==
  IF cur > o THEN cur - 1 ELSE IF cur = o /\ o = n THEN 1 ELSE cur

(* RETURN: the documents are put in order, and the chosen one is current.  *)
BadReordered(l, docs) == [i \in DOMAIN docs |-> docs[l.reorder[i] + 1]]
Reordered(l, docs) ==
  IF l.reordered THEN [i \in DOMAIN docs |-> docs[CHOOSE j \in DOMAIN docs : l.reorder[j] = i - 1]] ELSE docs
ChosenPlace(q) == IF q.l.reordered THEN q.l.reorder[Place0(q)] + 1 ELSE Place0(q)
=============================================================================
