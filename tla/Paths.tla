-------------------------------- MODULE Paths -------------------------------
(***************************************************************************)
(* The names of files (support.c), cut at the slashes: root says that the  *)
(* name begins with one, parts is what is between them.  A part may be     *)
(* Empty, as between two slashes or after the last one.  A directory, such *)
(* as the current one, is the sequence of its parts.                       *)
(***************************************************************************)
EXTENDS Naturals, Sequences, SequencesExt

CONSTANTS Empty, Dot, Up, Tilde, \* the parts "", ".", ".." and "~"
          Home                   \* the directory that Tilde stands for
ASSUME PartsAssumption == Cardinality({Empty, Dot, Up, Tilde}) = 4

None == [root |-> FALSE, parts |-> <<>>]      \* a null pointer
file_part(name) == Last(name.parts)

(* tilde_expand(), that every function that opens a file calls.            *)
tilde_expand(name) ==
  IF ~name.root /\ Len(name.parts) > 1 /\ Head(name.parts) = Tilde
    THEN [root |-> TRUE, parts |-> Home \o Tail(name.parts)]
  ELSE name

(* The last part is left alone; one that is the first of a relative name   *)
(* does not go away with the Up after it.                                  *)
Put(kept, part, root) ==
  CASE part \in {Empty, Dot} -> kept
    [] part = Up /\ kept = <<>> -> IF root THEN kept ELSE <<Up>>
    [] part = Up /\ kept # <<>> /\ Last(kept) # Up /\ (root \/ Len(kept) > 1) -> Front(kept)
    [] OTHER -> Append(kept, part)
normalize_path(name) ==
  [name EXCEPT !.parts =
     IF @ = <<>> THEN @
     ELSE Append(FoldLeft(LAMBDA kept, part : Put(kept, part, name.root), <<>>, Front(@)), Last(@))]

(* How many directories of dir name is under: all of name but its last     *)
(* part may be in common.                                                  *)
Common(parts, dir) ==
  CHOOSE k \in 0 .. Len(parts) - 1 :
    /\ k <= Len(dir) /\ SubSeq(parts, 1, k) = SubSeq(dir, 1, k)
    /\ k + 1 < Len(parts) /\ k < Len(dir) => parts[k + 1] # dir[k + 1]
relative_file_path(name, dir) ==
  LET parts == normalize_path(name).parts
      k == Common(parts, dir)
  IN  normalize_path([root |-> FALSE,
                      parts |-> [i \in 1 .. Len(dir) - k |-> Up] \o SubSeq(parts, k + 1, Len(parts))])

Under(dir, part, last) ==
  IF part = Up /\ ~last THEN (IF dir = <<>> THEN dir ELSE Front(dir))
  ELSE IF part \in {Dot, Empty} /\ ~last THEN dir
  ELSE Append(dir, part)
absolute_file_path(name, dir) ==
  LET parts == (IF name.root THEN relative_file_path(name, dir) ELSE name).parts
  IN  normalize_path([root |-> TRUE,
        parts |-> FoldLeft(LAMBDA at, i : Under(at, parts[i], i = Len(parts)), dir, [i \in DOMAIN parts |-> i])])

(* NameConvert: c < 1 converts to a relative name, c # 0 to an absolute.   *)
NameConvert(name, dir, c) ==
  IF name = None THEN name
  ELSE IF name.root /\ c < 1 THEN relative_file_path(name, dir)
  ELSE IF ~name.root /\ c # 0 THEN absolute_file_path(name, dir)
  ELSE name

(* The file that a name stands for in a directory, as the system walks it. *)
Walk(dir, part) ==
  IF part \in {Empty, Dot} THEN dir
  ELSE IF part = Up THEN (IF dir = <<>> THEN dir ELSE Front(dir))
  ELSE Append(dir, part)
FileOf(name, dir) ==
  LET full == tilde_expand(name)
  IN  FoldLeft(Walk, IF full.root THEN <<>> ELSE dir, full.parts)
=============================================================================
