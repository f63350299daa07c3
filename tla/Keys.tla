-------------------------------- MODULE Keys --------------------------------
(***************************************************************************)
(* What the bytes of the terminal mean (keys.c): a character, a key of the *)
(* table of capabilities, or nothing. get_key_code() is a process: between *)
(* two bytes it waits for the terminal, and a pause or a signal may come.  *)
(* The positions in the buffer count from 0, as in the code; the keys of   *)
(* the table count from 1.                                                 *)
(***************************************************************************)
EXTENDS Utf8, SequencesExt

CONSTANTS
  MAX_TERM_KEY,  \* the places of the table
  KBD_BUF_SIZE   \* the bytes that wait to be matched

VARIABLES
  key,                      \* the table: a sequence of [string, code]
  io_utf8, escape_time,     \* options
  tty,                      \* what the terminal sent and was not read
  kbd_buffer,               \* what was read and has not been given
  last_match, cur_key,      \* get_key_code(): how much of which key matches,
  partial_match,            \*   is somebody waiting for the rest of it,
  partial_is_utf8,          \*   is it not a key but a character;
  doing,                    \*   where it is: "match", "read", or "out" of it
  got                       \* what it returned last
setupvars == <<key, io_utf8, escape_time>>
matchvars == <<last_match, cur_key, partial_match, partial_is_utf8>>
keyvars == <<setupvars, tty, kbd_buffer, matchvars, doing, got>>

INVALID_CHAR == -2147483647 - 1
Kbd(i) == Byte(kbd_buffer, i)
StringOf(k) == key[k].string
-----------------------------------------------------------------------------
(* The table: sorted by the reverse of strcmp().                           *)
GreaterAt(s, r, d) ==
  /\ \A i \in 1 .. d - 1 : i \in DOMAIN r /\ s[i] = r[i]
  /\ d \in DOMAIN r => s[d] > r[d]
greater(s, r) == \E d \in DOMAIN s : GreaterAt(s, r, d)
begins(s, r) == Len(s) <= Len(r) /\ \A i \in DOMAIN s : s[i] = r[i]
Binding(string, code) == [string |-> string, code |-> code]
key_set(table, string, code) == Append(table, Binding(string, code))
qsort(table) == SortSeq(table, LAMBDA k, l : greater(k.string, l.string))

(* binsearch(): the key that s is, or begins; or the place for it.         *)
Found(table, m, s) == begins(s, table[m].string)
binsearch(table, s) ==
  LET search[l \in 1 .. Len(table) + 1, r \in 0 .. Len(table)] ==
        LET m == (l + r) \div 2
        IN  IF l > r THEN [found |-> FALSE, pos |-> l]
            ELSE IF Found(table, m, s) THEN [found |-> TRUE, pos |-> m]
            ELSE IF greater(table[m].string, s) THEN search[m + 1, r]
            ELSE search[l, m - 1]
  IN  search[1, Len(table)]

(* key_may_set(): a code that is forced, which is negative in the code,    *)
(* replaces that of the key that was found, even of a longer one.          *)
key_may_set(table, string, code, forced) ==
  LET at == binsearch(table, string)
  IN  CASE Len(table) >= MAX_TERM_KEY - 1 -> table
        [] OTHER ->
             IF at.found THEN IF forced THEN [table EXCEPT ![at.pos].code = code] ELSE table
             ELSE InsertAt(table, at.pos, Binding(string, code))

(* read_key_capabilities() and then the lines SEQ of the key bindings: the *)
(* capabilities of the terminal, what is tried in any case, and what the   *)
(* user asked for.                                                         *)
Set(table, keys, forced) ==
  FoldLeft(LAMBDA tb, k : key_may_set(tb, k.string, k.code, forced), table, keys)
Table(caps, tried, seqs) ==
  Set(Set(qsort(FoldLeft(LAMBDA tb, k : key_set(tb, k.string, k.code), <<>>, caps)), tried, FALSE), seqs, TRUE)

KeysInit ==
  /\ tty = <<>> /\ kbd_buffer = <<>>
  /\ last_match = 0 /\ cur_key = 1 /\ partial_match = FALSE /\ partial_is_utf8 = FALSE
  /\ doing = "out" /\ got = INVALID_CHAR
-----------------------------------------------------------------------------
(* get_key_code(). It looks at what is already there, if anything.         *)
Look(buffer) == IF buffer = <<>> THEN "read" ELSE "match"
get_key_code ==
  /\ doing = "out"
  /\ doing' = Look(kbd_buffer)
  /\ last_match' = 0 /\ cur_key' = 1 /\ partial_match' = FALSE /\ partial_is_utf8' = FALSE
  /\ UNCHANGED <<setupvars, tty, kbd_buffer, got>>

After(n) == SubSeq(kbd_buffer, n + 1, Len(kbd_buffer))
Gives(c, n) ==
  /\ got' = c /\ kbd_buffer' = After(n) /\ doing' = "out"
  /\ UNCHANGED <<setupvars, tty, matchvars>>
GivesUp == Gives(Kbd(0), 1)

(* A turn of the loop over the bytes. One that is not ASCII begins a       *)
(* character in UTF-8, if the terminal speaks it; else the keys of the     *)
(* table are tried one after the other.                                    *)
Matching == doing = "match" /\ last_match < Len(kbd_buffer)
StartsUtf8 == last_match = 0 /\ io_utf8 /\ Kbd(0) >= 128
Utf8Starts ==
  /\ Matching /\ StartsUtf8
  /\ partial_is_utf8' = TRUE /\ last_match' = 1
  /\ UNCHANGED <<setupvars, tty, kbd_buffer, cur_key, partial_match, doing, got>>

InUtf8 == Matching /\ ~StartsUtf8 /\ partial_is_utf8
Utf8Goes ==
  /\ InUtf8 /\ IsFollow(Kbd(last_match)) /\ utf8len(Kbd(0)) # last_match + 1
  /\ last_match' = last_match + 1
  /\ UNCHANGED <<setupvars, tty, kbd_buffer, cur_key, partial_match, partial_is_utf8, doing, got>>
Utf8Ends ==
  /\ InUtf8 /\ IsFollow(Kbd(last_match)) /\ utf8len(Kbd(0)) = last_match + 1
  /\ Gives(utf8char(kbd_buffer, 0), last_match + 1)
BadUtf8Error ==
  /\ InUtf8 /\ ~IsFollow(Kbd(last_match))
  /\ kbd_buffer' = After(1) /\ last_match' = 0
  /\ UNCHANGED <<setupvars, tty, cur_key, partial_match, partial_is_utf8, doing, got>>
Utf8Error ==
  /\ InUtf8 /\ ~IsFollow(Kbd(last_match))
  /\ kbd_buffer' = After(1) /\ last_match' = 0 /\ partial_is_utf8' = FALSE
  /\ UNCHANGED <<setupvars, tty, cur_key, partial_match, doing, got>>

InKeys == Matching /\ ~StartsUtf8 /\ ~partial_is_utf8
OffTheArray == InKeys /\ cur_key > Len(key) /\ GivesUp
Trying == InKeys /\ cur_key <= Len(key)
Agrees == Kbd(last_match) = Byte(StringOf(cur_key), last_match)
CharMatches ==
  /\ Trying /\ Agrees /\ last_match + 1 < Len(StringOf(cur_key))
  /\ last_match' = last_match + 1
  /\ UNCHANGED <<setupvars, tty, kbd_buffer, cur_key, partial_match, partial_is_utf8, doing, got>>
KeyMatches ==
  /\ Trying /\ Agrees /\ last_match + 1 = Len(StringOf(cur_key))
  /\ Gives(-key[cur_key].code - 1, last_match + 1)

(* The order of the table tells when no other key can match.               *)
BadTooLate == Kbd(last_match) >= 0
TooLate == Kbd(last_match) > Byte(StringOf(cur_key), last_match)
NoKey == Trying /\ ~Agrees /\ TooLate /\ GivesUp
NextKey ==
  /\ Trying /\ ~Agrees /\ ~TooLate
  /\ last_match' = 0 /\ cur_key' = cur_key + 1
  /\ UNCHANGED <<setupvars, tty, kbd_buffer, partial_match, partial_is_utf8, doing, got>>

(* All of the buffer matches: the rest of a key may come.                  *)
Waits ==
  /\ doing = "match" /\ last_match >= Len(kbd_buffer)
  /\ doing' = "read" /\ partial_match' = TRUE
  /\ UNCHANGED <<setupvars, tty, kbd_buffer, last_match, cur_key, partial_is_utf8, got>>
Turn == Utf8Starts \/ Utf8Goes \/ Utf8Ends \/ Utf8Error \/ OffTheArray \/ CharMatches \/ KeyMatches \/ NoKey
        \/ NextKey \/ Waits
-----------------------------------------------------------------------------
(* The terminal: a byte is read, or dropped if there is no room; nothing   *)
(* comes in the escape time; or SIGWINCH ends the wait.                    *)
ReadByte ==
  /\ doing = "read" /\ tty # <<>>
  /\ tty' = Tail(tty)
  /\ kbd_buffer' = IF Len(kbd_buffer) < KBD_BUF_SIZE THEN Append(kbd_buffer, Head(tty)) ELSE kbd_buffer
  /\ partial_match' = FALSE /\ doing' = "match"
  /\ UNCHANGED <<setupvars, last_match, cur_key, partial_is_utf8, got>>

Nothing_ ==
  /\ doing = "read" /\ tty = <<>> /\ partial_match' = FALSE
  /\ CASE kbd_buffer = <<>> ->
            /\ got' = INVALID_CHAR /\ doing' = "out"
            /\ UNCHANGED <<kbd_buffer, last_match, partial_is_utf8>>
       [] kbd_buffer # <<>> /\ partial_is_utf8 ->
            /\ kbd_buffer' = <<>> /\ last_match' = 0 /\ partial_is_utf8' = FALSE
            /\ UNCHANGED <<doing, got>>
       [] OTHER ->
            /\ got' = Kbd(0) /\ kbd_buffer' = After(1) /\ doing' = "out"
            /\ UNCHANGED <<last_match, partial_is_utf8>>
  /\ UNCHANGED <<setupvars, tty, cur_key>>
TimeOut == partial_match /\ escape_time > 0 /\ Nothing_
Interrupted == Nothing_

Sends(b) == tty' = Append(tty, b) /\ UNCHANGED <<setupvars, kbd_buffer, matchvars, doing, got>>
KeysNext == get_key_code \/ Turn \/ ReadByte \/ TimeOut \/ Interrupted \/ \E b \in 0 .. 255 : Sends(b)
KeysSpec == KeysInit /\ [][KeysNext]_keyvars
-----------------------------------------------------------------------------
(* The order of the table, which makes one way through it enough.          *)
TableSorted == \A k, l \in DOMAIN key : k < l => greater(StringOf(k), StringOf(l))

(* No key of the table begins another one.                                 *)
PrefixFree == \A k, l \in DOMAIN key : begins(StringOf(k), StringOf(l)) => k = l

(* Bytes are given one by one, as the user typed them, only where no key   *)
(* is: none begins what was typed, and what was typed begins none.         *)
NoKeyThere ==
  \A k \in DOMAIN key : ~begins(StringOf(k), kbd_buffer) /\ ~begins(kbd_buffer, StringOf(k))
GaveUp == doing = "match" /\ doing' = "out" /\ got' >= 0 /\ ~partial_is_utf8
GivesUpLast == [][GaveUp /\ PrefixFree => NoKeyThere]_keyvars
=============================================================================
