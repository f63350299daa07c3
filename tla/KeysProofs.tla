----------------------------- MODULE KeysProofs -----------------------------
(***************************************************************************)
(* Proofs about Keys, for a table of any size and any sequence of bytes: a *)
(* byte is given up only where no key can be.                              *)
(***************************************************************************)
EXTENDS Keys, SequenceTheorems, TLAPS

Bytes == Seq(0 .. 255)
TableOK == /\ key \in Seq([string : Bytes, code : Nat])
           /\ \A k \in DOMAIN key : Len(StringOf(k)) > 0
           /\ TableSorted

TypeOK ==
  /\ tty \in Bytes /\ kbd_buffer \in Bytes
  /\ last_match \in Nat /\ cur_key \in 1 .. Len(key) + 1
  /\ partial_match \in BOOLEAN /\ partial_is_utf8 \in BOOLEAN /\ io_utf8 \in BOOLEAN
  /\ doing \in {"match", "read", "out"}

(* The string s and the buffer part at the byte d, that of s being greater.*)
PartAt(s, buffer, d) == /\ d \in DOMAIN s /\ d \in DOMAIN buffer
                        /\ \A i \in 1 .. d - 1 : s[i] = buffer[i]
                        /\ s[d] > buffer[d]

(* While get_key_code() tries keys, those before cur_key part from the     *)
(* buffer, and cur_key agrees with its first last_match bytes. A character *)
(* in UTF-8 is tried before any key.                                       *)
KeysBefore == \A k \in 1 .. cur_key - 1 : \E d \in Nat : PartAt(StringOf(k), kbd_buffer, d)
KeyAgrees ==
  cur_key <= Len(key) =>
    /\ last_match < Len(StringOf(cur_key))
    /\ \A i \in 1 .. last_match : StringOf(cur_key)[i] = kbd_buffer[i]
Trial == KeysBefore /\ (~partial_is_utf8 => KeyAgrees)
Utf8First ==
  /\ partial_is_utf8 => cur_key = 1
  /\ ~partial_is_utf8 /\ (cur_key > 1 \/ last_match > 0) => kbd_buffer # <<>> /\ ~(io_utf8 /\ kbd_buffer[1] >= 128)
Trying_ == last_match <= Len(kbd_buffer) /\ Trial /\ Utf8First
KInv == TableOK /\ TypeOK /\ (doing # "out" => Trying_)
-----------------------------------------------------------------------------
(* An element of a sequence, and what is in the table.                     *)
LEMMA ElementOf ==
  ASSUME NEW S, NEW s \in Seq(S)
  PROVE  DOMAIN s = 1 .. Len(s) /\ Len(s) \in Nat /\ \A i \in 1 .. Len(s) : s[i] \in S
OBVIOUS

(* What is in the table: strings of bytes that are not empty.              *)
LEMMA KeyTypes ==
  ASSUME TableOK, NEW k \in DOMAIN key
  PROVE  StringOf(k) \in Bytes /\ Len(StringOf(k)) \in Nat \ {0} /\ key[k].code \in Nat /\ k \in 1 .. Len(key)
<1>1. key \in Seq([string : Bytes, code : Nat])
  BY DEF TableOK
<1>2. key[k] \in [string : Bytes, code : Nat] /\ k \in 1 .. Len(key)
  <2> DEFINE R == [string : Bytes, code : Nat]
  <2>1. key \in Seq(R)
    BY <1>1
  <2> HIDE DEF R
  <2>2. DOMAIN key = 1 .. Len(key) /\ \A i \in 1 .. Len(key) : key[i] \in R
    BY <2>1, ElementOf
  <2> QED
    BY <2>2 DEF R
<1>3. StringOf(k) \in Bytes
  BY <1>2 DEF StringOf
<1>4. Len(StringOf(k)) \in Nat
  BY <1>3 DEF Bytes
<1> QED
  BY <1>2, <1>3, <1>4 DEF TableOK

(* The byte at a position of a piece of text.                              *)
LEMMA ByteIs ==
  ASSUME NEW s \in Bytes, NEW p \in Nat, p < Len(s)
  PROVE  Byte(s, p) = s[p + 1] /\ Byte(s, p) \in 0 .. 255 /\ p + 1 \in DOMAIN s
<1>1. s \in Seq(0 .. 255)
  BY DEF Bytes
<1>2. DOMAIN s = 1 .. Len(s) /\ Len(s) \in Nat /\ \A i \in 1 .. Len(s) : s[i] \in 0 .. 255
  BY <1>1, ElementOf
<1>3. p + 1 \in 1 .. Len(s)
  BY <1>2
<1> QED
  BY <1>2, <1>3 DEF Byte

(* Two pieces of text that differ where both have a byte do not begin each *)
(* other.                                                                  *)
LEMMA DifferNotBegin ==
  ASSUME NEW s, NEW r, NEW d, d \in DOMAIN s, d \in DOMAIN r, s[d] # r[d]
  PROVE  ~begins(s, r) /\ ~begins(r, s)
BY DEF begins

(* A key that parts from the buffer parts from a longer one.               *)
LEMMA PartLonger ==
  ASSUME NEW s, NEW buffer \in Bytes, NEW b \in 0 .. 255, NEW d \in Nat, PartAt(s, buffer, d)
  PROVE  PartAt(s, Append(buffer, b), d)
<1>1. \A i \in 1 .. Len(buffer) : Append(buffer, b)[i] = buffer[i]
  BY DEF Bytes
<1>2. DOMAIN buffer = 1 .. Len(buffer) /\ DOMAIN Append(buffer, b) = 1 .. Len(buffer) + 1 /\ Len(buffer) \in Nat
  BY DEF Bytes
<1> QED
  BY <1>1, <1>2 DEF PartAt
-----------------------------------------------------------------------------
(* The steps. After one that returns there is nothing more to know than    *)
(* that what is left are bytes.                                            *)
LEMMA SameTable ==
  ASSUME TableOK, UNCHANGED setupvars
  PROVE  TableOK'
BY DEF TableOK, TableSorted, setupvars, StringOf

(* What is left in the buffer is still a sequence of bytes.                *)
LEMMA AfterBytes ==
  ASSUME kbd_buffer \in Bytes, NEW n \in Nat
  PROVE  After(n) \in Bytes
<1>1. kbd_buffer \in Seq(0 .. 255)
  BY DEF Bytes
<1>2. Len(kbd_buffer) \in Nat /\ \A i \in 1 .. Len(kbd_buffer) : kbd_buffer[i] \in 0 .. 255
  BY <1>1, ElementOf
<1>3. \A i \in n + 1 .. Len(kbd_buffer) : kbd_buffer[i] \in 0 .. 255
  BY <1>2
<1>4. SubSeq(kbd_buffer, n + 1, Len(kbd_buffer)) \in Seq(0 .. 255)
  BY <1>2, <1>3, n + 1 \in Int, Len(kbd_buffer) \in Int, SubSeqProperties
<1> QED
  BY <1>4 DEF After, Bytes

(* KInv holds after get_key_code() gives what it found.                    *)
LEMMA GivesKeeps ==
  ASSUME KInv, NEW c, NEW n \in Nat, Gives(c, n)
  PROVE  KInv'
<1>1. TableOK'
  BY SameTable DEF KInv, Gives
<1>2. After(n) \in Bytes
  BY AfterBytes DEF KInv, TypeOK
<1>3. TypeOK'
  BY <1>2 DEF KInv, TypeOK, Gives, matchvars, setupvars
<1> QED
  BY <1>1, <1>3 DEF KInv, Gives

(* It holds when get_key_code() begins.                                    *)
LEMMA CallKeeps ==
  ASSUME KInv, get_key_code
  PROVE  KInv'
<1>1. TableOK'
  BY SameTable DEF KInv, get_key_code
<1>2. Len(kbd_buffer) \in Nat
  BY DEF KInv, TypeOK, Bytes
<1>3. Len(key) \in Nat
  BY DEF KInv, TableOK
<1>4. TypeOK'
  <2>1. doing' \in {"match", "read", "out"}
    BY DEF get_key_code, Look
  <2>2. cur_key' \in 1 .. Len(key') + 1
    BY <1>3 DEF get_key_code, setupvars
  <2> QED
    BY <2>1, <2>2 DEF KInv, TypeOK, get_key_code, setupvars
<1>5. KeyAgrees'
  BY <1>1, KeyTypes, <1>3 DEF KeyAgrees, get_key_code, setupvars, StringOf, KInv, TableOK
<1>6. Trying_'
  BY <1>2, <1>5 DEF Trying_, Trial, KeysBefore, Utf8First, get_key_code
<1> QED
  BY <1>1, <1>4, <1>6 DEF KInv

(* The turns over a character in UTF-8.                                    *)
LEMMA Utf8Keeps ==
  ASSUME KInv, Utf8Starts \/ Utf8Goes \/ Utf8Error
  PROVE  KInv'
<1>1. TableOK'
  BY SameTable DEF KInv, Utf8Starts, Utf8Goes, Utf8Error
<1>2. Len(kbd_buffer) \in Nat /\ Len(key) \in Nat
  BY DEF KInv, TypeOK, Bytes, TableOK
<1>3. KInv /\ Trying_ /\ last_match < Len(kbd_buffer) /\ doing = "match" /\ last_match \in Nat
  BY DEF KInv, TypeOK, Utf8Starts, Utf8Goes, Utf8Error, InUtf8, Matching
<1>4. CASE Utf8Starts
  <2>1. Kbd(0) = kbd_buffer[1]
    BY <1>2, <1>3, ByteIs DEF Kbd, KInv, TypeOK
  <2>2. cur_key = 1
    BY <1>4, <1>3, <2>1 DEF Trying_, Utf8First, Utf8Starts, StartsUtf8, KInv, TypeOK
  <2>3. TypeOK'
    BY <1>4 DEF KInv, TypeOK, Utf8Starts, setupvars
  <2>4. Trying_'
    BY <1>4, <2>2, <1>2, <1>3 DEF Trying_, Trial, KeysBefore, Utf8First, Utf8Starts
  <2> QED
    BY <1>1, <2>3, <2>4 DEF KInv
<1>5. CASE Utf8Goes
  <2>1. TypeOK'
    BY <1>5 DEF KInv, TypeOK, Utf8Goes, setupvars
  <2>2. cur_key = 1
    BY <1>5, <1>3 DEF Utf8Goes, InUtf8, Trying_, Utf8First
  <2>3. Trying_'
    BY <1>5, <2>2, <1>2, <1>3 DEF Trying_, Trial, KeysBefore, Utf8First, Utf8Goes, InUtf8
  <2> QED
    BY <1>1, <2>1, <2>3 DEF KInv
<1>6. CASE Utf8Error
  <2>1. After(1) \in Bytes
    BY AfterBytes DEF KInv, TypeOK
  <2>2. TypeOK'
    BY <1>6, <2>1 DEF KInv, TypeOK, Utf8Error, setupvars
  <2>3. cur_key = 1
    BY <1>6, <1>3 DEF Utf8Error, InUtf8, Trying_, Utf8First
  <2>4. KeyAgrees'
    BY <1>1, KeyTypes, <1>2, <1>6, <2>3 DEF KeyAgrees, Utf8Error, setupvars, StringOf, KInv, TableOK
  <2>5. Len(kbd_buffer') \in Nat
    BY <2>2 DEF TypeOK, Bytes
  <2>6. Trying_'
    BY <1>6, <2>3, <2>4, <2>5 DEF Trying_, Trial, KeysBefore, Utf8First, Utf8Error
  <2> QED
    BY <1>1, <2>2, <2>6 DEF KInv
<1> QED
  BY <1>4, <1>5, <1>6

(* The turns over the keys. One more byte agrees; or the buffer parts from *)
(* the key at this byte, and the next one is tried.                        *)
LEMMA KeyTurn ==
  ASSUME KInv, Trying
  PROVE  /\ cur_key \in DOMAIN key /\ last_match \in Nat /\ last_match + 1 \in DOMAIN kbd_buffer
         /\ Len(StringOf(cur_key)) \in Nat /\ DOMAIN StringOf(cur_key) = 1 .. Len(StringOf(cur_key))
         /\ last_match < Len(StringOf(cur_key))
         /\ \A i \in 1 .. last_match : StringOf(cur_key)[i] = kbd_buffer[i]
         /\ Kbd(last_match) = kbd_buffer[last_match + 1]
         /\ Byte(StringOf(cur_key), last_match) = StringOf(cur_key)[last_match + 1]
         /\ kbd_buffer[last_match + 1] \in Nat /\ StringOf(cur_key)[last_match + 1] \in Nat
         /\ Trying_ /\ ~partial_is_utf8 /\ last_match < Len(kbd_buffer)
         /\ kbd_buffer # <<>> /\ ~(io_utf8 /\ kbd_buffer[1] >= 128)
<1>1. TableOK /\ TypeOK /\ Trying_ /\ ~partial_is_utf8 /\ last_match < Len(kbd_buffer) /\ cur_key <= Len(key)
  BY DEF KInv, Trying, InKeys, Matching
<1>2. cur_key \in DOMAIN key
  <2>1. key \in Seq([string : Bytes, code : Nat])
    BY <1>1 DEF TableOK
  <2>2. DOMAIN key = 1 .. Len(key) /\ Len(key) \in Nat
    BY <2>1
  <2> QED
    BY <1>1, <2>2 DEF TypeOK
<1>3. StringOf(cur_key) \in Bytes
  BY <1>1, <1>2, KeyTypes
<1>4. Len(StringOf(cur_key)) \in Nat /\ DOMAIN StringOf(cur_key) = 1 .. Len(StringOf(cur_key))
  BY <1>3, ElementOf DEF Bytes
<1>5. last_match < Len(StringOf(cur_key)) /\ \A i \in 1 .. last_match : StringOf(cur_key)[i] = kbd_buffer[i]
  BY <1>1 DEF Trying_, Trial, KeyAgrees
<1>6. last_match \in Nat /\ kbd_buffer \in Bytes
  BY <1>1 DEF TypeOK
<1>7. Kbd(last_match) = kbd_buffer[last_match + 1] /\ Kbd(last_match) \in 0 .. 255 /\ last_match + 1 \in DOMAIN kbd_buffer
  BY <1>1, <1>6, ByteIs DEF Kbd
<1>8. /\ Byte(StringOf(cur_key), last_match) = StringOf(cur_key)[last_match + 1]
      /\ Byte(StringOf(cur_key), last_match) \in 0 .. 255
  BY <1>3, <1>5, <1>6, ByteIs
<1>9. kbd_buffer # <<>> /\ ~(io_utf8 /\ kbd_buffer[1] >= 128)
  <2>1. Len(kbd_buffer) \in Nat /\ 0 < Len(kbd_buffer)
    BY <1>1, <1>6 DEF Bytes
  <2>2. Kbd(0) = kbd_buffer[1]
    BY <2>1, <1>6, ByteIs DEF Kbd
  <2>3. last_match = 0 => ~(io_utf8 /\ kbd_buffer[1] >= 128)
    BY <2>2 DEF Trying, InKeys, StartsUtf8
  <2>4. last_match > 0 => ~(io_utf8 /\ kbd_buffer[1] >= 128)
    BY <1>1 DEF Trying_, Utf8First
  <2> QED
    BY <2>1, <2>3, <2>4, <1>6
<1>10. kbd_buffer[last_match + 1] \in Nat /\ StringOf(cur_key)[last_match + 1] \in Nat
  BY <1>7, <1>8
<1> QED
  BY <1>1, <1>2, <1>4, <1>5, <1>6, <1>7, <1>8, <1>9, <1>10

(* It holds when a byte of a key matches, and when a key is left.          *)
LEMMA KeysKeep ==
  ASSUME KInv, CharMatches \/ NextKey
  PROVE  KInv'
<1>1. TableOK'
  BY SameTable DEF KInv, CharMatches, NextKey
<1>2. Trying
  BY DEF CharMatches, NextKey
<1>3. Len(key) \in Nat /\ TypeOK /\ cur_key \in 1 .. Len(key)
  BY <1>2 DEF KInv, TableOK, TypeOK, Trying
<1>4. CASE CharMatches
  <2>1. TypeOK'
    BY <1>4, <1>3 DEF TypeOK, CharMatches, setupvars
  <2>2. KeyAgrees'
    BY <1>4, <1>2, KeyTurn DEF KeyAgrees, CharMatches, Agrees, StringOf, setupvars
  <2>3. KeysBefore'
    BY <1>4, <1>2, KeyTurn DEF Trying_, Trial, KeysBefore, CharMatches, StringOf, setupvars
  <2>4. Utf8First'
    BY <1>4, <1>2, KeyTurn DEF Utf8First, CharMatches, setupvars
  <2>5. last_match' <= Len(kbd_buffer')
    BY <1>4, <1>2, <1>3, KeyTurn DEF CharMatches, TypeOK, Bytes
  <2> QED
    BY <1>1, <2>1, <2>2, <2>3, <2>4, <2>5 DEF KInv, Trying_, Trial
<1>5. CASE NextKey
  <2>1. TypeOK'
    BY <1>5, <1>3 DEF TypeOK, NextKey, setupvars
  <2>2. KeyAgrees'
    BY <1>5, <1>1, <2>1, KeyTypes DEF KeyAgrees, NextKey, TableOK, StringOf, setupvars, TypeOK
  <2>3. PartAt(StringOf(cur_key), kbd_buffer, last_match + 1)
    BY <1>5, <1>2, KeyTurn DEF PartAt, NextKey, Agrees, TooLate
  <2>4. KeysBefore
    BY <1>2, KeyTurn DEF Trying_, Trial
  <2>5. last_match + 1 \in Nat
    BY <1>3 DEF TypeOK
  <2>6. \A k \in 1 .. cur_key : \E d \in Nat : PartAt(StringOf(k), kbd_buffer, d)
    BY <2>3, <2>4, <2>5, <1>3 DEF KeysBefore
  <2>7. KeysBefore'
    BY <2>6, <1>5, <1>3 DEF KeysBefore, NextKey, StringOf, setupvars, PartAt
  <2>8. Utf8First'
    BY <1>5, <1>2, KeyTurn DEF Utf8First, NextKey, setupvars
  <2>9. last_match' <= Len(kbd_buffer')
    BY <1>5, <1>3 DEF NextKey, TypeOK, Bytes
  <2> QED
    BY <1>1, <2>1, <2>2, <2>7, <2>8, <2>9 DEF KInv, Trying_, Trial
<1> QED
  BY <1>4, <1>5

(* Waiting for the terminal, and what comes of it.                         *)
LEMMA ReadKeeps ==
  ASSUME KInv, ReadByte
  PROVE  KInv'
<1>1. TableOK'
  BY SameTable DEF KInv, ReadByte
<1>2. Head(tty) \in 0 .. 255 /\ Tail(tty) \in Bytes
  <2>1. tty \in Seq(0 .. 255) /\ tty # <<>>
    BY DEF KInv, TypeOK, Bytes, ReadByte
  <2>2. Head(tty) \in 0 .. 255 /\ Tail(tty) \in Seq(0 .. 255)
    BY <2>1, HeadTailProperties
  <2> QED
    BY <2>2 DEF Bytes
<1>3. kbd_buffer \in Bytes /\ kbd_buffer \in Seq(0 .. 255)
  BY DEF KInv, TypeOK, Bytes
<1> DEFINE longer == Append(kbd_buffer, Head(tty))
<1>4. longer \in Seq(0 .. 255) /\ Len(longer) = Len(kbd_buffer) + 1 /\ Len(kbd_buffer) \in Nat
  BY <1>2, <1>3
<1>5. kbd_buffer' = longer \/ kbd_buffer' = kbd_buffer
  BY DEF ReadByte
<1>6. TypeOK'
  <2>1. kbd_buffer' \in Bytes
    BY <1>3, <1>4, <1>5 DEF Bytes
  <2> QED
    BY <2>1, <1>2 DEF KInv, TypeOK, ReadByte, setupvars
<1>7. Trying_ /\ last_match \in Nat /\ cur_key \in Nat
  BY DEF KInv, ReadByte, TypeOK
<1>8. \A k : \A d \in Nat : PartAt(StringOf(k), kbd_buffer, d) => PartAt(StringOf(k), longer, d)
  BY <1>2, <1>3, PartLonger
<1>9. KeysBefore'
  BY <1>5, <1>7, <1>8 DEF Trying_, Trial, KeysBefore, ReadByte, setupvars, StringOf
<1>10. \A i \in 1 .. Len(kbd_buffer) : kbd_buffer'[i] = kbd_buffer[i]
  BY <1>2, <1>3, <1>5, AppendProperties
<1>11. last_match <= Len(kbd_buffer) /\ last_match' = last_match
  BY <1>7 DEF Trying_, ReadByte
<1>12. ~partial_is_utf8' => KeyAgrees'
  BY <1>4, <1>7, <1>10, <1>11 DEF Trying_, Trial, KeyAgrees, ReadByte, setupvars, StringOf
<1>13. last_match' <= Len(kbd_buffer')
  BY <1>4, <1>5, <1>7, <1>11
<1>14. kbd_buffer # <<>> => kbd_buffer' # <<>> /\ kbd_buffer'[1] = kbd_buffer[1]
  BY <1>3, <1>4, <1>5, <1>10
<1>15. Utf8First'
  BY <1>7, <1>14 DEF Trying_, Utf8First, ReadByte, setupvars
<1> QED
  BY <1>1, <1>6, <1>9, <1>12, <1>13, <1>15 DEF KInv, Trying_, Trial

(* It holds while the function waits, and when the terminal sends.         *)
LEMMA WaitsKeeps ==
  ASSUME KInv, Waits \/ \E b \in 0 .. 255 : Sends(b)
  PROVE  KInv'
<1>1. TableOK'
  BY SameTable DEF KInv, Waits, Sends
<1>2. CASE Waits
  <2>1. TypeOK'
    BY <1>2 DEF KInv, TypeOK, Waits, setupvars
  <2>2. Trying_'
    BY <1>2 DEF KInv, Trying_, Trial, KeysBefore, KeyAgrees, Utf8First, Waits, setupvars, StringOf
  <2> QED
    BY <1>1, <2>1, <2>2 DEF KInv
<1>3. ASSUME NEW b \in 0 .. 255, Sends(b)
      PROVE  KInv'
  <2>1. tty \in Seq(0 .. 255)
    BY DEF KInv, TypeOK, Bytes
  <2>2. Append(tty, b) \in Bytes
    BY <2>1 DEF Bytes
  <2>3. TypeOK'
    BY <1>3, <2>2 DEF KInv, TypeOK, Sends, setupvars, matchvars
  <2>4. doing' # "out" => Trying_'
    BY <1>3 DEF KInv, Trying_, Trial, KeysBefore, KeyAgrees, Utf8First, Sends, setupvars, matchvars, StringOf
  <2> QED
    BY <1>1, <2>3, <2>4 DEF KInv
<1> QED
  BY <1>2, <1>3

(* It holds when nothing came in the time that was given.                  *)
LEMMA NothingKeeps ==
  ASSUME KInv, Nothing_
  PROVE  KInv'
<1>1. TableOK'
  BY SameTable DEF KInv, Nothing_
<1>2. Len(key) \in Nat /\ TypeOK /\ Trying_
  BY DEF KInv, TableOK, Nothing_
<1>3. After(1) \in Bytes /\ <<>> \in Bytes /\ Len(<<>>) = 0
  BY AfterBytes DEF KInv, TypeOK, Bytes
<1>4. CASE kbd_buffer # <<>> /\ partial_is_utf8
  <2>1. /\ kbd_buffer' = <<>> /\ last_match' = 0 /\ partial_is_utf8' = FALSE /\ doing' = doing
        /\ UNCHANGED <<setupvars, tty, cur_key>> /\ partial_match' = FALSE
    BY <1>4 DEF Nothing_
  <2>2. TypeOK'
    BY <2>1, <1>2, <1>3 DEF TypeOK, setupvars
  <2>3. cur_key = 1
    BY <1>4, <1>2 DEF Trying_, Utf8First
  <2>4. KeyAgrees'
    BY <1>1, KeyTypes, <1>2, <2>1, <2>3 DEF KeyAgrees, setupvars, StringOf, TableOK
  <2>5. Trying_'
    BY <2>1, <2>3, <2>4, <1>3 DEF Trying_, Trial, KeysBefore, Utf8First
  <2> QED
    BY <1>1, <2>2, <2>5 DEF KInv
<1>5. CASE ~(kbd_buffer # <<>> /\ partial_is_utf8)
  <2>1. /\ doing' = "out" /\ kbd_buffer' \in {kbd_buffer, After(1)} /\ UNCHANGED <<setupvars, tty, cur_key>>
        /\ last_match' = last_match /\ partial_is_utf8' = partial_is_utf8 /\ partial_match' = FALSE
    BY <1>5 DEF Nothing_
  <2>2. TypeOK'
    BY <2>1, <1>2, <1>3 DEF TypeOK, setupvars
  <2> QED
    BY <1>1, <2>1, <2>2 DEF KInv
<1> QED
  BY <1>4, <1>5
-----------------------------------------------------------------------------
(* Every step keeps the invariant, which holds when the program starts.    *)
LEMMA InvKept ==
  ASSUME KInv, [KeysNext]_keyvars
  PROVE  KInv'
<1>1. last_match \in Nat
  BY DEF KInv, TypeOK
<1>2. CASE get_key_code
  BY <1>2, CallKeeps
<1>3. CASE Turn
  <2>1. CASE Utf8Starts \/ Utf8Goes \/ Utf8Error
    BY <2>1, Utf8Keeps
  <2>2. CASE CharMatches \/ NextKey
    BY <2>2, KeysKeep
  <2>3. CASE Waits
    BY <2>3, WaitsKeeps
  <2>4. CASE Utf8Ends
    BY <2>4, <1>1, GivesKeeps DEF Utf8Ends
  <2>5. CASE KeyMatches
    BY <2>5, <1>1, GivesKeeps DEF KeyMatches
  <2>6. CASE OffTheArray \/ NoKey
    BY <2>6, GivesKeeps DEF OffTheArray, NoKey, GivesUp
  <2> QED
    BY <1>3, <2>1, <2>2, <2>3, <2>4, <2>5, <2>6 DEF Turn
<1>4. CASE ReadByte
  BY <1>4, ReadKeeps
<1>5. CASE TimeOut \/ Interrupted
  BY <1>5, NothingKeeps DEF TimeOut, Interrupted
<1>6. CASE \E b \in 0 .. 255 : Sends(b)
  BY <1>6, WaitsKeeps
<1>7. CASE UNCHANGED keyvars
  <2>1. TableOK'
    BY <1>7, SameTable DEF keyvars, KInv
  <2> QED
    BY <1>7, <2>1 DEF KInv, TypeOK, Trying_, Trial, KeysBefore, KeyAgrees, Utf8First, keyvars, setupvars,
                      matchvars, StringOf
<1> QED
  BY <1>2, <1>3, <1>4, <1>5, <1>6, <1>7 DEF KeysNext

(* It holds at first.                                                      *)
LEMMA InvInit ==
  ASSUME TableOK, io_utf8 \in BOOLEAN, KeysInit
  PROVE  KInv
<1>1. Len(key) \in Nat
  BY DEF TableOK
<1>2. tty \in Bytes /\ kbd_buffer \in Bytes
  BY DEF Bytes, KeysInit
<1>3. last_match \in Nat /\ cur_key \in 1 .. Len(key) + 1
  BY <1>1 DEF KeysInit
<1>4. partial_match \in BOOLEAN /\ partial_is_utf8 \in BOOLEAN /\ doing \in {"match", "read", "out"}
  BY DEF KeysInit
<1>5. TypeOK
  BY <1>2, <1>3, <1>4, Zenon DEF TypeOK
<1> QED
  BY <1>5 DEF KInv, KeysInit
-----------------------------------------------------------------------------
(* When a byte is given up, every key of the table differs from the buffer *)
(* somewhere. Those before cur_key have parted; cur_key differs where it   *)
(* was tried last, being smaller; and a later one is smaller than cur_key  *)
(* from the first byte on where the two differ.                            *)
LEMMA PartNotBegin ==
  ASSUME NEW s \in Bytes, NEW buffer \in Bytes, NEW d \in Nat, PartAt(s, buffer, d)
  PROVE  ~begins(s, buffer) /\ ~begins(buffer, s)
<1>1. s \in Seq(0 .. 255) /\ d \in DOMAIN s /\ d \in DOMAIN buffer /\ s[d] > buffer[d]
  BY DEF PartAt, Bytes
<1>2. buffer \in Seq(0 .. 255)
  BY DEF Bytes
<1>3. s[d] \in 0 .. 255 /\ buffer[d] \in 0 .. 255
  BY <1>1, <1>2, ElementOf
<1>4. \A x, y \in 0 .. 255 : x > y => x # y
  OBVIOUS
<1>5. s[d] # buffer[d]
  BY <1>1, <1>3, <1>4, Zenon
<1> QED
  BY <1>1, <1>5, DifferNotBegin

(* A later key: s is the one that was tried, smaller than the buffer at m  *)
(* and equal to it before; r comes after s.                                *)
LEMMA LaterDiffers ==
  ASSUME NEW s \in Bytes, NEW r \in Bytes, NEW buffer \in Bytes, NEW m \in Nat,
         m \in DOMAIN s, m \in DOMAIN buffer, \A i \in 1 .. m - 1 : s[i] = buffer[i], buffer[m] > s[m],
         greater(s, r), ~begins(r, s)
  PROVE  ~begins(r, buffer) /\ ~begins(buffer, r)
<1>1. PICK d \in DOMAIN s : GreaterAt(s, r, d)
  BY DEF greater
<1>2. /\ DOMAIN s = 1 .. Len(s) /\ Len(s) \in Nat /\ \A i \in 1 .. Len(s) : s[i] \in Nat
      /\ DOMAIN r = 1 .. Len(r) /\ Len(r) \in Nat /\ \A i \in 1 .. Len(r) : r[i] \in Nat
      /\ DOMAIN buffer = 1 .. Len(buffer) /\ Len(buffer) \in Nat /\ \A i \in 1 .. Len(buffer) : buffer[i] \in Nat
  <2>1. \A t \in Bytes : DOMAIN t = 1 .. Len(t) /\ Len(t) \in Nat /\ \A i \in 1 .. Len(t) : t[i] \in 0 .. 255
    BY ElementOf DEF Bytes
  <2>2. \A t \in Bytes : DOMAIN t = 1 .. Len(t) /\ Len(t) \in Nat /\ \A i \in 1 .. Len(t) : t[i] \in Nat
    <3>1. \A x \in 0 .. 255 : x \in Nat
      OBVIOUS
    <3> QED
      BY ONLY <2>1, <3>1, Zenon
  <2> HIDE DEF Bytes
  <2> QED
    BY ONLY <2>2, s \in Bytes, r \in Bytes, buffer \in Bytes
<1>3. \A i \in 1 .. d - 1 : i \in DOMAIN r /\ s[i] = r[i]
  BY <1>1 DEF GreaterAt
<1>4. d \in DOMAIN r
  <2>1. SUFFICES ASSUME d \notin DOMAIN r PROVE FALSE
    OBVIOUS
  <2>2. Len(r) = d - 1
    BY <1>2, <1>3, <2>1
  <2>3. begins(r, s)
    BY <1>2, <1>3, <2>2 DEF begins
  <2> QED
    BY <2>3
<1>5. s[d] > r[d]
  BY <1>1, <1>4 DEF GreaterAt
<1>6. CASE d < m
  <2>1. d \in DOMAIN buffer /\ s[d] = buffer[d]
    BY <1>2, <1>6
  <2>2. r[d] # buffer[d]
    BY <1>2, <1>4, <1>5, <2>1
  <2> QED
    BY <1>4, <2>1, <2>2, DifferNotBegin
<1>7. CASE d >= m
  <2>1. m \in DOMAIN r /\ s[m] >= r[m]
    BY <1>2, <1>3, <1>4, <1>5, <1>7
  <2>2. r[m] # buffer[m]
    BY <1>2, <2>1
  <2> QED
    BY <2>1, <2>2, DifferNotBegin
<1> QED
  BY <1>2, <1>6, <1>7

(* Where the function gives a byte up, no key is there.                    *)
LEMMA GivesUpRight ==
  ASSUME KInv, KeysNext, GaveUp, PrefixFree
  PROVE  NoKeyThere
<1>1. OffTheArray \/ NoKey
  <2>1. doing = "match" /\ doing' = "out" /\ got' >= 0 /\ ~partial_is_utf8
    BY DEF GaveUp
  <2>2. Turn
    BY <2>1 DEF KeysNext, get_key_code, ReadByte, TimeOut, Interrupted, Nothing_, Sends
  <2>3. ~KeyMatches
    <3>1. SUFFICES ASSUME KeyMatches PROVE FALSE
      OBVIOUS
    <3>2. cur_key \in DOMAIN key
      BY <3>1, KeyTurn DEF KeyMatches
    <3>3. key[cur_key].code \in Nat
      BY <3>2, KeyTypes DEF KInv
    <3>4. got' = -key[cur_key].code - 1
      BY <3>1 DEF KeyMatches, Gives
    <3> QED
      BY <2>1, <3>3, <3>4
  <2> QED
    BY <2>1, <2>2, <2>3 DEF Turn, Utf8Starts, Utf8Goes, Utf8Ends, Utf8Error, InUtf8, CharMatches, NextKey, Waits
<1>2. TableOK /\ TypeOK /\ Trying_ /\ kbd_buffer \in Bytes
  BY DEF KInv, GaveUp, TypeOK
<1>3. DOMAIN key = 1 .. Len(key) /\ Len(key) \in Nat /\ cur_key \in 1 .. Len(key) + 1
  BY <1>2 DEF TableOK, TypeOK
<1>4. SUFFICES ASSUME NEW k \in DOMAIN key
               PROVE  ~begins(StringOf(k), kbd_buffer) /\ ~begins(kbd_buffer, StringOf(k))
  BY DEF NoKeyThere
<1>5. StringOf(k) \in Bytes
  BY <1>2, KeyTypes
<1>6. CASE k < cur_key
  <2>1. PICK d \in Nat : PartAt(StringOf(k), kbd_buffer, d)
    BY <1>2, <1>3, <1>6 DEF Trying_, Trial, KeysBefore
  <2> QED
    BY <1>2, <1>5, <2>1, PartNotBegin
<1>7. CASE k >= cur_key
  <2> DEFINE m == last_match + 1
  <2>1. NoKey /\ Trying
    BY <1>1, <1>3, <1>7 DEF OffTheArray, NoKey
  <2>2. cur_key \in DOMAIN key /\ m \in Nat /\ m \in DOMAIN kbd_buffer /\ m \in DOMAIN StringOf(cur_key)
    BY <2>1, KeyTurn
  <2>3. \A i \in 1 .. m - 1 : StringOf(cur_key)[i] = kbd_buffer[i]
    BY <2>1, KeyTurn
  <2>4. kbd_buffer[m] > StringOf(cur_key)[m]
    BY <2>1, KeyTurn DEF NoKey, TooLate
  <2>5. CASE k = cur_key
    <3>1. StringOf(cur_key)[m] # kbd_buffer[m]
      BY <2>1, <2>4, KeyTurn
    <3> QED
      BY <2>2, <2>5, <3>1, DifferNotBegin
  <2>6. CASE k > cur_key
    <3>1. greater(StringOf(cur_key), StringOf(k))
      BY <1>2, <2>2, <2>6 DEF TableOK, TableSorted
    <3>2. ~begins(StringOf(k), StringOf(cur_key))
      BY <1>3, <2>2, <2>6 DEF PrefixFree
    <3>3. StringOf(cur_key) \in Bytes
      BY <1>2, <2>2, KeyTypes
    <3> HIDE DEF m
    <3> QED
      BY <1>2, <1>5, <2>2, <2>3, <2>4, <3>1, <3>2, <3>3, LaterDiffers
  <2> QED
    BY <1>3, <1>7, <2>5, <2>6
<1> QED
  BY <1>3, <1>6, <1>7
-----------------------------------------------------------------------------
(* The invariant of get_key_code(), from a table that is sorted.           *)
THEOREM KeysInv == TableOK /\ io_utf8 \in BOOLEAN /\ KeysSpec => []KInv
<1>1. TableOK /\ io_utf8 \in BOOLEAN /\ KeysInit => KInv
  BY InvInit
<1>2. KInv /\ [KeysNext]_keyvars => KInv'
  BY InvKept
<1> QED
  BY <1>1, <1>2, PTL DEF KeysSpec

(* get_key_code() gives a byte as it was typed only where no key is: none  *)
(* begins what was typed, and what was typed begins none. This is why the  *)
(* table may be left at the first key that is smaller than the buffer.     *)
THEOREM GivesUpInOrder == TableOK /\ io_utf8 \in BOOLEAN /\ KeysSpec => GivesUpLast
<1>1. KInv /\ [KeysNext]_keyvars => [GaveUp /\ PrefixFree => NoKeyThere]_keyvars
  BY GivesUpRight
<1> QED
  BY <1>1, KeysInv, PTL DEF KeysSpec, GivesUpLast
=============================================================================
