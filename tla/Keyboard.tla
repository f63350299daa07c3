------------------------------ MODULE Keyboard ------------------------------
(***************************************************************************)
(* A line of input typed on a terminal: the keystrokes of the user come as *)
(* bytes, one by one, get_key_code() gives what they mean, and request()   *)
(* does it. Between two bytes of a keystroke the line may be slow, and     *)
(* SIGWINCH may come; if the size did change, the line is drawn again, as  *)
(* Resize does in Interaction.                                             *)
(***************************************************************************)
EXTENDS Interaction, Keys

CONSTANT key_binding  \* what the keys that are bound do in an input line

VARIABLES
  coming,  \* the bytes of the last keystroke that are not sent
  meant,   \* the input line as the keystrokes were meant, and if the first is to come
  waits,   \* the user waits for what the last keystroke does
  late     \* a pause or a signal fell into a keystroke
handvars == <<coming, meant, waits, late>>

Keyed == scenario.keys.strokes # {}
LineMeant(u, first) == [t |-> u, first |-> first]
NoneMeant == LineMeant(NoText, FALSE)
HandInit ==
  /\ coming = <<>> /\ meant = NoneMeant /\ waits = FALSE /\ late = FALSE
  /\ key = Table(scenario.keys.caps, scenario.keys.tried, scenario.keys.seqs)
  /\ io_utf8 = scenario.keys.io_utf8 /\ escape_time = scenario.keys.escape_time

(* The class of a key, and what an input line does for one that does not   *)
(* end it.                                                                 *)
IsCommand(c) == c < 32 \/ c \in 127 .. 159
Bound(c) == LET code == IF c < 0 THEN -(c + 1) ELSE c IN IF code \in DOMAIN key_binding THEN key_binding[code] ELSE ""
Command_(u, what) ==
  CASE what = "MoveLeft" -> input_move_left(u) [] what = "MoveRight" -> input_move_right(u, TRUE)
    [] what = "Backspace" -> backspace(u) [] what = "DeleteChar" -> delete_char(u) [] OTHER -> u
Pressed(u, first, c) ==
  IF IsCommand(c) THEN Command_(u, Bound(c)) ELSE type(u, c, first, line.prompt.alpha, line.prompt.prefer_utf8)
RETURN == 13
Ends_(c) == c = RETURN \/ Bound(c) = "Escape"
Intended(c) ==
  IF c = INVALID_CHAR THEN meant
  ELSE IF Ends_(c) THEN NoneMeant ELSE LineMeant(Pressed(meant.t, meant.first, c), FALSE)
-----------------------------------------------------------------------------
(* What request() does with the key, and then it asks for another one.     *)
Asks == Keyed /\ get_key_code
KeyNothing ==
  /\ Reading /\ got = INVALID_CHAR /\ Asks
  /\ UNCHANGED <<vars, handvars>>
KeyPressed ==
  /\ Reading /\ got # INVALID_CHAR /\ ~Ends_(got) /\ Asks
  /\ Line(Pressed(t, line.first, got))
  /\ UNCHANGED <<handvars, scenario, left>>
KeyReturn ==
  /\ Reading /\ got = RETURN /\ Asks
  /\ Selected_(CString(t.buf))
  /\ UNCHANGED <<docvars, statics, cwd, size, file, reqvars, handvars, scenario, left>>
KeyEscape ==
  /\ Reading /\ got # INVALID_CHAR /\ Bound(got) = "Escape" /\ Asks
  /\ line' = NoLine /\ t' = NoText /\ answer' = NoAnswer
  /\ UNCHANGED <<docvars, statics, cwd, size, histvars, reqvars, handvars, scenario, left>>
Handled == KeyNothing \/ KeyPressed \/ KeyReturn \/ KeyEscape

(* The user types ahead, but after Escape and Return.                      *)
Settled == coming = <<>> /\ tty = <<>> /\ kbd_buffer = <<>> /\ doing = "read"
Press ==
  /\ Reading /\ coming = <<>> /\ (waits => Settled) /\ Command("keys")
  /\ \E k \in scenario.keys.strokes : coming' = k.bytes /\ meant' = Intended(k.means) /\ waits' = Ends_(k.means)
  /\ UNCHANGED <<docvars, statics, cwd, size, histvars, linevars, reqvars, answer, keyvars, late>>
Send ==
  /\ coming # <<>> /\ Sends(Head(coming))
  /\ coming' = Tail(coming)
  /\ UNCHANGED <<vars, meant, waits, late>>

Within == coming # <<>> /\ kbd_buffer # <<>>
Pause ==
  /\ TimeOut \/ Interrupted
  /\ late' = (late \/ Within)
  /\ UNCHANGED <<vars, coming, meant, waits>>
Reads == (Turn \/ ReadByte) /\ UNCHANGED <<vars, handvars>>

(* A prompt that is opened is the beginning of what is meant.              *)
Opened ==
  /\ Keyed /\ Prompt
  /\ meant' = LineMeant(t', TRUE)
  /\ UNCHANGED <<keyvars, coming, waits, late>>
Unkeyed == ~Keyed /\ Next /\ UNCHANGED <<keyvars, handvars>>

KeyboardInit == Init /\ KeysInit /\ HandInit
KeyboardNext == Unkeyed \/ Opened \/ Handled \/ Press \/ Send \/ Pause \/ Reads
KeyboardSpec == KeyboardInit /\ [][KeyboardNext]_<<vars, keyvars, handvars>>
-----------------------------------------------------------------------------
(* The table of keys stays in its order, whatever was put into it; and     *)
(* once everything the user typed has been given, the input line is the    *)
(* one that was meant, key by key: whatever the bytes were read with, a    *)
(* byte that is no character included, unless a pause or a change of size  *)
(* fell between two bytes of one key.                                      *)
WhatIsMeant ==
  Keyed /\ Settled =>
    /\ TableSorted
    /\ ~late => meant = (IF line = NoLine THEN NoneMeant ELSE LineMeant(t, line.first))
=============================================================================
