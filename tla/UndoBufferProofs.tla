-------------------------- MODULE UndoBufferProofs --------------------------
(***************************************************************************)
(* Proofs about UndoBuffer, for every set of bytes, every initial text,    *)
(* every set of commands and every bound.                                  *)
(*                                                                         *)
(* The second half is about the promises that hold as long as the user     *)
(* keeps away from some commands: the linking of steps into chains when    *)
(* undo is not switched off and on, and the meaning of the "modified" flag *)
(* when every change of the file or of the flag goes through Save, Undo    *)
(* and Redo.  README.md says which command breaks which promise.  The last *)
(* part shows that UndoBuffer implements UndoHistory.                      *)
(***************************************************************************)
EXTENDS UndoBuffer, FlatTextProofs

(* The part of the inductive invariant about the undo buffer: the text is  *)
(* the one recorded for the current step, and each stream holds the bytes  *)
(* that the steps on its side will need.                                   *)
Core ==
  /\ text \in Seq(Char)
  /\ steps \in Seq(Step) /\ cur_step \in 0 .. Len(steps)
  /\ streams \in Seq(Char) /\ cur_stream \in 0 .. Len(streams)
  /\ redo \in Seq(Char)
  /\ ver \in Seq(Seq(Char)) /\ vsp \in Seq(Nat) /\ vrp \in Seq(Nat)
  /\ Len(ver) = Len(steps) + 1 /\ Len(vsp) = Len(ver) /\ Len(vrp) = Len(ver)
  /\ UndoRedoExact
  /\ StreamsMatchSteps

(* The part about the flags of the document and of the commands.           *)
Flags ==
  /\ saved \in Seq(Char)
  /\ last_save_step \in -1 .. Len(steps)
  /\ link_undos \in Nat /\ busy \in 0 .. link_undos
  /\ atomic_undo \in BOOLEAN /\ do_undo \in BOOLEAN
  /\ read_only \in BOOLEAN /\ is_modified \in BOOLEAN
  /\ mode \in Modes

(* The inductive invariant.                                                *)
IInv == Core /\ Flags /\ LoopInBounds /\ OffIsEmpty
-----------------------------------------------------------------------------
(* What add_undo_step() does to an array: the first c entries are kept and *)
(* a new one comes after them.                                             *)
LEMMA KeepAndAppend ==
  ASSUME NEW S, NEW s \in Seq(S), NEW c \in Nat, c <= Len(s), NEW e \in S
  PROVE  /\ Append(SubSeq(s, 1, c), e) \in Seq(S)
         /\ Len(Append(SubSeq(s, 1, c), e)) = c + 1
         /\ \A i \in 1 .. c : Append(SubSeq(s, 1, c), e)[i] = s[i]
         /\ Append(SubSeq(s, 1, c), e)[c + 1] = e
<1> DEFINE p == SubSeq(s, 1, c)
<1>1. p \in Seq(S) /\ Len(p) = c /\ \A i \in 1 .. c : p[i] = s[i]
  BY SubSeqOfSeq
<1> HIDE DEF p
<1>2. /\ Append(p, e) \in Seq(S)
      /\ Len(Append(p, e)) = c + 1
      /\ \A i \in 1 .. c : Append(p, e)[i] = p[i]
      /\ Append(p, e)[c + 1] = e
  BY <1>1, AppendProperties
<1> QED
  BY <1>1, <1>2 DEF p

(* The history of the redo stream is all zeros when nothing is undone.     *)
LEMMA Zeros ==
  ASSUME NEW n \in Nat
  PROVE  [i \in 1 .. n |-> 0] \in Seq(Nat) /\ Len([i \in 1 .. n |-> 0]) = n
  OBVIOUS

(* The one-element histories of a reset.                                   *)
LEMMA One ==
  ASSUME NEW S, NEW e \in S
  PROVE  <<e>> \in Seq(S) /\ Len(<<e>>) = 1 /\ <<e>>[1] = e
  OBVIOUS

(* The types in Core, one by one.                                          *)
LEMMA CoreTypes ==
  ASSUME Core
  PROVE  /\ text \in Seq(Char) /\ redo \in Seq(Char)
         /\ steps \in Seq(Step) /\ streams \in Seq(Char)
         /\ ver \in Seq(Seq(Char)) /\ vsp \in Seq(Nat) /\ vrp \in Seq(Nat)
         /\ cur_step \in Nat /\ cur_step <= Len(steps) /\ Len(steps) \in Nat
         /\ cur_stream \in Nat /\ cur_stream <= Len(streams) /\ Len(streams) \in Nat
         /\ Len(ver) = Len(steps) + 1
         /\ Len(vsp) = Len(steps) + 1
         /\ Len(vrp) = Len(steps) + 1
         /\ Len(text) \in Nat /\ Len(redo) \in Nat
<1>1. /\ text \in Seq(Char) /\ redo \in Seq(Char)
      /\ steps \in Seq(Step) /\ streams \in Seq(Char)
      /\ ver \in Seq(Seq(Char)) /\ vsp \in Seq(Nat) /\ vrp \in Seq(Nat)
      /\ Len(ver) = Len(steps) + 1 /\ Len(vsp) = Len(ver) /\ Len(vrp) = Len(ver)
      /\ cur_step \in 0 .. Len(steps) /\ cur_stream \in 0 .. Len(streams)
  BY DEF Core
<1>2. /\ Len(steps) \in Nat /\ Len(streams) \in Nat
      /\ Len(text) \in Nat /\ Len(redo) \in Nat
  BY <1>1, LenProperties
<1> QED
  BY <1>1, <1>2

(* A reset leaves an undo buffer with one version.                         *)
LEMMA ResetKeepsCore ==
  ASSUME NEW t \in Seq(Char), text' = t, reset_undo_buffer(t)
  PROVE  Core'
<1>1. /\ steps' = <<>> /\ cur_step' = 0 /\ streams' = <<>> /\ cur_stream' = 0
      /\ redo' = <<>> /\ ver' = <<t>> /\ vsp' = <<0>> /\ vrp' = <<0>>
  BY DEF reset_undo_buffer
<1>2. /\ ver' \in Seq(Seq(Char)) /\ Len(ver') = 1 /\ ver'[1] = t
      /\ vsp' \in Seq(Nat) /\ Len(vsp') = 1 /\ vsp'[1] = 0
      /\ vrp' \in Seq(Nat) /\ Len(vrp') = 1 /\ vrp'[1] = 0
  BY <1>1, One
<1>3. /\ steps' \in Seq(Step) /\ streams' \in Seq(Char) /\ redo' \in Seq(Char)
      /\ Len(steps') = 0 /\ Len(streams') = 0 /\ Len(redo') = 0
  BY <1>1, EmptySeq
<1>4. UndoRedoExact' /\ StepsOK' /\ UndoStreamOK' /\ RedoStreamOK'
  BY <1>1, <1>2, <1>3 DEF UndoRedoExact, StepsOK, UndoStreamOK, RedoStreamOK
<1> QED
  BY <1>1, <1>2, <1>3, <1>4 DEF Core, StreamsMatchSteps

(* Recording a step: the steps kept still match the beginning of the undo  *)
(* stream, the new one matches the bytes just added, and nothing is undone. *)
LEMMA RecordKeepsCore ==
  ASSUME Core,
         NEW o \in Nat, NEW n \in Int, NEW bytes \in Seq(Char), NEW t \in Seq(Char),
         n < 0 => o - n <= Len(t) /\ text = Delete(t, o, -n) /\ bytes = << >>,
         n > 0 => o + n <= Len(text) /\ t = Delete(text, o, n) /\ bytes = Slice(text, o, n),
         n # 0,
         text' = t, add_undo_step(o, n, bytes, t)
  PROVE  Core'
<1> DEFINE st == [off |-> o, len |-> n, linked |-> link_undos # 0]
<1>1. /\ steps' = Append(SubSeq(steps, 1, cur_step), st)
      /\ cur_step' = cur_step + 1
      /\ streams' = SubSeq(streams, 1, cur_stream) \o bytes
      /\ cur_stream' = cur_stream + Len(bytes)
      /\ redo' = << >>
      /\ ver' = Append(SubSeq(ver, 1, cur_step + 1), t)
      /\ vsp' = Append(SubSeq(vsp, 1, cur_step + 1), cur_stream')
      /\ vrp' = [i \in 1 .. cur_step + 2 |-> 0]
  BY DEF add_undo_step
<1>2. /\ cur_step \in Nat /\ cur_step <= Len(steps) /\ Len(steps) \in Nat
      /\ cur_stream \in Nat /\ cur_stream <= Len(streams) /\ Len(streams) \in Nat
      /\ Len(ver) = Len(steps) + 1 /\ Len(vsp) = Len(steps) + 1
  BY CoreTypes
<1>2a. steps \in Seq(Step)
  BY CoreTypes
<1>2b. Len(bytes) \in Nat
  OBVIOUS
<1>2c. cur_stream' \in Nat
  BY <1>1, <1>2, <1>2b
<1>3. st \in Step /\ st.off = o /\ st.len = n
  BY DEF Step
<1> HIDE DEF st
<1>4. /\ steps' \in Seq(Step) /\ Len(steps') = cur_step + 1
      /\ \A i \in 1 .. cur_step : steps'[i] = steps[i]
      /\ steps'[cur_step + 1] = st
  <2>1. steps' = Append(SubSeq(steps, 1, cur_step), st)
    BY <1>1
  <2> QED
    <3>1. cur_step \in Nat /\ cur_step <= Len(steps) /\ st \in Step
      BY <1>2, <1>3
    <3> QED
      BY ONLY <1>2a, <2>1, <3>1, KeepAndAppend
<1>5. /\ ver' \in Seq(Seq(Char)) /\ Len(ver') = cur_step + 2
      /\ \A i \in 1 .. cur_step + 1 : ver'[i] = ver[i]
      /\ ver'[cur_step + 2] = t
  <2> DEFINE c == cur_step + 1
  <2>1. c \in Nat /\ c <= Len(ver) /\ ver \in Seq(Seq(Char))
    BY <1>2, CoreTypes
  <2>1a. t \in Seq(Char)
    OBVIOUS
  <2>2. ver' = Append(SubSeq(ver, 1, c), t)
    BY <1>1
  <2>3. c + 1 = cur_step + 2
    BY <1>2
  <2> HIDE DEF c
  <2>4. /\ ver' \in Seq(Seq(Char)) /\ Len(ver') = c + 1
        /\ \A i \in 1 .. c : ver'[i] = ver[i]
        /\ ver'[c + 1] = t
    BY ONLY <2>1, <2>1a, <2>2, KeepAndAppend
  <2> QED
    BY <2>3, <2>4 DEF c
<1>6. /\ vsp' \in Seq(Nat) /\ Len(vsp') = cur_step + 2
      /\ \A i \in 1 .. cur_step + 1 : vsp'[i] = vsp[i]
      /\ vsp'[cur_step + 2] = cur_stream'
  <2> DEFINE c == cur_step + 1
             e == cur_stream'
  <2>1. c \in Nat /\ c <= Len(vsp) /\ vsp \in Seq(Nat) /\ e \in Nat
    BY <1>2, <1>2c, CoreTypes
  <2>2. vsp' = Append(SubSeq(vsp, 1, c), e)
    BY <1>1
  <2>3. c + 1 = cur_step + 2
    BY <1>2
  <2> HIDE DEF c, e
  <2>4. /\ vsp' \in Seq(Nat) /\ Len(vsp') = c + 1
        /\ \A i \in 1 .. c : vsp'[i] = vsp[i]
        /\ vsp'[c + 1] = e
    BY ONLY <2>1, <2>2, KeepAndAppend
  <2> QED
    BY <2>3, <2>4 DEF c, e
<1>7. /\ vrp' \in Seq(Nat) /\ Len(vrp') = cur_step + 2
      /\ \A i \in 1 .. cur_step + 2 : vrp'[i] = 0
  <2>1. cur_step + 2 \in Nat
    BY <1>2
  <2> QED
    BY <1>1, <2>1, Zeros
<1> DEFINE kept == SubSeq(streams, 1, cur_stream)
<1>8. kept \in Seq(Char) /\ Len(kept) = cur_stream
  <2>1. streams \in Seq(Char) /\ cur_stream \in Nat /\ cur_stream <= Len(streams)
    BY CoreTypes
  <2> QED
    BY <2>1, SubSeqOfSeq
<1>9. streams' = kept \o bytes
  BY <1>1
<1> HIDE DEF kept
<1>10. streams' \in Seq(Char) /\ Len(streams') = cur_stream'
  <2>1. kept \o bytes \in Seq(Char) /\ Len(kept \o bytes) = Len(kept) + Len(bytes)
    BY <1>8, ConcatType
  <2>2. cur_stream' = cur_stream + Len(bytes)
    BY <1>1
  <2> QED
    BY <1>8, <1>9, <2>1, <2>2
<1>11. redo' \in Seq(Char) /\ Len(redo') = 0
  BY <1>1, EmptySeq
<1>12. UndoRedoExact'
  <2>1. cur_step' + 1 = cur_step + 2
    BY <1>1, <1>2
  <2> QED
    BY <1>5, <2>1 DEF UndoRedoExact
<1>13. StepsOK'
  <2> SUFFICES ASSUME NEW i \in 1 .. Len(steps') PROVE StepRelates(steps'[i], ver'[i], ver'[i + 1])
    BY DEF StepsOK
  <2>1. CASE i <= cur_step
    <3>1. i \in 1 .. cur_step /\ i + 1 \in 1 .. cur_step + 1 /\ i \in 1 .. cur_step + 1 /\ i \in 1 .. Len(steps)
      BY <1>2, <1>4, <2>1
    <3>2. steps'[i] = steps[i] /\ ver'[i] = ver[i] /\ ver'[i + 1] = ver[i + 1]
      BY <1>4, <1>5, <3>1
    <3>3. StepRelates(steps[i], ver[i], ver[i + 1])
      BY <3>1 DEF Core, StreamsMatchSteps, StepsOK
    <3> QED
      BY <3>2, <3>3
  <2>2. CASE i = cur_step + 1
    <3>1. steps'[i] = st /\ ver'[i] = text /\ ver'[i + 1] = t
      <4>1. cur_step + 1 \in 1 .. cur_step + 1 /\ i + 1 = cur_step + 2
        BY <1>2, <2>2
      <4>2. text = ver[cur_step + 1]
        BY DEF Core, UndoRedoExact
      <4> QED
        BY <1>4, <1>5, <2>2, <4>1, <4>2
    <3>2. StepRelates(st, text, t)
      BY <1>3 DEF StepRelates
    <3> QED
      BY <3>1, <3>2
  <2> QED
    BY <1>2, <1>4, <2>1, <2>2
<1>14. UndoStreamOK'
  <2>1. /\ vsp[1] = 0 /\ vsp[cur_step + 1] = cur_stream
        /\ \A i, j \in 1 .. Len(vsp) : i <= j => vsp[i] <= vsp[j]
        /\ \A i \in 1 .. Len(steps) :
             IF steps[i].len < 0 THEN vsp[i + 1] = vsp[i]
             ELSE /\ vsp[i + 1] = vsp[i] + steps[i].len
                  /\ SubSeq(streams, vsp[i] + 1, vsp[i + 1]) = Slice(ver[i], steps[i].off, steps[i].len)
    BY DEF Core, StreamsMatchSteps, UndoStreamOK
  <2>2. /\ vsp'[1] = 0
        /\ vsp'[cur_step' + 1] = cur_stream'
        /\ vsp'[Len(vsp')] = Len(streams')
    <3>1. 1 \in 1 .. cur_step + 1 /\ cur_step' + 1 = cur_step + 2
      BY <1>1, <1>2
    <3> QED
      BY <1>6, <1>10, <2>1, <3>1
  <2>3. \A i \in 1 .. cur_step + 1 : vsp[i] \in Nat /\ vsp[i] <= cur_stream /\ cur_stream <= cur_stream'
    <3> TAKE i \in 1 .. cur_step + 1
    <3>1. i \in 1 .. Len(vsp) /\ cur_step + 1 \in 1 .. Len(vsp) /\ i <= cur_step + 1
      BY <1>2
    <3>2. vsp[i] <= vsp[cur_step + 1]
      BY <2>1, <3>1
    <3>3. vsp[i] \in Nat
      BY <3>1, CoreTypes, ElementOfSeq
    <3>4. cur_stream <= cur_stream'
      BY <1>1, <1>2, <1>2b
    <3> QED
      BY <2>1, <3>2, <3>3, <3>4
  <2>4. ASSUME NEW i \in 1 .. Len(vsp'), NEW j \in 1 .. Len(vsp'), i <= j
        PROVE  vsp'[i] <= vsp'[j]
    <3>1. CASE j <= cur_step + 1
      <4>0. i \in Nat /\ j \in Nat /\ i >= 1 /\ j >= 1
        OBVIOUS
      <4>1. /\ i \in 1 .. cur_step + 1 /\ j \in 1 .. cur_step + 1
            /\ i \in 1 .. Len(vsp) /\ j \in 1 .. Len(vsp)
        BY ONLY <1>2, <2>4, <3>1, <4>0
      <4>2. vsp[i] <= vsp[j]
        BY <2>1, <2>4, <4>1
      <4> QED
        BY <1>6, <4>1, <4>2
    <3>2. CASE i <= cur_step + 1 /\ j = cur_step + 2
      <4>0. i \in Nat /\ i >= 1
        OBVIOUS
      <4>1. i \in 1 .. cur_step + 1
        BY ONLY <1>2, <3>2, <4>0
      <4>2. vsp[i] <= cur_stream'
        <5>1. vsp[i] \in Nat /\ vsp[i] <= cur_stream /\ cur_stream <= cur_stream'
          BY <2>3, <4>1
        <5>2. cur_stream \in Nat /\ cur_stream' \in Nat
          BY <1>2, <1>2c
        <5> QED
          BY ONLY <5>1, <5>2
      <4> QED
        BY <1>6, <3>2, <4>1, <4>2
    <3>3. CASE i = cur_step + 2 /\ j = cur_step + 2
      BY <1>6, <1>2c, <3>3
    <3> QED
      BY <1>2, <1>6, <2>4, <3>1, <3>2, <3>3
  <2>5. ASSUME NEW i \in 1 .. Len(steps')
        PROVE  IF steps'[i].len < 0 THEN vsp'[i + 1] = vsp'[i]
               ELSE /\ vsp'[i + 1] = vsp'[i] + steps'[i].len
                    /\ SubSeq(streams', vsp'[i] + 1, vsp'[i + 1]) = Slice(ver'[i], steps'[i].off, steps'[i].len)
    <3>1. CASE i <= cur_step
      <4>1. i \in 1 .. cur_step /\ i \in 1 .. cur_step + 1 /\ i + 1 \in 1 .. cur_step + 1 /\ i \in 1 .. Len(steps)
        BY <1>2, <1>4, <3>1
      <4>2. steps'[i] = steps[i] /\ ver'[i] = ver[i] /\ vsp'[i] = vsp[i] /\ vsp'[i + 1] = vsp[i + 1]
        BY <1>4, <1>5, <1>6, <4>1
      <4>3. SubSeq(streams', vsp[i] + 1, vsp[i + 1]) = SubSeq(streams, vsp[i] + 1, vsp[i + 1])
        <5> DEFINE m == vsp[i] + 1
                   n1 == vsp[i + 1]
        <5>1. m \in Nat \ {0} /\ n1 \in Nat /\ n1 <= cur_stream
          BY ONLY <2>3, <4>1
        <5> HIDE DEF m, n1
        <5>2. SubSeq(kept \o bytes, m, n1) = SubSeq(kept, m, n1)
          BY <1>8, <5>1, SubSeqKept
        <5>3. SubSeq(kept, m, n1) = SubSeq(streams, m, n1)
          <6>1. /\ streams \in Seq(Char) /\ cur_stream \in Nat /\ cur_stream <= Len(streams)
                /\ kept = SubSeq(streams, 1, cur_stream)
            BY CoreTypes DEF kept
          <6> QED
            BY ONLY <5>1, <6>1, SubSeqOfPrefix
        <5> QED
          BY <1>9, <5>2, <5>3 DEF m, n1
      <4> QED
        BY <2>1, <4>1, <4>2, <4>3
    <3>2. CASE i = cur_step + 1
      <4>1. i \in 1 .. cur_step + 1 /\ i + 1 = cur_step + 2
        BY <1>2, <3>2
      <4>2. /\ steps'[i] = st /\ ver'[i] = text
            /\ vsp'[i] = cur_stream /\ vsp'[i + 1] = cur_stream + Len(bytes)
        <5>1. text = ver[cur_step + 1]
          BY DEF Core, UndoRedoExact
        <5> QED
          BY <1>1, <1>4, <1>5, <1>6, <2>1, <3>2, <4>1, <5>1
      <4>3. CASE n < 0
        <5>1. Len(bytes) = 0
          BY <4>3, EmptySeq
        <5> QED
          BY <1>2, <1>3, <4>2, <4>3, <5>1
      <4>4. CASE n > 0
        <5>1. bytes = Slice(text, o, n) /\ Len(bytes) = n
          <6>1. n \in Nat /\ o + n <= Len(text) /\ bytes = Slice(text, o, n)
            BY <4>4
          <6> QED
            BY <6>1, CoreTypes, SliceType
        <5>2. SubSeq(streams', cur_stream + 1, cur_stream + Len(bytes)) = bytes
          BY <1>8, <1>9, ConcatSplits
        <5>3. ~(n < 0)
          BY <4>4
        <5> QED
          BY <1>3, <4>2, <5>1, <5>2, <5>3
      <4> QED
        BY <4>3, <4>4
    <3> QED
      BY <1>2, <1>4, <3>1, <3>2
  <2> QED
    BY <2>2, <2>4, <2>5 DEF UndoStreamOK
<1>15. RedoStreamOK'
  <2>1. cur_step' + 1 = cur_step + 2 /\ cur_step' + 1 \in 1 .. cur_step + 2
    BY <1>1, <1>2
  <2>2. vrp'[cur_step' + 1] = Len(redo') /\ vrp'[Len(vrp')] = 0
    BY <1>7, <1>11, <2>1
  <2>3. \A i, j \in cur_step' + 1 .. Len(vrp') : i <= j => vrp'[j] <= vrp'[i]
    BY <1>2, <1>7, <2>1
  <2>4. cur_step' + 1 .. Len(steps') = {}
    BY <1>2, <1>4, <2>1
  <2> QED
    BY <2>2, <2>3, <2>4 DEF RedoStreamOK
<1>16. cur_step' \in 0 .. Len(steps') /\ cur_stream' \in 0 .. Len(streams')
  BY <1>1, <1>2, <1>4, <1>10, <1>2c
<1>17. Len(ver') = Len(steps') + 1 /\ Len(vsp') = Len(ver') /\ Len(vrp') = Len(ver')
  BY <1>2, <1>4, <1>5, <1>6, <1>7
<1> QED
  BY <1>4, <1>5, <1>6, <1>7, <1>10, <1>11, <1>12, <1>13, <1>14, <1>15, <1>16, <1>17
     DEF Core, StreamsMatchSteps

(* Closing a chain changes which steps are linked and nothing else.        *)
LEMMA CloseKeepsCore ==
  ASSUME Core, NEW n \in Int, CloseChain(n),
         UNCHANGED <<text, cur_step, streams, cur_stream, redo, history>>
  PROVE  Core'
<1>1. /\ text' = text /\ cur_step' = cur_step /\ streams' = streams
      /\ cur_stream' = cur_stream /\ redo' = redo
      /\ ver' = ver /\ vsp' = vsp /\ vrp' = vrp
  BY DEF history
<1>2. /\ steps' \in Seq(Step) /\ Len(steps') = Len(steps)
      /\ \A i \in 1 .. Len(steps) : steps'[i].off = steps[i].off /\ steps'[i].len = steps[i].len
  <2>1. CASE n = 0 /\ cur_step > 0
    <3> DEFINE e == [steps[cur_step] EXCEPT !.linked = FALSE]
    <3>1. cur_step \in 1 .. Len(steps) /\ steps \in Seq(Step)
      BY <2>1, CoreTypes
    <3>2. steps[cur_step] \in Step
      BY <3>1, ElementOfSeq
    <3>3. e \in Step /\ e.off = steps[cur_step].off /\ e.len = steps[cur_step].len
      BY <3>2 DEF Step
    <3>4. steps' = [steps EXCEPT ![cur_step] = e]
      BY <2>1 DEF CloseChain, Unlink
    <3> HIDE DEF e
    <3>5. /\ steps' \in Seq(Step) /\ Len(steps') = Len(steps)
          /\ \A i \in 1 .. Len(steps) : steps'[i] = IF i = cur_step THEN e ELSE steps[i]
      BY <3>1, <3>3, <3>4, ExceptSeq
    <3> QED
      BY <3>3, <3>5
  <2>2. CASE ~(n = 0 /\ cur_step > 0)
    BY <2>2, CoreTypes DEF CloseChain
  <2> QED
    BY <2>1, <2>2
<1>3. StepsOK'
  BY <1>1, <1>2 DEF Core, StreamsMatchSteps, StepsOK, StepRelates
<1>4. UndoStreamOK'
  BY <1>1, <1>2 DEF Core, StreamsMatchSteps, UndoStreamOK
<1>5. RedoStreamOK'
  <2>1. \A i \in cur_step + 1 .. Len(steps) : i \in 1 .. Len(steps)
    BY CoreTypes
  <2> QED
    BY <1>1, <1>2, <2>1 DEF Core, StreamsMatchSteps, RedoStreamOK
<1>6. UndoRedoExact'
  BY <1>1 DEF Core, UndoRedoExact
<1> QED
  BY <1>1, <1>2, <1>3, <1>4, <1>5, <1>6 DEF Core, StreamsMatchSteps

(* An unrecorded edit replaces the only version there is.                  *)
LEMMA SkipKeepsCore ==
  ASSUME Core, NEW t \in Seq(Char), steps = << >>, text' = t, skip_undo_step(t)
  PROVE  Core'
<1>1. /\ ver' = [ver EXCEPT ![cur_step + 1] = t]
      /\ steps' = steps /\ cur_step' = cur_step /\ streams' = streams
      /\ cur_stream' = cur_stream /\ redo' = redo /\ vsp' = vsp /\ vrp' = vrp
  BY DEF skip_undo_step
<1>2. Len(steps) = 0 /\ cur_step = 0 /\ Len(ver) = 1 /\ ver \in Seq(Seq(Char))
  BY CoreTypes, EmptySeq
<1>3. ver' \in Seq(Seq(Char)) /\ Len(ver') = Len(ver) /\ ver'[1] = t
  <2> DEFINE S == Seq(Char)
  <2>1. /\ 1 \in 1 .. Len(ver) /\ ver' = [ver EXCEPT ![1] = t]
        /\ ver \in Seq(S) /\ t \in S
    BY <1>1, <1>2
  <2> HIDE DEF S
  <2>2. /\ ver' \in Seq(S) /\ Len(ver') = Len(ver)
        /\ \A j \in 1 .. Len(ver) : ver'[j] = IF j = 1 THEN t ELSE ver[j]
    BY <2>1, ExceptSeq
  <2> QED
    BY <2>1, <2>2 DEF S
<1>4. UndoRedoExact' /\ StepsOK'
  BY <1>1, <1>2, <1>3 DEF UndoRedoExact, StepsOK
<1>5. UndoStreamOK' /\ RedoStreamOK'
  <2>1. UndoStreamOK /\ RedoStreamOK
    BY DEF Core, StreamsMatchSteps
  <2>2. 1 .. Len(steps) = {} /\ cur_step + 1 .. Len(steps) = {}
    BY <1>2
  <2>3. UndoStreamOK'
    BY <1>1, <2>1, <2>2 DEF UndoStreamOK
  <2>4. RedoStreamOK'
    BY <1>1, <2>1, <2>2 DEF RedoStreamOK
  <2> QED
    BY <2>3, <2>4
<1> QED
  BY <1>1, <1>3, <1>4, <1>5 DEF Core, StreamsMatchSteps

(* One turn of the loop of undo().                                         *)
LEMMA UndoKeepsCore ==
  ASSUME Core, LoopInBounds, UndoStep
  PROVE  Core'
<1> DEFINE c == cur_step
           st == steps[c]
<1>1. c \in 1 .. Len(steps) /\ c \in 1 .. Len(ver) /\ c + 1 \in 1 .. Len(ver)
  <2>1. cur_step > 0
    BY DEF UndoStep, LoopInBounds
  <2>2. /\ cur_step \in Nat /\ cur_step <= Len(steps) /\ Len(steps) \in Nat
        /\ Len(ver) = Len(steps) + 1
    BY CoreTypes
  <2> QED
    BY <2>1, <2>2
<1>2. /\ cur_step' = c - 1
      /\ steps' = steps /\ streams' = streams /\ ver' = ver /\ vsp' = vsp
      /\ vrp' = [vrp EXCEPT ![c] = Len(redo')]
  BY DEF UndoStep
<1>3. st.off \in Nat /\ st.len \in Int
  <2>1. st \in Step
    BY <1>1, CoreTypes, ElementOfSeq
  <2> QED
    BY <2>1 DEF Step
<1>4. StepRelates(st, ver[c], ver[c + 1])
  BY <1>1 DEF Core, StreamsMatchSteps, StepsOK
<1>5. ver[c] \in Seq(Char) /\ ver[c + 1] = text /\ text \in Seq(Char)
  <2>1. ver[c] \in Seq(Char)
    BY <1>1, CoreTypes, ElementOfSeq
  <2> QED
    BY <2>1, CoreTypes DEF Core, UndoRedoExact
<1>6. /\ text' = ver[c]
      /\ redo' \in Seq(Char)
      /\ st.len < 0 => /\ redo' = redo \o Slice(text, st.off, -st.len)
                       /\ Slice(text, st.off, -st.len) \in Seq(Char)
                       /\ Len(redo') = Len(redo) - st.len
                       /\ cur_stream' = cur_stream
      /\ st.len > 0 => redo' = redo /\ cur_stream' = cur_stream - st.len
  <2>1. CASE st.len < 0
    <3> DEFINE n == -st.len
               sl == Slice(text, st.off, n)
    <3>1. /\ text' = Delete(text, st.off, n)
          /\ redo' = redo \o sl
          /\ cur_stream' = cur_stream
      BY <2>1 DEF UndoStep
    <3>2. n \in Nat /\ st.off + n <= Len(text) /\ ver[c] = Delete(text, st.off, n)
      BY <1>3, <1>4, <1>5, <2>1 DEF StepRelates
    <3> HIDE DEF n
    <3>3. sl \in Seq(Char) /\ Len(sl) = n
      BY <1>3, <1>5, <3>2, SliceType
    <3> HIDE DEF sl
    <3>4. redo \o sl \in Seq(Char) /\ Len(redo \o sl) = Len(redo) + Len(sl)
      BY <3>3, CoreTypes, ConcatType
    <3>5. Len(redo') = Len(redo) - st.len
      BY <1>3, <3>1, <3>3, <3>4, CoreTypes DEF n
    <3>6. text' = ver[c] /\ redo' \in Seq(Char)
      BY <3>1, <3>2, <3>4
    <3>7. ~(st.len > 0)
      BY <1>3, <2>1
    <3>8. redo' = redo \o Slice(text, st.off, -st.len) /\ Slice(text, st.off, -st.len) \in Seq(Char)
      BY <3>1, <3>3 DEF sl, n
    <3> QED
      BY <3>1, <3>5, <3>6, <3>7, <3>8
  <2>2. CASE st.len > 0
    <3> DEFINE n == st.len
    <3>1. n \in Nat /\ st.off + n <= Len(ver[c]) /\ text = Delete(ver[c], st.off, n)
      BY <1>3, <1>4, <1>5, <2>2 DEF StepRelates
    <3>2. ~(st.len < 0)
      BY <1>3, <2>2
    <3>3. /\ cur_stream' = cur_stream - n
          /\ text' = Insert(text, st.off, SubSeq(streams, cur_stream' + 1, cur_stream))
          /\ redo' = redo
      BY <3>2 DEF UndoStep
    <3>4. SubSeq(streams, cur_stream' + 1, cur_stream) = Slice(ver[c], st.off, n)
      <4>1. /\ vsp[c + 1] = cur_stream /\ vsp[c + 1] = vsp[c] + n
            /\ SubSeq(streams, vsp[c] + 1, vsp[c + 1]) = Slice(ver[c], st.off, n)
        BY <1>1, <3>2 DEF Core, StreamsMatchSteps, UndoStreamOK
      <4>2. vsp[c] \in Nat
        BY <1>1, CoreTypes, ElementOfSeq
      <4>3. vsp[c] = cur_stream'
        BY <3>1, <3>3, <4>1, <4>2
      <4> QED
        BY <4>1, <4>3
    <3>5. Insert(Delete(ver[c], st.off, n), st.off, Slice(ver[c], st.off, n)) = ver[c]
      BY <1>3, <1>5, <3>1, InsertUndoesDelete
    <3> QED
      BY <2>2, <3>1, <3>2, <3>3, <3>4, <3>5, CoreTypes
  <2> QED
    BY <1>3, <1>4, <2>1, <2>2 DEF StepRelates
<1>7. Len(redo') \in Nat /\ Len(redo) \in Nat
  BY <1>6, CoreTypes, LenProperties
<1>8. /\ vrp' \in Seq(Nat) /\ Len(vrp') = Len(vrp)
      /\ \A j \in 1 .. Len(vrp) : vrp'[j] = IF j = c THEN Len(redo') ELSE vrp[j]
  <2> DEFINE e == Len(redo')
  <2>1. c \in 1 .. Len(vrp) /\ vrp \in Seq(Nat) /\ e \in Nat /\ vrp' = [vrp EXCEPT ![c] = e]
    BY <1>1, <1>2, <1>7, CoreTypes
  <2> HIDE DEF e, c
  <2>2. /\ vrp' \in Seq(Nat) /\ Len(vrp') = Len(vrp)
        /\ \A j \in 1 .. Len(vrp) : vrp'[j] = IF j = c THEN e ELSE vrp[j]
    BY <2>1, ExceptSeq
  <2> QED
    BY <2>2 DEF e, c
<1>9. StepsOK' /\ UndoRedoExact'
  <2>1. cur_step' + 1 = c
    BY <1>1, <1>2
  <2>2. UndoRedoExact'
    BY <1>2, <1>6, <2>1 DEF UndoRedoExact
  <2>3. StepsOK'
    BY <1>2 DEF Core, StreamsMatchSteps, StepsOK
  <2> QED
    BY <2>2, <2>3
<1>10. UndoStreamOK'
  <2>1. UndoStreamOK
    BY DEF Core, StreamsMatchSteps
  <2>2. vsp[c] = cur_stream'
    <3>1. vsp[c + 1] = cur_stream
      BY <2>1 DEF UndoStreamOK
    <3>2. /\ st.len < 0 => vsp[c + 1] = vsp[c]
          /\ ~(st.len < 0) => vsp[c + 1] = vsp[c] + st.len
      BY <1>1, <2>1 DEF UndoStreamOK
    <3>3. st.len < 0 \/ (st.len > 0 /\ ~(st.len < 0))
      BY <1>3, <1>4 DEF StepRelates
    <3>4. vsp[c] \in Nat
      BY <1>1, CoreTypes, ElementOfSeq
    <3> QED
      BY <1>3, <1>6, <3>1, <3>2, <3>3, <3>4
  <2>3. cur_step' + 1 = c
    BY <1>1, <1>2
  <2> QED
    BY <1>2, <2>1, <2>2, <2>3 DEF UndoStreamOK
<1>11. RedoStreamOK'
  <2> DEFINE OldBlock(i) ==
               IF steps[i].len > 0 THEN vrp[i + 1] = vrp[i]
               ELSE /\ vrp[i] = vrp[i + 1] - steps[i].len
                    /\ SubSeq(redo, vrp[i + 1] + 1, vrp[i]) = Slice(ver[i + 1], steps[i].off, -steps[i].len)
             NewBlock(i) ==
               IF steps[i].len > 0 THEN vrp'[i + 1] = vrp'[i]
               ELSE /\ vrp'[i] = vrp'[i + 1] - steps[i].len
                    /\ SubSeq(redo', vrp'[i + 1] + 1, vrp'[i]) = Slice(ver[i + 1], steps[i].off, -steps[i].len)
  <2>1. /\ vrp[c + 1] = Len(redo)
        /\ vrp[Len(vrp)] = 0
        /\ \A i, j \in c + 1 .. Len(vrp) : i <= j => vrp[j] <= vrp[i]
        /\ \A i \in c + 1 .. Len(steps) : OldBlock(i)
    BY DEF Core, StreamsMatchSteps, RedoStreamOK
  <2>2. /\ c \in Nat /\ c >= 1 /\ c <= Len(steps) /\ Len(steps) \in Nat
        /\ Len(vrp) = Len(steps) + 1
    BY <1>1, CoreTypes
  <2>3. \A i \in 1 .. Len(vrp) : vrp[i] \in Nat
    BY CoreTypes, ElementOfSeq
  <2>4. vrp'[c] = Len(redo')
    BY <1>8, <2>2
  <2>5. \A i \in c + 1 .. Len(vrp) : vrp'[i] = vrp[i] /\ vrp[i] \in Nat /\ vrp[i] <= Len(redo)
    <3> TAKE i \in c + 1 .. Len(vrp)
    <3>1. i \in 1 .. Len(vrp) /\ i # c /\ c + 1 \in c + 1 .. Len(vrp) /\ c + 1 <= i
      BY <2>2
    <3>2. vrp[i] <= vrp[c + 1]
      BY <2>1, <3>1
    <3> QED
      BY <1>8, <2>1, <2>3, <3>1, <3>2
  <2>6. Len(redo) <= Len(redo')
    BY <1>3, <1>4, <1>6, <1>7 DEF StepRelates
  <2>7. vrp'[Len(vrp')] = 0
    <3>1. Len(vrp) \in c + 1 .. Len(vrp)
      BY <2>2
    <3> QED
      BY <1>8, <2>1, <2>5, <3>1
  <2>8. ASSUME NEW i \in c .. Len(vrp), NEW j \in c .. Len(vrp), i <= j
        PROVE  vrp'[j] <= vrp'[i]
    <3>1. CASE i = c /\ j = c
      BY <1>7, <2>4, <3>1
    <3>2. CASE i = c /\ j # c
      <4>1. j \in c + 1 .. Len(vrp)
        BY <2>2, <3>2
      <4>2. vrp'[j] \in Nat /\ vrp'[j] <= Len(redo)
        BY <2>5, <4>1
      <4> QED
        BY <1>7, <2>4, <2>6, <3>2, <4>2
    <3>3. CASE i # c
      <4>1. i \in c + 1 .. Len(vrp) /\ j \in c + 1 .. Len(vrp)
        BY <2>2, <2>8, <3>3
      <4> QED
        BY <2>1, <2>5, <2>8, <4>1
    <3> QED
      BY <3>1, <3>2, <3>3
  <2>9. ASSUME NEW i \in c .. Len(steps)
        PROVE  NewBlock(i)
    <3>1. CASE i = c
      <4>1. c + 1 \in c + 1 .. Len(vrp)
        BY <2>2
      <4>2. vrp'[c + 1] = Len(redo)
        BY <2>1, <2>5, <4>1
      <4>3. CASE st.len > 0
        <5>1. redo' = redo
          BY <1>6, <4>3
        <5>2. vrp'[c + 1] = vrp'[c]
          BY <2>4, <4>2, <5>1
        <5> QED
          BY <3>1, <4>3, <5>2
      <4>4. CASE st.len < 0
        <5> DEFINE sl == Slice(text, st.off, -st.len)
        <5>1. sl \in Seq(Char) /\ redo' = redo \o sl /\ redo \in Seq(Char)
              /\ Len(redo') = Len(redo) - st.len
          BY <1>6, <4>4, CoreTypes
        <5> HIDE DEF sl
        <5>2. SubSeq(redo \o sl, Len(redo) + 1, Len(redo) + Len(sl)) = sl
          BY <5>1, ConcatSplits
        <5>3. Len(redo') = Len(redo) + Len(sl)
          BY <5>1, ConcatType
        <5>4. SubSeq(redo', vrp'[c + 1] + 1, vrp'[c]) = sl
          BY <2>4, <4>2, <5>1, <5>2, <5>3
        <5>5. vrp'[c] = vrp'[c + 1] - st.len
          BY <2>4, <4>2, <5>1
        <5>6. ~(st.len > 0)
          BY <1>3, <4>4
        <5>7. sl = Slice(ver[c + 1], st.off, -st.len)
          BY <1>5 DEF sl
        <5> QED
          BY <3>1, <5>4, <5>5, <5>6, <5>7
      <4> QED
        BY <1>3, <1>4, <4>3, <4>4 DEF StepRelates
    <3>2. CASE i # c
      <4>1. /\ i \in c + 1 .. Len(steps)
            /\ i \in c + 1 .. Len(vrp) /\ i + 1 \in c + 1 .. Len(vrp)
        BY <2>2, <3>2
      <4>2. /\ vrp'[i] = vrp[i] /\ vrp[i] \in Nat /\ vrp[i] <= Len(redo)
            /\ vrp'[i + 1] = vrp[i + 1] /\ vrp[i + 1] \in Nat
        BY <2>5, <4>1
      <4>3. SubSeq(redo', vrp[i + 1] + 1, vrp[i]) = SubSeq(redo, vrp[i + 1] + 1, vrp[i])
        <5> DEFINE m == vrp[i + 1] + 1
                   n == vrp[i]
                   sl == Slice(text, st.off, -st.len)
        <5>0. redo \in Seq(Char) /\ st.len # 0
          BY <1>4, CoreTypes DEF StepRelates
        <5>1. m \in Nat \ {0} /\ n \in Nat /\ n <= Len(redo)
          BY <4>2
        <5> HIDE DEF m, n
        <5>2. CASE st.len < 0
          <6>1. sl \in Seq(Char) /\ redo' = redo \o sl
            BY <1>6, <5>2
          <6> HIDE DEF sl
          <6>2. SubSeq(redo \o sl, m, n) = SubSeq(redo, m, n)
            BY <5>0, <5>1, <6>1, SubSeqKept
          <6> QED
            BY <6>1, <6>2 DEF m, n
        <5>3. CASE st.len > 0
          BY <1>6, <5>3
        <5>4. st.len < 0 \/ st.len > 0
          <6> HIDE DEF st
          <6> QED
            BY <1>3, <5>0
        <5> QED
          BY <5>2, <5>3, <5>4
      <4>4. OldBlock(i)
        BY <2>1, <4>1
      <4> QED
        BY <4>2, <4>3, <4>4
    <3> QED
      BY <3>1, <3>2
  <2>10. cur_step' + 1 = c
    BY <1>1, <1>2
  <2>11. Len(vrp') = Len(vrp)
    BY <1>8
  <2> QED
    BY <1>2, <2>4, <2>7, <2>8, <2>9, <2>10, <2>11 DEF RedoStreamOK
<1>12. cur_step' \in 0 .. Len(steps') /\ cur_stream' \in 0 .. Len(streams')
  <2>1. cur_step' \in 0 .. Len(steps')
    BY <1>1, <1>2, CoreTypes
  <2>2. vsp[c] = cur_stream' /\ vsp[c] \in Nat
    <3>1. cur_step' + 1 = c
      BY <1>1, <1>2
    <3>2. c \in 1 .. Len(vsp)
      BY <1>1, CoreTypes
    <3> QED
      BY <1>2, <1>10, <3>1, <3>2, CoreTypes, ElementOfSeq DEF UndoStreamOK
  <2>3. vsp[c] <= vsp[Len(vsp)]
    <3>1. c \in 1 .. Len(vsp) /\ Len(vsp) \in 1 .. Len(vsp) /\ c <= Len(vsp)
      BY <1>1, CoreTypes
    <3> QED
      BY <3>1 DEF Core, StreamsMatchSteps, UndoStreamOK
  <2>4. vsp[Len(vsp)] = Len(streams)
    BY DEF Core, StreamsMatchSteps, UndoStreamOK
  <2> QED
    BY <1>2, <2>1, <2>2, <2>3, <2>4, CoreTypes
<1> QED
  BY <1>2, <1>5, <1>6, <1>8, <1>9, <1>10, <1>11, <1>12, CoreTypes DEF Core, StreamsMatchSteps

(* One turn of the loop of redo().                                         *)
LEMMA RedoKeepsCore ==
  ASSUME Core, LoopInBounds, RedoStep
  PROVE  Core'
<1> DEFINE c == cur_step
           st == steps[c + 1]
           before == ver[c + 1]
           after == ver[c + 2]
<1>1. /\ c \in Nat /\ c + 1 <= Len(steps) /\ Len(steps) \in Nat
      /\ Len(ver) = Len(steps) + 1 /\ Len(vsp) = Len(steps) + 1 /\ Len(vrp) = Len(steps) + 1
  <2>1. cur_step < Len(steps)
    BY DEF RedoStep, LoopInBounds
  <2>2. /\ cur_step \in Nat /\ Len(steps) \in Nat
        /\ Len(ver) = Len(steps) + 1 /\ Len(vsp) = Len(steps) + 1 /\ Len(vrp) = Len(steps) + 1
    BY CoreTypes
  <2> QED
    BY <2>1, <2>2
<1>2. /\ cur_step' = c + 1
      /\ steps' = steps /\ streams' = streams /\ ver' = ver /\ vsp' = vsp
      /\ vrp' = [vrp EXCEPT ![c + 1] = 0]
  BY DEF RedoStep
<1>3. /\ c + 1 \in 1 .. Len(steps) /\ c + 1 \in 1 .. Len(ver) /\ c + 2 \in 1 .. Len(ver)
      /\ (c + 1) + 1 = c + 2
  BY <1>1
<1>4. st.off \in Nat /\ st.len \in Int
  <2>1. st \in Step
    BY <1>3, CoreTypes, ElementOfSeq
  <2> QED
    BY <2>1 DEF Step
<1>5. StepRelates(st, before, after)
  BY <1>3 DEF Core, StreamsMatchSteps, StepsOK
<1>6. st.len < 0 \/ st.len > 0
  <2>1. st.len # 0
    BY <1>5 DEF StepRelates
  <2> HIDE DEF st
  <2> QED
    BY <1>4, <2>1
<1>7. before \in Seq(Char) /\ after \in Seq(Char) /\ text = before
  <2>1. ver \in Seq(Seq(Char))
    BY CoreTypes
  <2> QED
    BY <1>3, <2>1, ElementOfSeq DEF Core, UndoRedoExact
<1>8. \A i \in 1 .. Len(vrp) : vrp[i] \in Nat /\ vsp[i] \in Nat
  <2>1. vrp \in Seq(Nat) /\ vsp \in Seq(Nat)
    BY CoreTypes
  <2> QED
    BY <1>1, <2>1, ElementOfSeq
<1>9. vrp[c + 1] = Len(redo) /\ vsp[c + 1] = cur_stream
  BY DEF Core, StreamsMatchSteps, UndoStreamOK, RedoStreamOK
<1>10. IF st.len > 0 THEN vrp[c + 2] = vrp[c + 1]
       ELSE /\ vrp[c + 1] = vrp[c + 2] - st.len
            /\ SubSeq(redo, vrp[c + 2] + 1, vrp[c + 1]) = Slice(after, st.off, -st.len)
  <2>1. c + 1 \in cur_step + 1 .. Len(steps)
    BY <1>1
  <2> QED
    BY <1>3, <2>1 DEF Core, StreamsMatchSteps, RedoStreamOK
<1>11. IF st.len < 0 THEN vsp[c + 2] = vsp[c + 1]
       ELSE vsp[c + 2] = vsp[c + 1] + st.len
  BY <1>3 DEF Core, StreamsMatchSteps, UndoStreamOK
<1>12. c + 1 \in 1 .. Len(vrp) /\ c + 2 \in 1 .. Len(vrp)
  BY <1>1
<1>13. vrp[c + 2] \in Nat /\ vrp[c + 2] <= Len(redo) /\ Len(redo) \in Nat
  <2>1. vrp[c + 2] \in Nat /\ Len(redo) \in Nat
    BY <1>8, <1>12, CoreTypes
  <2>2. CASE st.len > 0
    BY <1>9, <1>10, <2>1, <2>2
  <2>3. CASE st.len < 0
    <3>1. Len(redo) = vrp[c + 2] - st.len
      BY <1>4, <1>9, <1>10, <2>3
    <3> HIDE DEF st
    <3> QED
      BY <1>4, <2>1, <2>3, <3>1
  <2> QED
    BY <1>6, <2>2, <2>3
<1>14. /\ text' = after
       /\ redo' = SubSeq(redo, 1, vrp[c + 2])
       /\ cur_stream' = vsp[c + 2]
  <2>1. CASE st.len < 0
    <3> DEFINE n == -st.len
               left == Len(redo) + st.len
    <3>1. ~(st.len > 0) /\ n \in Nat
      BY <1>4, <2>1
    <3>2. /\ text' = Insert(text, st.off, SubSeq(redo, left + 1, Len(redo)))
          /\ redo' = SubSeq(redo, 1, left)
          /\ cur_stream' = cur_stream
      BY <2>1 DEF RedoStep
    <3>3. left = vrp[c + 2]
      <4>1. Len(redo) = vrp[c + 2] - st.len
        BY <1>9, <1>10, <3>1
      <4> HIDE DEF st
      <4> QED
        BY <1>4, <1>13, <4>1
    <3>4. SubSeq(redo, left + 1, Len(redo)) = Slice(after, st.off, n)
      BY <1>9, <1>10, <3>1, <3>3
    <3>5. st.off + n <= Len(after) /\ before = Delete(after, st.off, n)
      BY <1>4, <1>5, <2>1 DEF StepRelates
    <3>6. Insert(Delete(after, st.off, n), st.off, Slice(after, st.off, n)) = after
      <4> HIDE DEF n
      <4> QED
        BY <1>4, <1>7, <3>1, <3>5, InsertUndoesDelete
    <3>7. text' = after
      BY <1>7, <3>2, <3>4, <3>5, <3>6
    <3> QED
      BY <1>9, <1>11, <2>1, <3>2, <3>3, <3>7
  <2>2. CASE st.len > 0
    <3>1. ~(st.len < 0)
      BY <1>4, <2>2
    <3>2. text' = Delete(text, st.off, st.len) /\ cur_stream' = cur_stream + st.len /\ redo' = redo
      BY <3>1 DEF RedoStep
    <3>3. after = Delete(before, st.off, st.len)
      BY <1>5, <2>2 DEF StepRelates
    <3>4. redo' = SubSeq(redo, 1, Len(redo))
      BY <3>2, CoreTypes, SubSeqFull
    <3> QED
      BY <1>7, <1>9, <1>10, <1>11, <2>2, <3>1, <3>2, <3>3, <3>4
  <2> QED
    BY <1>6, <2>1, <2>2
<1>15. redo' \in Seq(Char) /\ Len(redo') = vrp[c + 2]
  <2> DEFINE k == vrp[c + 2]
  <2>1. redo \in Seq(Char) /\ k \in Nat /\ k <= Len(redo) /\ redo' = SubSeq(redo, 1, k)
    BY <1>13, <1>14, CoreTypes
  <2> HIDE DEF k
  <2>2. redo' \in Seq(Char) /\ Len(redo') = k
    BY <2>1, SubSeqOfSeq
  <2> QED
    BY <2>2 DEF k
<1>16. /\ vrp' \in Seq(Nat) /\ Len(vrp') = Len(vrp)
       /\ \A j \in 1 .. Len(vrp) : vrp'[j] = IF j = c + 1 THEN 0 ELSE vrp[j]
  <2> DEFINE k == c + 1
  <2>1. k \in 1 .. Len(vrp) /\ vrp \in Seq(Nat) /\ 0 \in Nat /\ vrp' = [vrp EXCEPT ![k] = 0]
    BY <1>2, <1>12, CoreTypes
  <2> HIDE DEF k
  <2>2. /\ vrp' \in Seq(Nat) /\ Len(vrp') = Len(vrp)
        /\ \A j \in 1 .. Len(vrp) : vrp'[j] = IF j = k THEN 0 ELSE vrp[j]
    BY <2>1, ExceptSeq
  <2> QED
    BY <2>2 DEF k
<1>17. UndoRedoExact' /\ StepsOK'
  <2>1. UndoRedoExact'
    BY <1>2, <1>3, <1>14 DEF UndoRedoExact
  <2>2. StepsOK'
    BY <1>2 DEF Core, StreamsMatchSteps, StepsOK
  <2> QED
    BY <2>1, <2>2
<1>18. UndoStreamOK'
  BY <1>2, <1>3, <1>14 DEF Core, StreamsMatchSteps, UndoStreamOK
<1>19. \A i \in c + 2 .. Len(vrp) : vrp'[i] = vrp[i] /\ vrp[i] \in Nat /\ vrp[i] <= vrp[c + 2]
  <2> TAKE i \in c + 2 .. Len(vrp)
  <2>1. /\ i \in 1 .. Len(vrp) /\ i # c + 1 /\ c + 2 <= i
        /\ i \in cur_step + 1 .. Len(vrp) /\ c + 2 \in cur_step + 1 .. Len(vrp)
    BY <1>1
  <2>2. vrp[i] <= vrp[c + 2]
    BY <2>1 DEF Core, StreamsMatchSteps, RedoStreamOK
  <2> QED
    BY <1>8, <1>16, <2>1, <2>2
<1>20. RedoStreamOK'
  <2>1. cur_step' + 1 = c + 2 /\ Len(vrp') = Len(vrp)
    BY <1>2, <1>3, <1>16
  <2>2. vrp'[c + 2] = Len(redo')
    BY <1>1, <1>15, <1>19
  <2>3. vrp'[Len(vrp')] = 0
    <3>1. Len(vrp) \in c + 2 .. Len(vrp) /\ vrp[Len(vrp)] = 0
      BY <1>1 DEF Core, StreamsMatchSteps, RedoStreamOK
    <3> QED
      BY <1>19, <2>1, <3>1
  <2>4. ASSUME NEW i \in c + 2 .. Len(vrp), NEW j \in c + 2 .. Len(vrp), i <= j
        PROVE  vrp'[j] <= vrp'[i]
    <3>1. i \in cur_step + 1 .. Len(vrp) /\ j \in cur_step + 1 .. Len(vrp)
      BY <1>1
    <3>2. vrp[j] <= vrp[i]
      BY <2>4, <3>1 DEF Core, StreamsMatchSteps, RedoStreamOK
    <3> QED
      BY <1>19, <3>2
  <2>5. ASSUME NEW i \in c + 2 .. Len(steps)
        PROVE  IF steps[i].len > 0 THEN vrp'[i + 1] = vrp'[i]
               ELSE /\ vrp'[i] = vrp'[i + 1] - steps[i].len
                    /\ SubSeq(redo', vrp'[i + 1] + 1, vrp'[i])
                         = Slice(ver[i + 1], steps[i].off, -steps[i].len)
    <3>1. /\ i \in c + 2 .. Len(vrp) /\ i + 1 \in c + 2 .. Len(vrp)
          /\ i \in cur_step + 1 .. Len(steps)
      BY <1>1
    <3>2. /\ vrp'[i] = vrp[i] /\ vrp[i] \in Nat /\ vrp[i] <= vrp[c + 2]
          /\ vrp'[i + 1] = vrp[i + 1] /\ vrp[i + 1] \in Nat
      BY <1>19, <3>1
    <3>3. SubSeq(redo', vrp[i + 1] + 1, vrp[i]) = SubSeq(redo, vrp[i + 1] + 1, vrp[i])
      <4> DEFINE m == vrp[i + 1] + 1
                 n == vrp[i]
                 k == vrp[c + 2]
      <4>1. m \in Nat \ {0} /\ n \in Nat /\ n <= k
        BY <3>2
      <4>2. k \in Nat /\ k <= Len(redo) /\ redo' = SubSeq(redo, 1, k)
        BY <1>13, <1>14
      <4>3. redo \in Seq(Char)
        BY CoreTypes
      <4> HIDE DEF m, n, k
      <4>4. SubSeq(SubSeq(redo, 1, k), m, n) = SubSeq(redo, m, n)
        BY <4>1, <4>2, <4>3, SubSeqOfPrefix
      <4> QED
        BY <4>2, <4>4 DEF m, n
    <3>4. IF steps[i].len > 0 THEN vrp[i + 1] = vrp[i]
          ELSE /\ vrp[i] = vrp[i + 1] - steps[i].len
               /\ SubSeq(redo, vrp[i + 1] + 1, vrp[i])
                    = Slice(ver[i + 1], steps[i].off, -steps[i].len)
      BY <3>1 DEF Core, StreamsMatchSteps, RedoStreamOK
    <3> QED
      BY <3>2, <3>3, <3>4
  <2> QED
    BY <1>2, <2>1, <2>2, <2>3, <2>4, <2>5 DEF RedoStreamOK
<1>21. cur_step' \in 0 .. Len(steps') /\ cur_stream' \in 0 .. Len(streams')
  <2>1. cur_step' \in 0 .. Len(steps')
    BY <1>1, <1>2
  <2>2. vsp[c + 2] \in Nat
    BY <1>1, <1>8, <1>12
  <2>3. vsp[c + 2] <= vsp[Len(vsp)]
    <3>1. c + 2 \in 1 .. Len(vsp) /\ Len(vsp) \in 1 .. Len(vsp) /\ c + 2 <= Len(vsp)
      BY <1>1
    <3> QED
      BY <3>1 DEF Core, StreamsMatchSteps, UndoStreamOK
  <2>4. vsp[Len(vsp)] = Len(streams)
    BY DEF Core, StreamsMatchSteps, UndoStreamOK
  <2>5. cur_stream' \in Nat /\ cur_stream' <= Len(streams)
    BY <1>14, <2>2, <2>3, <2>4
  <2>6. streams' = streams /\ Len(streams) \in Nat
    BY <1>2, CoreTypes
  <2> QED
    BY <2>1, <2>5, <2>6
<1> QED
  BY <1>2, <1>7, <1>14, <1>15, <1>16, <1>17, <1>18, <1>20, <1>21, CoreTypes
     DEF Core, StreamsMatchSteps

(* IInv holds of a document just loaded.                                   *)
THEOREM InitIInv == Init => IInv
<1> SUFFICES ASSUME Init PROVE IInv
  OBVIOUS
<1>1. /\ ver \in Seq(Seq(Char)) /\ Len(ver) = 1 /\ ver[1] = Text0
      /\ vsp \in Seq(Nat) /\ Len(vsp) = 1 /\ vsp[1] = 0
      /\ vrp \in Seq(Nat) /\ Len(vrp) = 1 /\ vrp[1] = 0
  BY TextAssumption, One DEF Init
<1>2. /\ steps \in Seq(Step) /\ streams \in Seq(Char) /\ redo \in Seq(Char)
      /\ Len(steps) = 0 /\ Len(streams) = 0 /\ Len(redo) = 0
  BY EmptySeq DEF Init
<1>3. /\ text \in Seq(Char) /\ saved \in Seq(Char)
      /\ cur_step = 0 /\ cur_stream = 0 /\ last_save_step = 0
      /\ link_undos = 0 /\ busy = 0
      /\ atomic_undo \in BOOLEAN /\ do_undo \in BOOLEAN
      /\ read_only \in BOOLEAN /\ is_modified \in BOOLEAN
      /\ mode \in Modes
  BY TextAssumption DEF Init, Modes
<1>4. UndoRedoExact /\ StepsOK /\ UndoStreamOK /\ RedoStreamOK
  BY <1>1, <1>2 DEF Init, UndoRedoExact, StepsOK, UndoStreamOK, RedoStreamOK
<1>5. LoopInBounds /\ OffIsEmpty
  BY DEF Init, LoopInBounds, OffIsEmpty
<1> QED
  BY <1>1, <1>2, <1>3, <1>4, <1>5 DEF IInv, Core, Flags, StreamsMatchSteps

(* The invariant contains the types of the variables.                      *)
LEMMA IInvTypes == IInv => TypeOK
  BY DEF IInv, Core, Flags, TypeOK

(* Core is about the text and the undo buffer only.                        *)
LEMMA FrameKeepsCore ==
  ASSUME Core, UNCHANGED <<text, stepVars>>
  PROVE  Core'
<1>1. /\ text' = text /\ steps' = steps /\ cur_step' = cur_step /\ streams' = streams
      /\ cur_stream' = cur_stream /\ redo' = redo
      /\ ver' = ver /\ vsp' = vsp /\ vrp' = vrp
  BY DEF stepVars, history
<1>2. UndoRedoExact' /\ StepsOK' /\ UndoStreamOK' /\ RedoStreamOK'
  BY <1>1 DEF Core, UndoRedoExact, StreamsMatchSteps, StepsOK, UndoStreamOK, RedoStreamOK
<1> QED
  BY <1>1, <1>2 DEF Core, StreamsMatchSteps

(* The flags of a command that leaves the undo buffer and the chains alone. *)
LEMMA FrameKeepsLoops ==
  ASSUME LoopInBounds, OffIsEmpty, UNCHANGED <<steps, cur_step, mode, do_undo>>
  PROVE  LoopInBounds' /\ OffIsEmpty'
  BY DEF LoopInBounds, OffIsEmpty

(* The streams the user inserts.                                           *)
LEMMA StreamsAreTexts ==
  ASSUME NEW s \in Streams
  PROVE  s \in Seq(Char) /\ Len(s) \in Nat \ {0}
<1>1. PICK n \in 1 .. MaxIns : s \in [1 .. n -> Char]
  BY DEF Streams
<1>2. n \in Nat \ {0}
  BY BoundAssumption
<1> QED
  BY <1>1, <1>2

(* Recording a step keeps the flags and the loops in order.                *)
LEMMA RecordKeepsFlags ==
  ASSUME IInv, Core', mode = "idle", do_undo,
         NEW o \in Nat, NEW n \in Int, NEW bytes, NEW t, add_undo_step(o, n, bytes, t),
         is_modified' = TRUE, UNCHANGED <<chainVars, optVars, saved, mode>>
  PROVE  Flags' /\ LoopInBounds' /\ OffIsEmpty'
<1>1. /\ link_undos' = link_undos /\ atomic_undo' = atomic_undo /\ busy' = busy
      /\ do_undo' = do_undo /\ read_only' = read_only /\ saved' = saved /\ mode' = mode
  BY DEF chainVars, optVars
<1>2. last_save_step' \in -1 .. Len(steps')
  <2>1. /\ last_save_step' = IF last_save_step > cur_step THEN -1 ELSE last_save_step
        /\ cur_step' = cur_step + 1
    BY DEF add_undo_step
  <2>2. cur_step \in Nat /\ last_save_step \in Int /\ last_save_step >= -1
    BY CoreTypes DEF IInv, Flags
  <2>3. cur_step' \in 0 .. Len(steps') /\ steps' \in Seq(Step)
    BY DEF Core
  <2>4. Len(steps') \in Nat
    BY <2>3, LenProperties
  <2> QED
    BY <2>1, <2>2, <2>3, <2>4
<1> QED
  BY <1>1, <1>2 DEF IInv, Flags, LoopInBounds, OffIsEmpty

(* Editing without recording keeps them too.                               *)
LEMMA SkipKeepsFlags ==
  ASSUME IInv, NEW t, skip_undo_step(t),
         is_modified' = TRUE, UNCHANGED <<chainVars, optVars, saved, mode>>
  PROVE  Flags' /\ LoopInBounds' /\ OffIsEmpty'
  BY DEF IInv, Flags, LoopInBounds, OffIsEmpty, skip_undo_step, chainVars, optVars

(* insert_stream() keeps the invariant.                                    *)
LEMMA InsertIInv ==
  ASSUME IInv, NEW s \in Streams, NEW o \in 0 .. Len(text), InsertStream(o, s)
  PROVE  IInv'
<1>1. /\ text' = Insert(text, o, s) /\ mode = "idle" /\ is_modified' = TRUE
      /\ UNCHANGED <<chainVars, optVars, saved, mode>>
  BY DEF InsertStream
<1>2. s \in Seq(Char) /\ Len(s) \in Nat \ {0}
  BY StreamsAreTexts
<1>3. Core /\ text \in Seq(Char) /\ o \in Nat /\ o <= Len(text) /\ Len(text) \in Nat
  BY CoreTypes DEF IInv
<1> DEFINE t == Insert(text, o, s)
<1>4. t \in Seq(Char) /\ Len(t) = Len(text) + Len(s)
  <2>1. s \in Seq(Char) /\ text \in Seq(Char) /\ o \in Nat /\ o <= Len(text)
    BY <1>2, <1>3
  <2>2. /\ Insert(text, o, s) \in Seq(Char)
        /\ Len(Insert(text, o, s)) = Len(text) + Len(s)
    BY ONLY <2>1, InsertType
  <2> QED
    BY <2>2
<1>5. text = Delete(t, o, Len(s))
  BY <1>2, <1>3, DeleteUndoesInsert
<1> HIDE DEF t
<1>6. CASE do_undo
  <2> DEFINE n == -Len(s)
  <2>1. n \in Int /\ n < 0 /\ -n = Len(s) /\ o - n <= Len(t)
    BY <1>2, <1>3, <1>4
  <2>2. add_undo_step(o, n, << >>, t)
    BY <1>1, <1>6 DEF InsertStream, t
  <2>3. << >> \in Seq(Char) /\ text' = t
    BY <1>1, EmptySeq DEF t
  <2>4. /\ n # 0 /\ ~(n > 0)
        /\ text = Delete(t, o, -n)
    BY <1>5, <2>1
  <2> HIDE DEF n
  <2>5. Core'
    BY <1>3, <1>4, <2>1, <2>2, <2>3, <2>4, RecordKeepsCore
  <2>6. Flags' /\ LoopInBounds' /\ OffIsEmpty'
    BY <1>1, <1>3, <1>6, <2>1, <2>2, <2>5, RecordKeepsFlags
  <2> QED
    BY <2>5, <2>6 DEF IInv
<1>7. CASE ~do_undo
  <2>1. skip_undo_step(t) /\ text' = t
    BY <1>1, <1>7 DEF InsertStream, t
  <2>2. steps = << >>
    BY <1>7 DEF IInv, OffIsEmpty
  <2>3. Core'
    BY <1>3, <1>4, <2>1, <2>2, SkipKeepsCore
  <2>4. Flags' /\ LoopInBounds' /\ OffIsEmpty'
    BY <1>1, <2>1, SkipKeepsFlags
  <2> QED
    BY <2>3, <2>4 DEF IInv
<1> QED
  BY <1>6, <1>7

(* delete_stream() keeps the invariant.                                    *)
LEMMA DeleteIInv ==
  ASSUME IInv, NEW o \in 0 .. Len(text), NEW k \in 1 .. MaxIns, DeleteStream(o, k)
  PROVE  IInv'
<1>1. /\ o < Len(text) /\ text' = Delete(text, o, k) /\ mode = "idle" /\ is_modified' = TRUE
      /\ UNCHANGED <<chainVars, optVars, saved, mode>>
  BY DEF DeleteStream
<1>2. Core /\ text \in Seq(Char) /\ o \in Nat /\ Len(text) \in Nat
  BY CoreTypes DEF IInv
<1>3. k \in Nat \ {0}
  BY BoundAssumption
<1>4. PICK n \in Nat \ {0} : /\ o + n <= Len(text)
                             /\ Delete(text, o, k) = Delete(text, o, n)
                             /\ Slice(text, o, k) = Slice(text, o, n)
  BY <1>1, <1>2, <1>3, DeleteStops
<1> DEFINE t == Delete(text, o, n)
           bytes == Slice(text, o, n)
<1>5. n \in Nat /\ n \in Int /\ n > 0 /\ n # 0 /\ ~(n < 0)
  OBVIOUS
<1>6. t \in Seq(Char)
  BY <1>2, <1>4, <1>5, DeleteType
<1>7. bytes \in Seq(Char) /\ Len(bytes) = n
  BY <1>2, <1>4, <1>5, SliceType
<1>8. text' = t
  BY <1>1, <1>4
<1>9. IF do_undo THEN add_undo_step(o, Len(bytes), bytes, text') ELSE skip_undo_step(text')
  BY <1>4 DEF DeleteStream
<1>10. o + n <= Len(text) /\ t = Delete(text, o, n) /\ bytes = Slice(text, o, n)
  BY <1>4
<1> HIDE DEF t, bytes
<1>11. CASE do_undo
  <2>1. add_undo_step(o, n, bytes, t)
    BY <1>7, <1>8, <1>9, <1>11
  <2>2. Core'
    BY <1>2, <1>5, <1>6, <1>7, <1>8, <1>10, <2>1, RecordKeepsCore
  <2>3. Flags' /\ LoopInBounds' /\ OffIsEmpty'
    BY <1>1, <1>2, <1>5, <1>11, <2>1, <2>2, RecordKeepsFlags
  <2> QED
    BY <2>2, <2>3 DEF IInv
<1>12. CASE ~do_undo
  <2>1. skip_undo_step(t)
    BY <1>8, <1>9, <1>12
  <2>2. steps = << >>
    BY <1>12 DEF IInv, OffIsEmpty
  <2>3. Core'
    BY <1>2, <1>6, <1>8, <2>1, <2>2, SkipKeepsCore
  <2>4. Flags' /\ LoopInBounds' /\ OffIsEmpty'
    BY <1>1, <2>1, SkipKeepsFlags
  <2> QED
    BY <2>3, <2>4 DEF IInv
<1> QED
  BY <1>11, <1>12

(* Closing a chain to depth n keeps the number of steps, and an empty undo *)
(* buffer stays empty.                                                     *)
LEMMA CloseKeepsSteps ==
  ASSUME Core, NEW n, CloseChain(n)
  PROVE  Len(steps') = Len(steps) /\ (steps = << >> => steps' = << >>)
<1>1. CASE n = 0 /\ cur_step > 0
  <2>1. steps' = [steps EXCEPT ![cur_step].linked = FALSE]
    BY <1>1 DEF CloseChain, Unlink
  <2>2. Len(steps) > 0 /\ steps \in Seq(Step)
    BY <1>1, CoreTypes
  <2>3. steps # << >>
    BY <2>2, EmptySeq
  <2> DEFINE e == [steps[cur_step] EXCEPT !.linked = FALSE]
  <2>4. steps' = [steps EXCEPT ![cur_step] = e]
    BY <2>1
  <2> HIDE DEF e
  <2>5. Len(steps') = Len(steps)
    BY <2>2, <2>4
  <2> QED
    BY <2>3, <2>5
<1>2. CASE ~(n = 0 /\ cur_step > 0)
  BY <1>2 DEF CloseChain
<1> QED
  BY <1>1, <1>2

(* A step that closes a chain, or leaves the steps alone, and otherwise    *)
(* changes flags only.                                                     *)
LEMMA ChainKeepsIInv ==
  ASSUME IInv, NEW n \in Int, CloseChain(n) \/ UNCHANGED steps,
         UNCHANGED <<text, cur_step, streams, cur_stream, redo, history,
                     saved, last_save_step, is_modified, optVars>>,
         link_undos' \in Nat, busy' \in 0 .. link_undos', atomic_undo' \in BOOLEAN,
         mode = "idle", mode' \in {"idle", "undo", "redo"}
  PROVE  IInv'
<1>1. Core'
  <2>1. CASE CloseChain(n)
    BY <2>1, CloseKeepsCore DEF IInv
  <2>2. CASE UNCHANGED steps
    BY <2>2, FrameKeepsCore DEF IInv, stepVars
  <2> QED
    BY <2>1, <2>2
<1>2. Len(steps') = Len(steps) /\ (steps = << >> => steps' = << >>)
  BY CloseKeepsSteps DEF IInv
<1>3. Flags'
  BY <1>2 DEF IInv, Flags, optVars, Modes
<1>4. LoopInBounds' /\ OffIsEmpty'
  BY <1>2 DEF IInv, LoopInBounds, OffIsEmpty, optVars
<1> QED
  BY <1>1, <1>3, <1>4 DEF IInv

(* Every step of the system keeps the invariant.                           *)
LEMMA NextIInv == IInv /\ [Next]_vars => IInv'
<1> SUFFICES ASSUME IInv, [Next]_vars PROVE IInv'
  OBVIOUS
<1>0. /\ Core /\ Flags /\ LoopInBounds /\ OffIsEmpty
      /\ cur_step \in Nat /\ cur_step <= Len(steps) /\ Len(steps) \in Nat
      /\ text \in Seq(Char)
  BY CoreTypes DEF IInv
<1>1. CASE Edit
  BY <1>1, InsertIInv, DeleteIInv DEF Edit
<1>2. CASE StartChain
  <2>1. link_undos' = link_undos + 1 /\ busy' = busy + 1
    BY <1>2 DEF StartChain
  <2>2. link_undos' \in Nat /\ busy' \in 0 .. link_undos' /\ atomic_undo \in BOOLEAN
    BY <1>0, <2>1 DEF Flags
  <2> QED
    BY <1>2, <2>2, ChainKeepsIInv DEF StartChain, stepVars, fileVars
<1>3. CASE EndChain
  <2> DEFINE n == link_undos - 1
  <2>1. link_undos' = n /\ busy' = busy - 1 /\ busy > 0 /\ CloseChain(n)
    BY <1>3 DEF EndChain
  <2>2. n \in Int /\ link_undos' \in Nat /\ busy' \in 0 .. link_undos' /\ atomic_undo \in BOOLEAN
    BY <1>0, <2>1 DEF Flags
  <2> HIDE DEF n
  <2> QED
    BY <1>3, <2>1, <2>2, ChainKeepsIInv DEF EndChain, fileVars
<1>4. ASSUME NEW c \in 0 .. MaxLink, AtomicUndo(c)
      PROVE  IInv'
  <2>1. /\ link_undos' = c /\ busy' = busy /\ busy = 0 /\ atomic_undo' \in BOOLEAN
        /\ CloseChain(c) \/ UNCHANGED steps
    BY <1>4 DEF AtomicUndo, AtPrompt
  <2>2. link_undos' \in Nat /\ c \in Int /\ busy' \in 0 .. link_undos'
    BY <2>1, BoundAssumption
  <2> QED
    BY <1>4, <2>1, <2>2, ChainKeepsIInv DEF AtomicUndo, AtPrompt, fileVars
<1>5. CASE UndoBegin
  <2>1. /\ CloseChain(0) \/ UNCHANGED steps
        /\ busy' = busy /\ busy = 0
        /\ link_undos' \in Nat /\ atomic_undo' \in BOOLEAN
    <3>1. /\ CloseChain(0) \/ UNCHANGED steps
          /\ busy' = busy /\ busy = 0
          /\ link_undos' = 0 \/ link_undos' = link_undos
          /\ atomic_undo' = FALSE \/ atomic_undo' = atomic_undo
      BY <1>5 DEF UndoBegin, AtPrompt
    <3>2. link_undos \in Nat /\ atomic_undo \in BOOLEAN
      BY <1>0 DEF Flags
    <3>3. link_undos' \in Nat
      BY <3>1, <3>2
    <3>4. atomic_undo' \in BOOLEAN
      BY <3>1, <3>2, Zenon
    <3> QED
      BY <3>1, <3>3, <3>4
  <2>2. busy' \in 0 .. link_undos'
    BY <2>1
  <2> QED
    BY <1>5, <2>1, <2>2, ChainKeepsIInv DEF UndoBegin, AtPrompt, fileVars
<1>6. CASE RedoBegin
  <2>1. /\ link_undos' \in Nat /\ atomic_undo' \in BOOLEAN /\ busy' \in 0 .. link_undos'
        /\ UNCHANGED steps
    BY <1>0, <1>6 DEF RedoBegin, Flags, chainVars, stepVars
  <2> QED
    BY <1>6, <2>1, ChainKeepsIInv DEF RedoBegin, AtPrompt, fileVars, stepVars, chainVars
<1>7. CASE UndoStep
  <2>1. Core'
    BY <1>0, <1>7, UndoKeepsCore
  <2>2. /\ is_modified' = TRUE /\ steps' = steps /\ cur_step' = cur_step - 1
        /\ mode' = IF cur_step' > 0 /\ Linked(cur_step') THEN "undoing" ELSE "undo"
        /\ UNCHANGED <<chainVars, optVars, saved, last_save_step>>
    BY <1>7 DEF UndoStep
  <2>3. Flags'
    BY <1>0, <2>2 DEF Flags, Modes, chainVars, optVars
  <2>4. LoopInBounds' /\ OffIsEmpty'
    BY <1>0, <2>2 DEF LoopInBounds, OffIsEmpty, optVars
  <2> QED
    BY <2>1, <2>3, <2>4 DEF IInv
<1>8. CASE RedoStep
  <2>1. Core'
    BY <1>0, <1>8, RedoKeepsCore
  <2>2. /\ is_modified' = TRUE /\ steps' = steps /\ cur_step' = cur_step + 1
        /\ mode' = IF cur_step' < Len(steps) /\ Linked(cur_step') THEN "redoing" ELSE "redo"
        /\ UNCHANGED <<chainVars, optVars, saved, last_save_step>>
    BY <1>8 DEF RedoStep
  <2>3. Flags'
    BY <1>0, <2>2 DEF Flags, Modes, chainVars, optVars
  <2>4. LoopInBounds' /\ OffIsEmpty'
    BY <1>0, <2>2 DEF LoopInBounds, OffIsEmpty, optVars
  <2> QED
    BY <2>1, <2>3, <2>4 DEF IInv
<1>9. CASE UndoEnd \/ RedoEnd
  <2>1. Core'
    BY <1>0, <1>9, FrameKeepsCore DEF UndoEnd, RedoEnd
  <2>2. Flags' /\ LoopInBounds' /\ OffIsEmpty'
    BY <1>0, <1>9 DEF UndoEnd, RedoEnd, Flags, LoopInBounds, OffIsEmpty, Modes,
                      stepVars, chainVars, optVars
  <2> QED
    BY <2>1, <2>2 DEF IInv
<1>10. ASSUME UNCHANGED <<text, stepVars, chainVars, do_undo, mode>>,
              saved' \in Seq(Char), last_save_step' \in {cur_step, last_save_step},
              is_modified' \in BOOLEAN, read_only' \in BOOLEAN
       PROVE  IInv'
  <2>1. Core'
    BY <1>0, <1>10, FrameKeepsCore
  <2>2. Flags' /\ LoopInBounds' /\ OffIsEmpty'
    BY <1>0, <1>10 DEF Flags, LoopInBounds, OffIsEmpty, stepVars, chainVars
  <2> QED
    BY <2>1, <2>2 DEF IInv
<1>11. CASE Save \/ SaveCancelled \/ SaveAll
  BY <1>0, <1>10, <1>11 DEF Save, SaveCancelled, SaveAll, Flags, optVars
<1>12. ASSUME NEW k \in 0 .. Len(text), SaveFailed(k)
       PROVE  IInv'
  <2>1. k \in Nat /\ k <= Len(text)
    BY <1>0, LenProperties
  <2>2. SubSeq(text, 1, k) \in Seq(Char)
    BY <1>0, <2>1, SubSeqOfSeq
  <2> QED
    BY <1>0, <1>10, <1>12, <2>2 DEF SaveFailed, Flags, optVars
<1>13. ASSUME NEW t \in Seq(Char), text' = t, reset_undo_buffer(t), saved' \in Seq(Char),
              mode = "idle", atomic_undo' \in BOOLEAN, do_undo' \in BOOLEAN, is_modified' \in BOOLEAN,
              UNCHANGED <<link_undos, busy, read_only, mode>>
       PROVE  IInv'
  <2>1. Core'
    BY <1>13, ResetKeepsCore
  <2>2. steps' = << >> /\ cur_step' = 0 /\ last_save_step' = 0
    BY <1>13 DEF reset_undo_buffer
  <2>3. Len(steps') = 0
    BY <2>2, EmptySeq
  <2>4. Flags' /\ LoopInBounds' /\ OffIsEmpty'
    BY <1>0, <1>13, <2>2, <2>3 DEF Flags, LoopInBounds, OffIsEmpty, Modes
  <2> QED
    BY <2>1, <2>4 DEF IInv
<1>14. ASSUME NEW c \in BOOLEAN, DoUndo(c)
       PROVE  IInv'
  <2>1. CASE c
    <3>1. Core'
      BY <1>0, <1>14, <2>1, FrameKeepsCore DEF DoUndo
    <3>2. Flags' /\ LoopInBounds' /\ OffIsEmpty'
      BY <1>0, <1>14, <2>1 DEF DoUndo, Flags, LoopInBounds, OffIsEmpty, stepVars, history
    <3> QED
      BY <3>1, <3>2 DEF IInv
  <2>2. CASE ~c
    <3>1. /\ text' = text /\ reset_undo_buffer(text) /\ saved' = saved /\ mode = "idle"
          /\ atomic_undo' = FALSE /\ do_undo' = c /\ is_modified' = is_modified
          /\ UNCHANGED <<link_undos, busy, read_only, mode>>
      BY <1>14, <2>2 DEF DoUndo, AtPrompt
    <3> QED
      BY <1>0, <1>13, <3>1 DEF Flags
  <2> QED
    BY <2>1, <2>2
<1>15. CASE UTF8
  <2>1. /\ text' = text /\ reset_undo_buffer(text) /\ saved' = saved /\ mode = "idle"
        /\ atomic_undo' = atomic_undo /\ do_undo' = do_undo /\ is_modified' = is_modified
        /\ UNCHANGED <<link_undos, busy, read_only, mode>>
    BY <1>15 DEF UTF8, AtPrompt, chainVars, optVars
  <2> QED
    BY <1>0, <1>13, <2>1 DEF Flags
<1>16. CASE Clear
  <2>1. /\ text' = << >> /\ reset_undo_buffer(<< >>) /\ saved' = << >> /\ mode = "idle"
        /\ atomic_undo' = atomic_undo /\ do_undo' = do_undo /\ is_modified' = FALSE
        /\ UNCHANGED <<link_undos, busy, read_only, mode>>
    BY <1>16 DEF Clear, AtPrompt, chainVars, optVars
  <2>2. << >> \in Seq(Char)
    BY EmptySeq
  <2> QED
    BY <1>0, <1>13, <2>1, <2>2 DEF Flags
<1>17. ASSUME NEW c \in BOOLEAN, Modified(c) \/ ReadOnly(c)
       PROVE  IInv'
  BY <1>0, <1>10, <1>17 DEF Modified, ReadOnly, Flags, optVars, fileVars
<1>18. CASE UNCHANGED vars
  BY <1>0, <1>10, <1>18 DEF vars, fileVars, optVars, Flags
<1> QED
  BY <1>1, <1>2, <1>3, <1>4, <1>5, <1>6, <1>7, <1>8, <1>9, <1>11, <1>12, <1>14, <1>15,
     <1>16, <1>17, <1>18 DEF Next, Loop

(* IInv is an invariant.                                                   *)
THEOREM Invariance == Spec => []IInv
<1>1. Init => IInv
  BY InitIInv
<1>2. IInv /\ [Next]_vars => IInv'
  BY NextIInv
<1> QED
  BY <1>1, <1>2, PTL DEF Spec

(* The types of every variable of the undo system and of the flags.        *)
THEOREM TypeCorrect == Spec => []TypeOK
<1>1. IInv => TypeOK
  BY IInvTypes
<1> QED
  BY <1>1, Invariance, PTL

(* undo() and redo() bring back the exact text, for documents, streams,    *)
(* chains and histories of any size.                                       *)
THEOREM UndoAndRedoAreExact == Spec => []UndoRedoExact
<1>1. IInv => UndoRedoExact
  BY DEF IInv, Core
<1> QED
  BY <1>1, Invariance, PTL

(* The undo and redo streams always hold the bytes the steps will need, in *)
(* the order in which undo() and redo() will ask for them.                 *)
THEOREM StreamsAlwaysMatch == Spec => []StreamsMatchSteps
<1>1. IInv => StreamsMatchSteps
  BY DEF IInv, Core
<1> QED
  BY <1>1, Invariance, PTL
-----------------------------------------------------------------------------
(* Chains.  A step is linked to the next one only inside a chain: between  *)
(* two chains, and where undo() and redo() stop, the last step done is the *)
(* last of its chain, and the last step of all is linked only while its    *)
(* chain is open.                                                          *)
ChainInv ==
  /\ mode \in {"idle", "undo", "redo"} => cur_step = 0 \/ link_undos > 0 \/ ~Linked(cur_step)
  /\ Len(steps) > 0 /\ Linked(Len(steps)) =>
       link_undos > 0 /\ cur_step = Len(steps) /\ mode \in {"idle", "redo"}
  /\ mode \in {"undo", "undoing"} => link_undos = 0
  /\ mode # "idle" => busy = 0
  /\ atomic_undo <=> link_undos > busy

(* The commands under which the modified flag can be trusted.              *)
FlagCommands == {"AtomicUndo", "Save", "Clear", "ReadOnly"}

(* The modified flag and the saved step, with what UNDO_A relies on.       *)
SaveInv ==
  /\ ModifiedSound
  /\ SaveStepSound
  /\ mode # "idle" => do_undo
-----------------------------------------------------------------------------
(* The types of the variables that the flags are about.                    *)
LEMMA FlagTypes ==
  ASSUME IInv
  PROVE  /\ steps \in Seq(Step) /\ Len(steps) \in Nat
         /\ cur_step \in Nat /\ cur_step <= Len(steps)
         /\ last_save_step \in Int /\ last_save_step <= Len(steps)
         /\ link_undos \in Nat /\ busy \in Nat /\ busy <= link_undos
         /\ Len(ver) = Len(steps) + 1
<1>1. Core /\ Flags
  BY DEF IInv
<1>2. /\ steps \in Seq(Step) /\ Len(steps) \in Nat
      /\ cur_step \in Nat /\ cur_step <= Len(steps)
      /\ Len(ver) = Len(steps) + 1
  BY <1>1, CoreTypes
<1>3. /\ last_save_step \in Int /\ last_save_step <= Len(steps)
      /\ link_undos \in Nat /\ busy \in Nat /\ busy <= link_undos
  BY <1>1, <1>2 DEF Flags
<1> QED
  BY <1>2, <1>3

(* What closing a chain does to the links: only that of the last step done *)
(* may go.                                                                 *)
LEMMA CloseChainLinks ==
  ASSUME Core, NEW n, CloseChain(n)
  PROVE  /\ Len(steps') = Len(steps)
         /\ n = 0 /\ cur_step > 0 => ~steps'[cur_step].linked
         /\ \A i \in 1 .. Len(steps) : i # cur_step => steps'[i] = steps[i]
         /\ ~(n = 0 /\ cur_step > 0) => steps' = steps
<1>1. CASE n = 0 /\ cur_step > 0
  <2> DEFINE e == [steps[cur_step] EXCEPT !.linked = FALSE]
  <2>1. cur_step \in 1 .. Len(steps) /\ steps \in Seq(Step)
    BY <1>1, CoreTypes
  <2>2. steps[cur_step] \in Step
    BY <2>1, ElementOfSeq
  <2>3. e \in Step /\ ~e.linked
    BY <2>2 DEF Step
  <2>4. steps' = [steps EXCEPT ![cur_step] = e]
    BY <1>1 DEF CloseChain, Unlink
  <2> HIDE DEF e
  <2>5. /\ Len(steps') = Len(steps)
        /\ \A i \in 1 .. Len(steps) : steps'[i] = IF i = cur_step THEN e ELSE steps[i]
    BY <2>1, <2>3, <2>4, ExceptSeq
  <2> QED
    BY <1>1, <2>1, <2>3, <2>5
<1>2. CASE ~(n = 0 /\ cur_step > 0)
  BY <1>2 DEF CloseChain
<1> QED
  BY <1>1, <1>2

(* A document just loaded has no chain.                                    *)
LEMMA InitChainInv == Init => ChainInv
<1> SUFFICES ASSUME Init PROVE ChainInv
  OBVIOUS
<1>1. /\ cur_step = 0 /\ Len(steps) = 0 /\ mode = "idle" /\ link_undos = 0 /\ busy = 0
      /\ atomic_undo = FALSE
  BY EmptySeq DEF Init
<1> QED
  BY <1>1 DEF ChainInv

(* A new step is linked exactly when a chain is open.                      *)
LEMMA RecordKeepsChains ==
  ASSUME IInv, ChainInv, mode = "idle",
         NEW o, NEW n, NEW bytes, NEW t, o \in Nat, n \in Int, add_undo_step(o, n, bytes, t),
         UNCHANGED <<chainVars, mode>>
  PROVE  ChainInv'
<1> DEFINE st == [off |-> o, len |-> n, linked |-> link_undos # 0]
<1>1. /\ steps' = Append(SubSeq(steps, 1, cur_step), st) /\ cur_step' = cur_step + 1
      /\ link_undos' = link_undos /\ atomic_undo' = atomic_undo /\ busy' = busy /\ mode' = mode
  BY DEF add_undo_step, chainVars
<1>2. /\ steps \in Seq(Step) /\ cur_step \in Nat /\ cur_step <= Len(steps)
      /\ link_undos \in Nat
  BY FlagTypes
<1>3. st \in Step /\ (st.linked <=> link_undos # 0)
  BY DEF Step
<1> HIDE DEF st
<1>4. Len(steps') = cur_step + 1 /\ steps'[cur_step + 1] = st
  BY <1>1, <1>2, <1>3, KeepAndAppend
<1>5. steps'[cur_step'].linked <=> link_undos # 0
  BY <1>1, <1>3, <1>4
<1>6. link_undos > 0 \/ ~steps'[cur_step'].linked
  BY <1>2, <1>5
<1>7. /\ link_undos' > 0 \/ ~Linked(cur_step)'
      /\ cur_step' = Len(steps')
  BY <1>1, <1>4, <1>6 DEF Linked
<1>8. atomic_undo' <=> link_undos' > busy'
  BY <1>1 DEF ChainInv
<1>9. mode' = "idle"
  BY <1>1
<1> QED
  BY <1>7, <1>8, <1>9 DEF ChainInv, Linked

(* A step that leaves the links, the depth and the loops alone.            *)
LEMMA FrameKeepsChains ==
  ASSUME ChainInv, UNCHANGED <<steps, cur_step, chainVars, mode>>
  PROVE  ChainInv'
  BY DEF ChainInv, Linked, chainVars

(* A reset leaves no step to be linked.                                    *)
LEMMA ResetKeepsChains ==
  ASSUME ChainInv, NEW t, reset_undo_buffer(t), UNCHANGED <<chainVars, mode>>
  PROVE  ChainInv'
<1>1. Len(steps') = 0 /\ cur_step' = 0
  BY EmptySeq DEF reset_undo_buffer
<1> QED
  BY <1>1 DEF ChainInv, chainVars

(* Every step but DoUndo keeps the chains in order.                        *)
LEMMA NextChainInv ==
  ASSUME "DoUndo" \notin Commands
  PROVE  IInv /\ ChainInv /\ [Next]_vars => ChainInv'
<1> SUFFICES ASSUME IInv, ChainInv, [Next]_vars PROVE ChainInv'
  OBVIOUS
<1>0. /\ Core
      /\ steps \in Seq(Step) /\ Len(steps) \in Nat /\ cur_step \in Nat /\ cur_step <= Len(steps)
      /\ link_undos \in Nat /\ busy \in Nat /\ busy <= link_undos
  BY FlagTypes DEF IInv
<1>1. ASSUME NEW s \in Streams, NEW o \in 0 .. Len(text), InsertStream(o, s)
      PROVE  ChainInv'
  <2>1. o \in Nat /\ -Len(s) \in Int
    BY StreamsAreTexts
  <2>2. CASE do_undo
    BY <1>1, <2>1, <2>2, RecordKeepsChains DEF InsertStream
  <2>3. CASE ~do_undo
    BY <1>1, <2>3, FrameKeepsChains DEF InsertStream, skip_undo_step
  <2> QED
    BY <2>2, <2>3
<1>2. ASSUME NEW o \in 0 .. Len(text), NEW n \in 1 .. MaxIns, DeleteStream(o, n)
      PROVE  ChainInv'
  <2> DEFINE bytes == Slice(text, o, n)
             len == Len(bytes)
  <2>1. len \in Int
    <3>1. text \in Seq(Char) /\ o \in Nat /\ n \in Nat \ {0} /\ o < Len(text)
      BY <1>0, <1>2, BoundAssumption, CoreTypes DEF DeleteStream
    <3>2. PICK m \in Nat \ {0} : o + m <= Len(text) /\ Slice(text, o, n) = Slice(text, o, m)
      BY <3>1, DeleteStops
    <3>3. m \in Nat
      OBVIOUS
    <3> QED
      BY <3>1, <3>2, <3>3, SliceType
  <2>2. CASE do_undo
    <3>1. add_undo_step(o, len, bytes, text') /\ mode = "idle" /\ UNCHANGED <<chainVars, mode>>
      BY <1>2, <2>2 DEF DeleteStream
    <3>2. o \in Nat
      OBVIOUS
    <3> HIDE DEF len, bytes
    <3> QED
      BY <2>1, <3>1, <3>2, RecordKeepsChains
  <2>3. CASE ~do_undo
    BY <1>2, <2>3, FrameKeepsChains DEF DeleteStream, skip_undo_step
  <2> QED
    BY <2>2, <2>3
<1>3. CASE StartChain
  <2>1. /\ mode = "idle" /\ mode' = mode /\ link_undos' = link_undos + 1 /\ busy' = busy + 1
        /\ steps' = steps /\ cur_step' = cur_step /\ atomic_undo' = atomic_undo
    BY <1>3 DEF StartChain, stepVars
  <2>2. link_undos' > 0 /\ (link_undos > busy <=> link_undos' > busy')
    BY <1>0, <2>1
  <2>3. atomic_undo' <=> link_undos' > busy'
    BY <2>1, <2>2 DEF ChainInv
  <2>4. Len(steps') > 0 /\ Linked(Len(steps))' => cur_step' = Len(steps')
    BY <2>1 DEF ChainInv, Linked
  <2>5. mode' = "idle"
    BY <2>1
  <2> QED
    BY <2>2, <2>3, <2>4, <2>5 DEF ChainInv
<1>4. ASSUME NEW c \in Nat, CloseChain(c) \/ (UNCHANGED steps /\ link_undos = 0),
             mode = "idle", link_undos' = c, cur_step' = cur_step,
             atomic_undo' <=> link_undos' > busy', mode' = "idle" \/ (mode' = "undo" /\ c = 0),
             mode' # "idle" => busy' = 0
      PROVE  ChainInv'
  <2>1. /\ link_undos' > 0 \/ cur_step' = 0 \/ ~Linked(cur_step)'
        /\ Len(steps') = Len(steps)
        /\ Len(steps') > 0 /\ Linked(Len(steps))' => link_undos' > 0 /\ cur_step' = Len(steps')
    <3>1. CASE UNCHANGED steps /\ link_undos = 0
      <4>1. Len(steps) = 0 \/ ~Linked(Len(steps))
        BY <1>0, <3>1 DEF ChainInv
      <4>2. cur_step = 0 \/ ~Linked(cur_step)
        BY <1>0, <1>4, <3>1 DEF ChainInv
      <4> QED
        BY <1>4, <3>1, <4>1, <4>2 DEF Linked
    <3>2. CASE CloseChain(c) /\ c = 0 /\ cur_step > 0
      <4>1. /\ Len(steps') = Len(steps) /\ ~steps'[cur_step].linked
            /\ \A i \in 1 .. Len(steps) : i # cur_step => steps'[i] = steps[i]
        BY <1>0, <3>2, CloseChainLinks
      <4>2. CASE cur_step = Len(steps)
        BY <1>4, <4>1, <4>2 DEF Linked
      <4>3. CASE cur_step # Len(steps)
        <5>1. Len(steps) \in 1 .. Len(steps) /\ ~Linked(Len(steps))
          BY <1>0, <3>2, <4>3 DEF ChainInv
        <5> QED
          BY <1>4, <4>1, <4>3, <5>1 DEF Linked
      <4> QED
        BY <4>2, <4>3
    <3>3. CASE CloseChain(c) /\ ~(c = 0 /\ cur_step > 0)
      <4>1. steps' = steps
        BY <1>0, <3>3, CloseChainLinks
      <4>2. c > 0 \/ cur_step = 0
        BY <1>0, <3>3
      <4>3. Len(steps) > 0 /\ Linked(Len(steps)) => cur_step = Len(steps)
        BY DEF ChainInv
      <4> QED
        BY <1>0, <1>4, <4>1, <4>2, <4>3 DEF Linked
    <3> QED
      BY <1>4, <3>1, <3>2, <3>3
  <2>2. mode' \in {"undo", "undoing"} => link_undos' = 0
    BY <1>4
  <2>3. Len(steps') > 0 /\ Linked(Len(steps))' => mode' \in {"idle", "redo"}
    BY <1>4, <2>1
  <2> QED
    BY <1>4, <2>1, <2>2, <2>3 DEF ChainInv
<1>5. CASE EndChain
  <2> DEFINE c == link_undos - 1
  <2>1. /\ busy > 0 /\ mode = "idle" /\ mode' = "idle" /\ link_undos' = c /\ busy' = busy - 1
        /\ CloseChain(c) /\ atomic_undo' = atomic_undo /\ cur_step' = cur_step
    BY <1>5 DEF EndChain
  <2>2. c \in Nat /\ (link_undos > busy <=> link_undos' > busy')
    BY <1>0, <2>1
  <2>3. atomic_undo' <=> link_undos' > busy'
    BY <2>1, <2>2 DEF ChainInv
  <2> HIDE DEF c
  <2> QED
    BY <1>4, <2>1, <2>2, <2>3
<1>6. ASSUME NEW c \in 0 .. MaxLink, AtomicUndo(c)
      PROVE  ChainInv'
  <2>1. /\ mode = "idle" /\ mode' = "idle" /\ link_undos' = c /\ busy' = 0
        /\ cur_step' = cur_step
        /\ link_undos > 0 => CloseChain(c)
        /\ ~(link_undos > 0) => UNCHANGED steps
    BY <1>6 DEF AtomicUndo, AtPrompt
  <2>2. c \in Nat /\ (CloseChain(c) \/ (UNCHANGED steps /\ link_undos = 0))
    BY <1>0, <2>1, BoundAssumption
  <2>3. atomic_undo' <=> c > 0
    BY <1>6, Zenon DEF AtomicUndo
  <2>4. atomic_undo' <=> link_undos' > busy'
    BY <2>1, <2>3
  <2> QED
    BY <1>4, <2>1, <2>2, <2>4
<1>7. CASE UndoBegin
  <2>1. /\ mode = "idle" /\ busy = 0 /\ mode' = "undo" /\ busy' = busy /\ cur_step' = cur_step
    BY <1>7 DEF UndoBegin, AtPrompt
  <2>2. /\ atomic_undo => /\ link_undos' = 0 /\ ~atomic_undo'
                          /\ link_undos > 0 => CloseChain(0)
                          /\ ~(link_undos > 0) => UNCHANGED steps
        /\ ~atomic_undo => UNCHANGED <<atomic_undo, link_undos, steps>>
    BY <1>7 DEF UndoBegin
  <2>3. atomic_undo <=> link_undos > 0
    BY <2>1 DEF ChainInv
  <2>4. link_undos' = 0 /\ ~atomic_undo'
    BY <1>0, <2>2, <2>3
  <2>5. CloseChain(0) \/ (UNCHANGED steps /\ link_undos = 0)
    BY <1>0, <2>2, <2>3
  <2>6. 0 \in Nat /\ (atomic_undo' <=> link_undos' > busy')
    BY <2>1, <2>4
  <2> QED
    BY <1>4, <2>1, <2>4, <2>5, <2>6
<1>8. CASE RedoBegin
  <2>1. /\ mode = "idle" /\ busy = 0 /\ mode' = "redo" /\ steps' = steps /\ cur_step' = cur_step
        /\ link_undos' = link_undos /\ busy' = busy /\ atomic_undo' = atomic_undo
    BY <1>8 DEF RedoBegin, AtPrompt, stepVars, chainVars
  <2> QED
    BY <2>1 DEF ChainInv, Linked
<1>9. CASE UndoStep
  <2>1. /\ mode \in {"undo", "undoing"} /\ steps' = steps /\ cur_step' = cur_step - 1
        /\ cur_step > 0
        /\ link_undos' = link_undos /\ busy' = busy /\ atomic_undo' = atomic_undo
    BY <1>9 DEF UndoStep, chainVars, IInv, LoopInBounds
  <2>2. mode' = IF cur_step' > 0 /\ Linked(cur_step)' THEN "undoing" ELSE "undo"
    BY <1>9, <2>1 DEF UndoStep, Linked
  <2>3. link_undos = 0 /\ busy = 0 /\ (atomic_undo <=> link_undos > busy)
    BY <2>1 DEF ChainInv
  <2>4. Len(steps) = 0 \/ ~Linked(Len(steps))
    BY <1>0, <2>1 DEF ChainInv
  <2>5. mode' = "undo" => cur_step' = 0 \/ ~Linked(cur_step)'
    BY <1>0, <2>1, <2>2
  <2>6. mode' \in {"undo", "undoing"}
    BY <2>2
  <2>7. atomic_undo' <=> link_undos' > busy'
    BY <2>1, <2>3
  <2>8. Len(steps') = 0 \/ ~Linked(Len(steps))'
    BY <2>1, <2>4 DEF Linked
  <2>9. link_undos' = 0 /\ busy' = 0
    BY <2>1, <2>3
  <2> QED
    BY <2>5, <2>6, <2>7, <2>8, <2>9 DEF ChainInv
<1>10. CASE RedoStep
  <2>1. /\ mode \in {"redo", "redoing"} /\ steps' = steps /\ cur_step' = cur_step + 1
        /\ cur_step < Len(steps)
        /\ link_undos' = link_undos /\ busy' = busy /\ atomic_undo' = atomic_undo
    BY <1>10 DEF RedoStep, chainVars, IInv, LoopInBounds
  <2>2. mode' = IF cur_step' < Len(steps) /\ Linked(cur_step)' THEN "redoing" ELSE "redo"
    BY <1>10, <2>1 DEF RedoStep, Linked
  <2>3. busy = 0 /\ (atomic_undo <=> link_undos > busy)
    BY <2>1 DEF ChainInv
  <2>4. ~Linked(Len(steps))
    BY <1>0, <2>1 DEF ChainInv
  <2>5. mode' = "redo" => ~Linked(cur_step)'
    <3>1. cur_step + 1 < Len(steps) \/ cur_step + 1 = Len(steps)
      BY <1>0, <2>1
    <3> QED
      BY <2>1, <2>2, <2>4, <3>1 DEF Linked
  <2>6. mode' \in {"redo", "redoing"}
    BY <2>2
  <2>7. atomic_undo' <=> link_undos' > busy'
    BY <2>1, <2>3
  <2>8. ~Linked(Len(steps))'
    BY <2>1, <2>4 DEF Linked
  <2> QED
    BY <2>1, <2>3, <2>5, <2>6, <2>7, <2>8 DEF ChainInv
<1>11. CASE UndoEnd \/ RedoEnd
  <2>1. /\ mode \in {"undo", "redo"} /\ mode' = "idle" /\ steps' = steps /\ cur_step' = cur_step
        /\ link_undos' = link_undos /\ busy' = busy /\ atomic_undo' = atomic_undo
    BY <1>11 DEF UndoEnd, RedoEnd, stepVars, chainVars
  <2> QED
    BY <2>1 DEF ChainInv, Linked
<1>12. CASE Save \/ SaveCancelled \/ SaveAll \/ UNCHANGED vars
  BY <1>12, FrameKeepsChains DEF Save, SaveCancelled, SaveAll, vars, stepVars
<1>13. ASSUME NEW k, SaveFailed(k)
       PROVE  ChainInv'
  BY <1>13, FrameKeepsChains DEF SaveFailed, stepVars
<1>14. ASSUME NEW c, Modified(c) \/ ReadOnly(c)
       PROVE  ChainInv'
  BY <1>14, FrameKeepsChains DEF Modified, ReadOnly, stepVars
<1>15. CASE UTF8 \/ Clear
  BY <1>15, ResetKeepsChains DEF UTF8, Clear
<1>16. ASSUME NEW c, DoUndo(c)
       PROVE  FALSE
  BY <1>16 DEF DoUndo
<1> QED
  BY <1>1, <1>2, <1>3, <1>5, <1>6, <1>7, <1>8, <1>9, <1>10, <1>11, <1>12, <1>13, <1>14,
     <1>15, <1>16 DEF Next, Edit, Loop

(* Chains are glued neither to the commands before them nor to those after *)
(* them, and the level on the screen is the level there is, in every       *)
(* history in which undo is not switched off and on again.                 *)
THEOREM ChainsStayApart ==
  ASSUME "DoUndo" \notin Commands
  PROVE  Spec => [](ChainAssertion /\ LevelShown)
<1>1. Init => IInv /\ ChainInv
  BY InitIInv, InitChainInv
<1>2. (IInv /\ ChainInv) /\ [Next]_vars => (IInv /\ ChainInv)'
  BY NextIInv, NextChainInv
<1>3. IInv /\ ChainInv => ChainAssertion /\ LevelShown
  BY DEF ChainInv, ChainAssertion, LevelShown, AtPrompt
<1> QED
  BY <1>1, <1>2, <1>3, PTL DEF Spec
-----------------------------------------------------------------------------
(* The flag of a document just loaded is right.                            *)
LEMMA InitSaveInv == Init => SaveInv
<1> SUFFICES ASSUME Init PROVE SaveInv
  OBVIOUS
<1>1. /\ text = Text0 /\ saved = Text0 /\ last_save_step = 0 /\ mode = "idle"
      /\ ver = <<Text0>> /\ ver[1] = Text0
  BY DEF Init
<1> QED
  BY <1>1 DEF SaveInv, ModifiedSound, SaveStepSound

(* Recording a step keeps the version that was saved, or forgets that any  *)
(* version was.                                                            *)
LEMMA RecordKeepsSave ==
  ASSUME IInv, SaveInv, NEW o, NEW n, NEW bytes, NEW t \in Seq(Char), add_undo_step(o, n, bytes, t),
         mode = "idle", is_modified' = TRUE, UNCHANGED <<saved, do_undo, mode>>
  PROVE  SaveInv'
<1>1. /\ last_save_step' = IF last_save_step > cur_step THEN -1 ELSE last_save_step
      /\ ver' = Append(SubSeq(ver, 1, cur_step + 1), t)
  BY DEF add_undo_step
<1>2. /\ cur_step \in Nat /\ cur_step <= Len(steps) /\ last_save_step \in Int
      /\ Len(ver) = Len(steps) + 1 /\ Len(steps) \in Nat
  BY FlagTypes
<1>3. \A i \in 1 .. cur_step + 1 : ver'[i] = ver[i]
  <2> DEFINE c == cur_step + 1
             S == Seq(Char)
  <2>1. c \in Nat /\ c <= Len(ver) /\ ver \in Seq(S) /\ t \in S
    BY <1>2, CoreTypes DEF IInv
  <2>2. ver' = Append(SubSeq(ver, 1, c), t)
    BY <1>1
  <2> HIDE DEF c, S
  <2>3. \A i \in 1 .. c : ver'[i] = ver[i]
    BY <2>1, <2>2, KeepAndAppend
  <2> QED
    BY <2>3 DEF c
<1>4. ASSUME last_save_step' >= 0
      PROVE  last_save_step' = last_save_step /\ ver'[last_save_step + 1] = ver[last_save_step + 1]
  <2>1. last_save_step' = last_save_step /\ last_save_step + 1 \in 1 .. cur_step + 1
    BY <1>1, <1>2, <1>4
  <2> QED
    BY <1>3, <2>1
<1>5. SaveStepSound'
  BY <1>4 DEF SaveInv, SaveStepSound
<1>6. ModifiedSound' /\ mode' = "idle"
  BY DEF ModifiedSound
<1> QED
  BY <1>5, <1>6 DEF SaveInv

(* Every step keeps the flag right, if the user gives no other command.    *)
LEMMA NextSaveInv ==
  ASSUME Commands \subseteq FlagCommands
  PROVE  IInv /\ SaveInv /\ [Next]_vars => IInv' /\ SaveInv'
<1> SUFFICES ASSUME IInv, SaveInv, [Next]_vars, IInv' PROVE SaveInv'
  BY NextIInv
<1>1. ASSUME NEW o, NEW n, NEW bytes, add_undo_step(o, n, bytes, text') \/ skip_undo_step(text'),
             do_undo => add_undo_step(o, n, bytes, text'),
             mode = "idle", is_modified' = TRUE, UNCHANGED <<optVars, saved, mode>>
      PROVE  SaveInv'
  <2>1. text' \in Seq(Char)
    BY DEF IInv, Core
  <2>2. CASE do_undo
    BY <1>1, <2>1, <2>2, RecordKeepsSave DEF optVars
  <2>3. CASE ~do_undo
    BY <1>1, <2>3 DEF SaveInv, ModifiedSound, SaveStepSound, optVars
  <2> QED
    BY <2>2, <2>3
<1>2. CASE Edit
  <2>1. ASSUME NEW s \in Streams, NEW o \in 0 .. Len(text), InsertStream(o, s)
        PROVE  SaveInv'
    <3>1. /\ mode = "idle" /\ is_modified' = TRUE /\ UNCHANGED <<optVars, saved, mode>>
          /\ do_undo => add_undo_step(o, -Len(s), << >>, text')
          /\ ~do_undo => skip_undo_step(text')
      BY <2>1 DEF InsertStream
    <3> QED
      BY <1>1, <3>1
  <2>2. ASSUME NEW o \in 0 .. Len(text), NEW n \in 1 .. MaxIns, DeleteStream(o, n)
        PROVE  SaveInv'
    <3> DEFINE bytes == Slice(text, o, n)
    <3>1. /\ mode = "idle" /\ is_modified' = TRUE /\ UNCHANGED <<optVars, saved, mode>>
          /\ do_undo => add_undo_step(o, Len(bytes), bytes, text')
          /\ ~do_undo => skip_undo_step(text')
      BY <2>2 DEF DeleteStream
    <3> QED
      BY <1>1, <3>1
  <2> QED
    BY <1>2, <2>1, <2>2 DEF Edit
<1>3. ASSUME UNCHANGED <<text, ver, saved, last_save_step, is_modified, do_undo>>,
             mode' # "idle" => do_undo
      PROVE  SaveInv'
  BY <1>3 DEF SaveInv, ModifiedSound, SaveStepSound
<1>4. CASE StartChain \/ EndChain \/ (\E c \in 0 .. MaxLink : AtomicUndo(c))
  BY <1>3, <1>4 DEF StartChain, EndChain, AtomicUndo, AtPrompt, stepVars, history, optVars, fileVars
<1>5. CASE UndoBegin
  BY <1>3, <1>5 DEF UndoBegin, history, optVars, fileVars
<1>6. CASE RedoBegin
  BY <1>3, <1>6 DEF RedoBegin, stepVars, history, optVars, fileVars
<1>7. CASE UndoStep \/ RedoStep
  <2>1. /\ is_modified' = TRUE /\ mode # "idle"
        /\ UNCHANGED <<ver, saved, last_save_step, do_undo>>
    BY <1>7 DEF UndoStep, RedoStep, optVars
  <2> QED
    BY <2>1 DEF SaveInv, ModifiedSound, SaveStepSound
<1>8. CASE UndoEnd \/ RedoEnd
  <2>1. /\ mode # "idle" /\ mode' = "idle" /\ is_modified' = (cur_step # last_save_step)
        /\ UNCHANGED <<text, ver, saved, last_save_step, do_undo>>
    BY <1>8 DEF UndoEnd, RedoEnd, stepVars, history, optVars
  <2>2. cur_step >= 0 /\ text = ver[cur_step + 1]
    BY CoreTypes DEF IInv, Core, UndoRedoExact
  <2>3. ~is_modified' => text = saved
    BY <2>1, <2>2 DEF SaveInv, SaveStepSound
  <2> QED
    BY <2>1, <2>3 DEF SaveInv, ModifiedSound, SaveStepSound
<1>9. CASE Save
  <2>1. /\ saved' = text /\ text' = text /\ last_save_step' = cur_step /\ mode' = mode /\ mode = "idle"
        /\ UNCHANGED <<ver, do_undo>>
    BY <1>9 DEF Save, AtPrompt, stepVars, history, optVars
  <2>2. text = ver[cur_step + 1]
    BY DEF IInv, Core, UndoRedoExact
  <2> QED
    BY <2>1, <2>2 DEF SaveInv, ModifiedSound, SaveStepSound
<1>10. CASE Clear
  <2>1. /\ text' = << >> /\ saved' = << >> /\ last_save_step' = 0 /\ ver' = << << >> >>
        /\ ver'[1] = << >> /\ mode' = "idle"
    BY <1>10 DEF Clear, AtPrompt, reset_undo_buffer
  <2> QED
    BY <2>1 DEF SaveInv, ModifiedSound, SaveStepSound
<1>11. ASSUME NEW c \in BOOLEAN, ReadOnly(c)
       PROVE  SaveInv'
  BY <1>3, <1>11 DEF ReadOnly, AtPrompt, stepVars, history, fileVars
<1>12. CASE UNCHANGED vars
  BY <1>3, <1>12 DEF vars, stepVars, history, optVars, fileVars, SaveInv
<1>13. /\ ~SaveCancelled /\ ~SaveAll /\ ~UTF8
       /\ \A k : ~SaveFailed(k)
       /\ \A c : ~DoUndo(c) /\ ~Modified(c)
  BY DEF SaveCancelled, SaveAll, UTF8, SaveFailed, DoUndo, Modified, FlagCommands
<1> QED
  BY <1>2, <1>4, <1>5, <1>6, <1>7, <1>8, <1>9, <1>10, <1>11, <1>12, <1>13 DEF Next, Loop

(* A document that is not marked as modified is what its file holds, and   *)
(* the step undo and redo compare with is one at which it was, however     *)
(* edits, undos, redos and saves are mixed.                                *)
THEOREM FlagTellsTheTruth ==
  ASSUME Commands \subseteq FlagCommands
  PROVE  Spec => [](ModifiedSound /\ SaveStepSound)
<1>1. Init => IInv /\ SaveInv
  BY InitIInv, InitSaveInv
<1>2. (IInv /\ SaveInv) /\ [Next]_vars => (IInv /\ SaveInv)'
  BY NextSaveInv
<1>3. IInv /\ SaveInv => ModifiedSound /\ SaveStepSound
  BY DEF SaveInv
<1> QED
  BY <1>1, <1>2, <1>3, PTL DEF Spec
-----------------------------------------------------------------------------
(* Ranks in a finite set of numbers, by which UndoBuffer counts versions.  *)

(* The part of a set up to a number, which its rank counts.                *)
LEMMA RankType ==
  ASSUME NEW S \in SUBSET Nat, IsFiniteSet(S), NEW n
  PROVE  /\ IsFiniteSet({m \in S : m <= n}) /\ RankIn(S, n) \in Nat
         /\ RankIn(S, n) <= Cardinality(S) /\ Cardinality(S) \in Nat
<1> DEFINE T == {m \in S : m <= n}
<1>1. T \in SUBSET S
  OBVIOUS
<1> HIDE DEF T
<1>2. IsFiniteSet(T) /\ Cardinality(T) <= Cardinality(S)
  BY <1>1, FS_Subset
<1>3. Cardinality(T) \in Nat /\ Cardinality(S) \in Nat
  BY <1>2, FS_CardinalityType
<1> QED
  BY <1>2, <1>3 DEF RankIn, T

(* The rank of a number one larger: it grows by one on the set only.       *)
LEMMA RankNext ==
  ASSUME NEW S \in SUBSET Nat, IsFiniteSet(S), NEW n \in Nat
  PROVE  RankIn(S, n + 1) = IF n + 1 \in S THEN RankIn(S, n) + 1 ELSE RankIn(S, n)
<1> DEFINE T == {m \in S : m <= n}
           U == {m \in S : m <= n + 1}
           k == n + 1
<1>1. IsFiniteSet(T) /\ Cardinality(T) = RankIn(S, n) /\ Cardinality(U) = RankIn(S, n + 1)
  BY RankType DEF RankIn
<1>2. k \notin T
  OBVIOUS
<1>3. \A m \in S : m <= k <=> m <= n \/ m = k
  OBVIOUS
<1>4. CASE k \in S
  <2>1. U = T \cup {k}
    BY <1>3, <1>4
  <2> HIDE DEF T, U, k
  <2>2. Cardinality(U) = Cardinality(T) + 1
    BY <1>1, <1>2, <2>1, FS_AddElement
  <2> QED
    BY <1>1, <1>4, <2>2 DEF k
<1>5. CASE k \notin S
  <2>1. U = T
    BY <1>3, <1>5
  <2> QED
    BY <1>1, <1>5, <2>1
<1> QED
  BY <1>4, <1>5

(* The rank grows from a number of the set to a larger one of the set.     *)
LEMMA RankGrows ==
  ASSUME NEW S \in SUBSET Nat, IsFiniteSet(S), NEW p \in S, NEW q \in S, p < q
  PROVE  RankIn(S, p) < RankIn(S, q)
<1> DEFINE T == {m \in S : m <= p}
           U == {m \in S : m <= q}
<1>1. IsFiniteSet(U) /\ IsFiniteSet(T) /\ Cardinality(U) \in Nat /\ Cardinality(T) \in Nat
  BY RankType, FS_CardinalityType
<1>2. T \in SUBSET U
  <2> SUFFICES ASSUME NEW m \in S, m <= p PROVE m <= q
    OBVIOUS
  <2>1. p \in Nat /\ q \in Nat /\ m \in Nat
    OBVIOUS
  <2> QED
    BY <2>1
<1>3. q \in U /\ q \notin T
  <2>1. p \in Nat /\ q \in Nat
    OBVIOUS
  <2> QED
    BY <2>1
<1>4. Cardinality(T) = RankIn(S, p) /\ Cardinality(U) = RankIn(S, q)
  BY DEF RankIn
<1> HIDE DEF T, U
<1>5. Cardinality(T) <= Cardinality(U) /\ Cardinality(U) # Cardinality(T)
  BY <1>1, <1>2, <1>3, FS_Subset
<1> QED
  BY <1>1, <1>4, <1>5

(* Every rank from 1 is that of exactly one number of the set.             *)
LEMMA RankOnto ==
  ASSUME NEW S \in SUBSET Nat, IsFiniteSet(S)
  PROVE  /\ \A i \in 1 .. Cardinality(S) : NthIn(S, i) \in S /\ RankIn(S, NthIn(S, i)) = i
         /\ \A m \in S : RankIn(S, m) \in 1 .. Cardinality(S) /\ NthIn(S, RankIn(S, m)) = m
<1> DEFINE N == Cardinality(S)
           R == {RankIn(S, m) : m \in S}
           f == [m \in S |-> RankIn(S, m)]
<1>1. \A m \in S : RankIn(S, m) \in 1 .. N
  <2> TAKE m \in S
  <2>1. m \in {k \in S : k <= m}
    OBVIOUS
  <2>2. RankIn(S, m) # 0
    BY <2>1, RankType, FS_EmptySet DEF RankIn
  <2>3. RankIn(S, m) \in Nat /\ RankIn(S, m) <= N /\ N \in Nat
    BY RankType
  <2> QED
    BY <2>2, <2>3
<1>2. \A p, q \in S : RankIn(S, p) = RankIn(S, q) => p = q
  <2> TAKE p, q \in S
  <2>1. p \in Nat /\ q \in Nat /\ RankIn(S, p) \in Nat /\ RankIn(S, q) \in Nat
    BY RankType
  <2>2. CASE p < q
    BY <2>1, <2>2, RankGrows
  <2>3. CASE q < p
    BY <2>1, <2>3, RankGrows
  <2> QED
    BY <2>1, <2>2, <2>3
<1>3. f \in Bijection(S, R)
  <2>1. f \in [S -> R] /\ \A r \in R : \E m \in S : f[m] = r
    OBVIOUS
  <2>2. \A p, q \in S : f[p] = f[q] => p = q
    BY <1>2
  <2> HIDE DEF f, R
  <2> QED
    BY <2>1, <2>2 DEF Bijection, Injection, Surjection, IsInjective
<1>4. IsFiniteSet(R) /\ Cardinality(R) = N
  <2> HIDE DEF f, R
  <2> QED
    BY <1>3, FS_Bijection DEF ExistsBijection
<1>5. N \in Nat
  BY FS_CardinalityType
<1>6. IsFiniteSet(1 .. N) /\ Cardinality(1 .. N) = N
  <2>1. 1 \in Int /\ N \in Int /\ (IF 1 > N THEN 0 ELSE N - 1 + 1) = N
    BY <1>5
  <2> HIDE DEF N
  <2> QED
    BY <2>1, FS_Interval
<1>7. R = 1 .. N
  <2>1. R \in SUBSET (1 .. N)
    BY <1>1
  <2> HIDE DEF R, N
  <2> QED
    BY <1>4, <1>6, <2>1, FS_Subset
<1>8. ASSUME NEW i \in 1 .. N PROVE NthIn(S, i) \in S /\ RankIn(S, NthIn(S, i)) = i
  <2>1. \E m \in S : RankIn(S, m) = i
    BY <1>7
  <2> QED
    BY <2>1 DEF NthIn
<1>9. ASSUME NEW m \in S PROVE NthIn(S, RankIn(S, m)) = m
  <2>1. NthIn(S, RankIn(S, m)) \in S /\ RankIn(S, NthIn(S, RankIn(S, m))) = RankIn(S, m)
    BY <1>1, <1>8
  <2> QED
    BY <1>2, <2>1
<1> QED
  BY <1>1, <1>8, <1>9

(* The version of a moment is the one its rank says.                       *)
LEMMA VersionAt ==
  ASSUME NEW S \in SUBSET Nat, IsFiniteSet(S), NEW v, NEW m \in S
  PROVE  /\ RankIn(S, m) \in 1 .. Cardinality(S)
         /\ Versions(S, v)[RankIn(S, m)] = v[1 + m]
  BY RankOnto DEF Versions

(* A set that keeps what another has up to p and gets one number more:     *)
(* its versions are the first ones of the other and one more.              *)
Extends(S, p, q, U, v, w) ==
  /\ U = {m \in S : m <= p} \cup {q}
  /\ \A m \in S : m <= p => w[1 + m] = v[1 + m]

(* The versions of such a set.                                             *)
LEMMA VersionsExtended ==
  ASSUME NEW S \in SUBSET Nat, IsFiniteSet(S), NEW p \in Nat, NEW q \in Nat, p < q,
         NEW U, NEW v, NEW w, Extends(S, p, q, U, v, w),
         NEW k, k = RankIn(S, p)
  PROVE  /\ U \in SUBSET Nat /\ IsFiniteSet(U)
         /\ Cardinality(U) = k + 1 /\ RankIn(U, q) = k + 1
         /\ \A i \in 1 .. k : Versions(U, w)[i] = Versions(S, v)[i]
         /\ Versions(U, w)[k + 1] = w[1 + q]
<1> DEFINE T == {m \in S : m <= p}
<1>0. U = {m \in S : m <= p} \cup {q} /\ \A m \in S : m <= p => w[1 + m] = v[1 + m]
  BY DEF Extends
<1>1. /\ T \in SUBSET Nat /\ IsFiniteSet(T) /\ Cardinality(T) = k /\ k \in Nat
      /\ k <= Cardinality(S) /\ Cardinality(S) \in Nat /\ q \notin T /\ \A m \in T : m <= q
  <2>1. IsFiniteSet(T) /\ k \in Nat /\ k <= Cardinality(S) /\ Cardinality(S) \in Nat
    BY RankType
  <2>2. T \in SUBSET Nat /\ Cardinality(T) = k
    BY DEF RankIn
  <2>3. ASSUME NEW m \in T PROVE m <= p /\ m <= q /\ m # q
    <3>1. m \in Nat /\ m <= p
      OBVIOUS
    <3> QED
      BY <3>1
  <2> HIDE DEF T
  <2> QED
    BY <2>1, <2>2, <2>3
<1>2. U \in SUBSET Nat /\ IsFiniteSet(U) /\ Cardinality(U) = k + 1
  <2>1. U = T \cup {q}
    BY <1>0
  <2> HIDE DEF T
  <2>2. IsFiniteSet(T \cup {q}) /\ Cardinality(T \cup {q}) = k + 1
    BY <1>1, FS_AddElement
  <2>3. T \cup {q} \in SUBSET Nat
    BY <1>1
  <2> QED
    BY <2>1, <2>2, <2>3
<1>3. RankIn(U, q) = k + 1
  <2>1. {m \in U : m <= q} = U
    BY <1>0, <1>1
  <2> QED
    BY <1>2, <2>1 DEF RankIn
<1>4. Versions(U, w)[k + 1] = w[1 + q]
  <2>1. q \in U
    BY <1>0
  <2> QED
    BY <1>2, <1>3, <2>1, VersionAt
<1>5. \A m \in T : RankIn(U, m) = RankIn(S, m)
  <2> TAKE m \in T
  <2>1. m \in Nat /\ m <= p
    OBVIOUS
  <2>2. \A j \in U : j <= m <=> j \in S /\ j <= m
    <3>1. \A j \in U : j # q => j \in S
      BY <1>0
    <3>2. \A j \in S : j <= m => j <= p
      BY <2>1
    <3>3. ~(q <= m)
      BY <2>1
    <3> QED
      BY <3>1, <3>2, <3>3
  <2>3. \A j \in S : j <= m => j \in U
    BY <1>0, <2>1
  <2>4. {j \in U : j <= m} = {j \in S : j <= m}
    BY <2>2, <2>3
  <2> QED
    BY <2>4 DEF RankIn
<1>6. ASSUME NEW i \in 1 .. k PROVE Versions(U, w)[i] = Versions(S, v)[i]
  <2> DEFINE m == NthIn(S, i)
  <2>1. i \in 1 .. Cardinality(S)
    BY <1>1
  <2>2. m \in S /\ RankIn(S, m) = i
    BY <2>1, RankOnto
  <2> HIDE DEF m
  <2>3. m \in Nat
    BY <2>2
  <2>4. m <= p
    <3> SUFFICES ASSUME p < m PROVE FALSE
      BY <2>3
    <3>1. T \cup {m} \subseteq {j \in S : j <= m}
      <4>1. ASSUME NEW j \in S, j <= p PROVE j <= m
        <5>1. j \in Nat
          OBVIOUS
        <5> QED
          BY <2>3, <4>1, <5>1
      <4>2. m <= m
        BY <2>3
      <4>3. T \subseteq {j \in S : j <= m}
        BY <4>1
      <4>4. m \in {j \in S : j <= m}
        BY <2>2, <4>2
      <4> HIDE DEF T
      <4> QED
        BY <4>3, <4>4
    <3> DEFINE W == {j \in S : j <= m}
    <3>2. IsFiniteSet(W) /\ Cardinality(W) = i
      BY <2>2, RankType DEF RankIn
    <3>3. m \notin T
      BY <2>3
    <3> HIDE DEF T, W
    <3>4. Cardinality(T \cup {m}) = k + 1
      BY <1>1, <3>3, FS_AddElement
    <3>5. Cardinality(T \cup {m}) <= Cardinality(W)
      BY <3>1, <3>2, FS_Subset DEF W
    <3> QED
      BY <1>1, <3>2, <3>4, <3>5
  <2>5. m \in T /\ m \in U
    BY <1>0, <2>2, <2>4
  <2>6. RankIn(U, m) = i
    BY <1>5, <2>2, <2>5
  <2>7. Versions(U, w)[i] = w[1 + m]
    BY <1>2, <2>5, <2>6, VersionAt
  <2>8. Versions(S, v)[i] = v[1 + m]
    BY <2>2, VersionAt
  <2> QED
    BY <1>0, <2>2, <2>4, <2>7, <2>8
<1> QED
  BY <1>2, <1>3, <1>4, <1>6

(* A set of one number has one version.                                    *)
LEMMA OneVersion ==
  ASSUME NEW q \in Nat, NEW v
  PROVE  /\ Versions({q}, v) = <<v[1 + q]>> /\ RankIn({q}, q) = 1 /\ Cardinality({q}) = 1
         /\ IsFiniteSet({q})
<1>1. IsFiniteSet({q}) /\ Cardinality({q}) = 1 /\ {m \in {q} : m <= q} = {q}
  BY FS_Singleton
<1>2. RankIn({q}, q) = 1
  BY <1>1 DEF RankIn
<1>3. Versions({q}, v)[1] = v[1 + q]
  BY <1>1, <1>2, VersionAt
<1>4. Versions({q}, v) = [i \in 1 .. 1 |-> v[1 + NthIn({q}, i)]]
  BY <1>1 DEF Versions
<1> QED
  BY <1>1, <1>2, <1>3, <1>4
-----------------------------------------------------------------------------
(* The promise of UndoHistory.                                             *)

(* Between two commands, and between two turns of the loops of UNDO_A and  *)
(* REDO_A, the steps done are all those of some chains.                    *)
StopInv == mode \in {"idle", "undo", "redo"} => cur_step \in Stops

(* The bound on the length of the text holds of the versions, too.         *)
SizeInv == \A i \in 1 .. Len(ver) : Len(ver[i]) <= MaxText

(* The inductive invariant of the refinement.                              *)
PromiseInv == IInv /\ ChainInv /\ StopInv /\ SizeInv

(* A step of UndoBuffer keeps the new invariants and is one of UndoHistory. *)
Follows == StopInv' /\ SizeInv' /\ [History!Next]_(History!vars)

(* The moments between steps are finitely many, from no step to them all.  *)
LEMMA StopsAre ==
  ASSUME NEW s, Len(s) \in Nat
  PROVE  /\ StopsOf(s) \in SUBSET Nat /\ IsFiniteSet(StopsOf(s))
         /\ 0 \in StopsOf(s) /\ Len(s) \in StopsOf(s)
         /\ \A m \in StopsOf(s) : m <= Len(s)
<1> DEFINE n == Len(s)
<1>1. StopsOf(s) \in SUBSET Nat /\ 0 \in StopsOf(s) /\ n \in StopsOf(s) /\ \A m \in StopsOf(s) : m <= n
  BY DEF StopsOf
<1> HIDE DEF n
<1>2. IsFiniteSet(StopsOf(s))
  BY <1>1, FS_BoundedSetOfNaturals DEF n
<1> QED
  BY <1>1, <1>2 DEF n

(* The version shown, in the modes in which it is read off in one way.     *)
LEMMA ShownAt ==
  ASSUME NEW S \in SUBSET Nat, IsFiniteSet(S), NEW m \in Modes, NEW c \in Nat,
         m \in {"idle", "undo", "redo"} => c \in S
  PROVE  /\ m # "undoing" => ShownIn(S, m, c) = RankIn(S, c)
         /\ m \in {"undo", "undoing"} /\ c > 0 => ShownIn(S, m, c) = RankIn(S, c - 1) + 1
<1>1. m # "undoing" => ShownIn(S, m, c) = RankIn(S, c)
  BY DEF ShownIn, Modes
<1>2. m = "undoing" => ShownIn(S, m, c) = RankIn(S, c - 1) + 1
  BY DEF ShownIn
<1>3. ASSUME m = "undo", c > 0 PROVE RankIn(S, c) = RankIn(S, c - 1) + 1
  <2> DEFINE p == c - 1
  <2>1. p \in Nat /\ p + 1 = c
    BY <1>3
  <2> HIDE DEF p
  <2>2. RankIn(S, p + 1) = RankIn(S, p) + 1
    BY <1>3, <2>1, RankNext
  <2> QED
    BY <2>1, <2>2 DEF p
<1> QED
  BY <1>1, <1>2, <1>3

(* The step is one of the group, or none at all, when only the openness of *)
(* the group changes.                                                      *)
LEMMA GroupStep ==
  ASSUME Hist' = Hist, Shown' = Shown, do_undo' = do_undo
  PROVE  [History!Next]_(History!vars)
<1>1. Open' \in BOOLEAN
  BY DEF Open
<1>2. History!Group
  BY <1>1 DEF History!Group
<1> QED
  BY <1>2 DEF History!Next

(* What the frames of the actions leave alone.                             *)
LEMMA FrameFollows ==
  ASSUME StopInv, SizeInv, UNCHANGED <<steps, cur_step, ver, mode, do_undo>>
  PROVE  Follows
<1>1. Stops' = Stops
  BY DEF Stops
<1>2. Hist' = Hist /\ Shown' = Shown
  BY <1>1 DEF Hist, Shown
<1>3. StopInv' /\ SizeInv'
  BY <1>1 DEF StopInv, SizeInv
<1> QED
  BY <1>2, <1>3, GroupStep DEF Follows

(* The closing of a chain unlinks a step at which undo() stopped anyway,   *)
(* and the beginning and the end of UNDO_A and of REDO_A show the same.    *)
LEMMA ChainFollows ==
  ASSUME IInv, StopInv, SizeInv, NEW n, CloseChain(n) \/ UNCHANGED steps,
         UNCHANGED <<cur_step, ver, do_undo>>,
         mode \in {"idle", "undo", "redo"}, mode' \in {"idle", "undo", "redo"}
  PROVE  Follows
<1>1. /\ steps \in Seq(Step) /\ Len(steps) \in Nat /\ Core
      /\ cur_step \in Nat /\ cur_step \in Stops
  BY FlagTypes DEF IInv, StopInv
<1>2. Stops' = Stops
  <2>1. CASE UNCHANGED steps
    BY <2>1 DEF Stops
  <2>2. CASE CloseChain(n)
    <3>1. /\ Len(steps') = Len(steps)
          /\ \A i \in 1 .. Len(steps) : i # cur_step => steps'[i] = steps[i]
          /\ cur_step > 0 => ~steps'[cur_step].linked \/ steps' = steps
      BY <1>1, <2>2, CloseChainLinks
    <3>2. ASSUME NEW m \in 0 .. Len(steps)
          PROVE  m \in StopsOf(steps') <=> m \in StopsOf(steps)
      <4>1. CASE m = cur_step
        <5>1. m \in StopsOf(steps)
          BY <1>1, <4>1 DEF Stops
        <5>2. m = 0 \/ ~steps'[m].linked \/ steps' = steps
          BY <1>1, <3>1, <4>1
        <5>3. m \in StopsOf(steps')
          BY <3>1, <5>1, <5>2 DEF StopsOf
        <5> QED
          BY <5>1, <5>3
      <4>2. CASE m # cur_step /\ m # 0
        BY <3>1, <4>2 DEF StopsOf
      <4>3. CASE m = 0
        BY <3>1, <4>3 DEF StopsOf
      <4> QED
        BY <4>1, <4>2, <4>3
    <3>3. StopsOf(steps') \subseteq 0 .. Len(steps) /\ StopsOf(steps) \subseteq 0 .. Len(steps)
      BY <3>1 DEF StopsOf
    <3> QED
      BY <3>2, <3>3 DEF Stops
  <2> QED
    BY <2>1, <2>2
<1>3. Stops \in SUBSET Nat /\ IsFiniteSet(Stops)
  BY <1>1, StopsAre DEF Stops
<1>4. StopInv' /\ SizeInv'
  BY <1>1, <1>2 DEF StopInv, SizeInv
<1>5. Hist' = Hist
  BY <1>2 DEF Hist
<1>6. Shown' = Shown
  <2>1. mode \in Modes /\ mode' \in Modes /\ mode # "undoing" /\ mode' # "undoing"
    BY DEF Modes
  <2>2. Shown = RankIn(Stops, cur_step)
    BY <1>1, <1>3, <2>1, ShownAt DEF Shown
  <2>3. ShownIn(Stops, mode', cur_step) = RankIn(Stops, cur_step)
    BY <1>1, <1>3, <2>1, ShownAt
  <2> QED
    BY <1>2, <2>2, <2>3 DEF Shown
<1> QED
  BY <1>4, <1>5, <1>6, GroupStep DEF Follows

(* The version shown holds the text.                                       *)
LEMMA ShownIsText ==
  ASSUME IInv, StopInv, mode = "idle"
  PROVE  /\ Shown = RankIn(Stops, cur_step) /\ Shown \in 1 .. Cardinality(Stops)
         /\ Hist[Shown] = text /\ cur_step \in Stops
<1>1. /\ Len(steps) \in Nat /\ cur_step \in Nat /\ cur_step \in Stops
      /\ text = ver[cur_step + 1] /\ 1 + cur_step = cur_step + 1
  BY FlagTypes DEF IInv, Core, UndoRedoExact, StopInv
<1>2. Stops \in SUBSET Nat /\ IsFiniteSet(Stops)
  BY <1>1, StopsAre DEF Stops
<1>3. mode \in Modes /\ mode # "undoing"
  BY DEF Modes
<1>4. Shown = RankIn(Stops, cur_step)
  BY <1>1, <1>2, <1>3, ShownAt DEF Shown
<1>5. /\ RankIn(Stops, cur_step) \in 1 .. Cardinality(Stops)
      /\ Versions(Stops, ver)[RankIn(Stops, cur_step)] = ver[1 + cur_step]
  BY <1>1, <1>2, VersionAt
<1> QED
  BY <1>1, <1>4, <1>5 DEF Hist

(* After a reset there is one version.                                     *)
LEMMA OneStop ==
  ASSUME NEW s, s = << >>, NEW v, NEW t, v[1] = t, NEW m \in Modes, m # "undoing"
  PROVE  /\ StopsOf(s) = {0} /\ Versions(StopsOf(s), v) = <<t>>
         /\ ShownIn(StopsOf(s), m, 0) = 1
<1>1. Len(s) = 0 /\ Len(s) \in Nat
  BY EmptySeq
<1>2. StopsOf(s) = {0}
  BY <1>1 DEF StopsOf
<1>3. 0 \in Nat /\ 1 + 0 = 1
  OBVIOUS
<1>4. Versions({0}, v) = <<v[1 + 0]>> /\ RankIn({0}, 0) = 1 /\ IsFiniteSet({0})
  BY <1>3, OneVersion
<1>5. ShownIn({0}, m, 0) = 1
  BY <1>3, <1>4, ShownAt
<1> QED
  BY <1>2, <1>3, <1>4, <1>5

(* reset_undo_buffer() forgets every version but the one on the screen.    *)
LEMMA ResetFollows ==
  ASSUME IInv, StopInv, SizeInv, mode = "idle", NEW t, t = text \/ t = << >>,
         reset_undo_buffer(t), UNCHANGED <<chainVars, do_undo, mode>>
  PROVE  Follows
<1>1. steps' = << >> /\ cur_step' = 0 /\ ver' = <<t>>
  BY DEF reset_undo_buffer
<1>2. ver'[1] = t /\ Len(ver') = 1 /\ mode' = "idle" /\ mode' \in Modes /\ mode' # "undoing"
  BY <1>1 DEF Modes
<1>3. Stops' = {0} /\ Hist' = <<t>> /\ Shown' = 1
  <2>1. /\ StopsOf(steps') = {0} /\ Versions(StopsOf(steps'), ver') = <<t>>
        /\ ShownIn(StopsOf(steps'), mode', 0) = 1
    BY <1>1, <1>2, OneStop
  <2> QED
    BY <1>1, <2>1 DEF Stops, Hist, Shown
<1>4. StopInv'
  BY <1>1, <1>3 DEF StopInv
<1>5. Len(t) <= MaxText
  <2>1. CASE t = text
    <3>1. cur_step + 1 \in 1 .. Len(ver) /\ text = ver[cur_step + 1]
      BY FlagTypes DEF IInv, Core, UndoRedoExact
    <3> QED
      BY <2>1, <3>1 DEF SizeInv
  <2>2. CASE t = << >>
    BY <2>2, EmptySeq, BoundAssumption
  <2> QED
    BY <2>1, <2>2
<1>6. SizeInv'
  BY <1>2, <1>5 DEF SizeInv
<1>7. Open' = Open /\ do_undo' = do_undo /\ do_undo \in BOOLEAN
  BY DEF Open, chainVars, IInv, Flags
<1>8. History!Forget(t)
  BY <1>3, <1>7 DEF History!Forget
<1>9. t = Hist[Shown] \/ t = << >>
  BY ShownIsText
<1>10. History!Next
  BY <1>8, <1>9 DEF History!Next
<1> QED
  BY <1>4, <1>6, <1>10 DEF Follows

(* The texts that fit in the bound are those UndoHistory speaks of.        *)
LEMMA TextFits ==
  ASSUME NEW t \in Seq(Char), Len(t) <= MaxText
  PROVE  t \in Texts
<1>1. Len(t) \in 0 .. MaxText /\ t \in [1 .. Len(t) -> Char]
  BY BoundAssumption
<1> QED
  BY <1>1 DEF Texts

(* While nothing is recorded an edit replaces the only version.            *)
LEMMA SkipFollows ==
  ASSUME IInv, StopInv, SizeInv, mode = "idle", ~do_undo,
         NEW t \in Seq(Char), Len(t) <= MaxText, skip_undo_step(t),
         UNCHANGED <<chainVars, do_undo, mode>>
  PROVE  Follows
<1>1. steps = << >> /\ cur_step = 0 /\ Len(ver) = 1
  <2>1. steps = << >>
    BY DEF IInv, OffIsEmpty
  <2>2. Len(steps) = 0
    BY <2>1, EmptySeq
  <2> QED
    BY <2>1, <2>2, FlagTypes
<1>2. /\ steps' = steps /\ cur_step' = cur_step /\ ver' = [ver EXCEPT ![1] = t]
  BY <1>1 DEF skip_undo_step
<1>3. ver \in Seq(Seq(Char))
  BY CoreTypes DEF IInv
<1>4. ver'[1] = t /\ Len(ver') = 1
  BY <1>1, <1>2, <1>3
<1>5. /\ StopsOf(steps) = {0} /\ Len(Hist) = 1
      /\ StopsOf(steps') = {0} /\ Hist' = <<t>> /\ Shown = 1 /\ Shown' = 1
  <2>1. mode \in Modes /\ mode # "undoing" /\ mode' \in Modes /\ mode' # "undoing"
    BY DEF Modes
  <2>2. /\ StopsOf(steps) = {0} /\ Versions(StopsOf(steps), ver) = <<ver[1]>>
        /\ ShownIn(StopsOf(steps), mode, 0) = 1
    BY <1>1, <2>1, OneStop
  <2>3. /\ StopsOf(steps') = {0} /\ Versions(StopsOf(steps'), ver') = <<t>>
        /\ ShownIn(StopsOf(steps'), mode', 0) = 1
    BY <1>1, <1>2, <1>4, <2>1, OneStop
  <2> QED
    BY <1>1, <1>2, <2>2, <2>3 DEF Stops, Hist, Shown
<1>6. StopInv' /\ SizeInv'
  <2>1. StopInv'
    BY <1>1, <1>2, <1>5 DEF StopInv, Stops
  <2>2. SizeInv'
    BY <1>4 DEF SizeInv
  <2> QED
    BY <2>1, <2>2
<1>7. Open' = Open /\ do_undo' = do_undo
  BY DEF Open, chainVars
<1>8. History!Replace(t)
  BY <1>5, <1>7 DEF History!Replace
<1>9. History!Next
  BY <1>8, TextFits DEF History!Next
<1> QED
  BY <1>6, <1>9 DEF Follows

(* The moments there are when a step has been recorded after c others: the *)
(* earlier ones up to c, or up to c - 1 if step c goes on in the new one.  *)
LEMMA StopsRecorded ==
  ASSUME NEW s, Len(s) \in Nat, NEW c \in Nat, c <= Len(s), c \in StopsOf(s),
         NEW r, Len(r) = c + 1, \A i \in 1 .. c : r[i] = s[i],
         NEW p \in Nat, c > 0 /\ s[c].linked => p = c - 1, ~(c > 0 /\ s[c].linked) => p = c
  PROVE  StopsOf(r) = {m \in StopsOf(s) : m <= p} \cup {c + 1}
<1>1. c > 0 /\ s[c].linked => c = Len(s)
  BY DEF StopsOf
<1>2. ASSUME NEW m \in 0 .. c PROVE m \in StopsOf(r) <=> m \in StopsOf(s) /\ m <= p
  <2>1. CASE m = 0
    BY <2>1 DEF StopsOf
  <2>2. CASE m # 0
    <3>1. m \in 1 .. c /\ m # c + 1 /\ r[m] = s[m] /\ m \in 0 .. Len(r) /\ m \in 0 .. Len(s)
      BY <2>2
    <3>2. m \in StopsOf(r) <=> ~s[m].linked
      BY <2>2, <3>1 DEF StopsOf
    <3>3. m \in StopsOf(s) <=> m = Len(s) \/ ~s[m].linked
      BY <2>2, <3>1 DEF StopsOf
    <3>4. CASE m = c
      BY <1>1, <3>1, <3>2, <3>3, <3>4
    <3>5. CASE m # c
      <4>1. m # Len(s) /\ m <= p
        BY <3>1, <3>5
      <4> QED
        BY <3>2, <3>3, <4>1
    <3> QED
      BY <3>4, <3>5
  <2> QED
    BY <2>1, <2>2
<1>3. c + 1 \in StopsOf(r) /\ StopsOf(r) \subseteq 0 .. c + 1
  BY DEF StopsOf
<1>4. p <= c
  OBVIOUS
<1>5. \A m \in StopsOf(s) : m \in Nat
  BY StopsAre
<1>6. \A m \in StopsOf(r) : m \in 0 .. c \/ m = c + 1
  BY <1>3
<1>7. \A m \in StopsOf(s) : m <= p => m \in 0 .. c
  BY <1>4, <1>5
<1> QED
  BY <1>2, <1>3, <1>6, <1>7

(* Versions are as many as the moments, and each has its text.             *)
LEMMA VersionsAre ==
  ASSUME NEW S \in SUBSET Nat, IsFiniteSet(S), NEW v
  PROVE  /\ Versions(S, v) = [i \in 1 .. Cardinality(S) |-> Versions(S, v)[i]]
         /\ Len(Versions(S, v)) = Cardinality(S) /\ Cardinality(S) \in Nat
<1>1. Cardinality(S) \in Nat
  BY FS_CardinalityType
<1> QED
  BY <1>1 DEF Versions

(* A history whose first k versions are those of another, and one more.    *)
OneMore(n, h, k, g, t) ==
  /\ n \in Nat /\ k \in Nat /\ k <= n
  /\ h = [i \in 1 .. n |-> h[i]] /\ g = [i \in 1 .. k + 1 |-> g[i]]
  /\ g[k + 1] = t /\ \A i \in 1 .. k : g[i] = h[i]

(* Such a history is the other one cut after k and one version more.      *)
LEMMA KeptAndOneMore ==
  ASSUME NEW n, NEW h, NEW k, NEW g, NEW t, OneMore(n, h, k, g, t)
  PROVE  g = Append(SubSeq(h, 1, k), t)
<1>0. /\ n \in Nat /\ k \in Nat /\ k <= n
      /\ h = [i \in 1 .. n |-> h[i]] /\ g = [i \in 1 .. k + 1 |-> g[i]]
      /\ g[k + 1] = t /\ \A i \in 1 .. k : g[i] = h[i]
  BY DEF OneMore
<1> DEFINE X == {h[i] : i \in 1 .. n} \cup {t}
           a == Append(SubSeq(h, 1, k), t)
<1>1. h \in Seq(X) /\ Len(h) = n /\ t \in X
  <2>1. [i \in 1 .. n |-> h[i]] \in [1 .. n -> X]
    OBVIOUS
  <2> HIDE DEF X
  <2> QED
    BY <1>0, <2>1 DEF X
<1> HIDE DEF X
<1>2. /\ a \in Seq(X) /\ Len(a) = k + 1 /\ a[k + 1] = t
      /\ \A i \in 1 .. k : a[i] = h[i]
  <2>1. k <= Len(h) /\ k \in Nat
    BY <1>0, <1>1
  <2> QED
    BY ONLY <1>1, <2>1, KeepAndAppend
<1> HIDE DEF a
<1>3. a = [i \in 1 .. k + 1 |-> a[i]]
  BY <1>0, <1>2
<1>4. \A i \in 1 .. k + 1 : a[i] = g[i]
  <2> TAKE i \in 1 .. k + 1
  <2>1. i \in 1 .. k \/ i = k + 1
    BY <1>0
  <2> QED
    BY <1>0, <1>2, <2>1
<1>5. [i \in 1 .. k + 1 |-> a[i]] = [i \in 1 .. k + 1 |-> g[i]]
  BY <1>4
<1> QED
  BY <1>0, <1>3, <1>5 DEF a

(* A history that differs from another in its last version.                *)
LEMMA LastReplaced ==
  ASSUME NEW k \in Nat, NEW h, h = [i \in 1 .. k + 1 |-> h[i]],
         NEW g, g = [i \in 1 .. k + 1 |-> g[i]],
         \A i \in 1 .. k : g[i] = h[i], NEW t, g[k + 1] = t
  PROVE  g = [h EXCEPT ![k + 1] = t]
<1> DEFINE n == k + 1
<1>1. DOMAIN h = 1 .. n
  <2>1. DOMAIN [i \in 1 .. n |-> h[i]] = 1 .. n
    OBVIOUS
  <2> QED
    BY <2>1
<1>2. [h EXCEPT ![n] = t] = [i \in 1 .. n |-> IF i = n THEN t ELSE h[i]]
  BY <1>1
<1>3. \A i \in 1 .. n : (IF i = n THEN t ELSE h[i]) = g[i]
  <2> TAKE i \in 1 .. n
  <2>1. i \in 1 .. k \/ i = n
    OBVIOUS
  <2> QED
    BY <2>1
<1>4. [i \in 1 .. n |-> IF i = n THEN t ELSE h[i]] = [i \in 1 .. n |-> g[i]]
  BY <1>3
<1> QED
  BY <1>2, <1>4

(* Recording a step after the last one of a chain makes a version, and in  *)
(* the middle of a chain it extends the newest one.                        *)
LEMMA RecordFollows ==
  ASSUME IInv, ChainInv, StopInv, SizeInv, mode = "idle", do_undo,
         NEW o, NEW n, NEW bytes, NEW t \in Seq(Char), Len(t) <= MaxText, add_undo_step(o, n, bytes, t),
         o \in Nat, n \in Int, UNCHANGED <<chainVars, do_undo, mode>>
  PROVE  Follows
<1> DEFINE c == cur_step
           st == [off |-> o, len |-> n, linked |-> link_undos # 0]
           p == IF c > 0 /\ steps[c].linked THEN c - 1 ELSE c
           k == RankIn(Stops, p)
           q == c + 1
<1>1. /\ steps \in Seq(Step) /\ Len(steps) \in Nat /\ c \in Nat /\ c <= Len(steps)
      /\ Len(ver) = Len(steps) + 1 /\ ver \in Seq(Seq(Char))
  BY FlagTypes, CoreTypes DEF IInv
<1>2. /\ steps' = Append(SubSeq(steps, 1, c), st) /\ cur_step' = q
      /\ ver' = Append(SubSeq(ver, 1, q), t)
  BY DEF add_undo_step
<1>3. Shown = RankIn(Stops, c) /\ c \in Stops
  BY ShownIsText
<1>4. /\ Stops \in SUBSET Nat /\ IsFiniteSet(Stops) /\ 0 \in Stops /\ Len(steps) \in Stops
      /\ \A m \in Stops : m <= Len(steps)
  BY <1>1, StopsAre DEF Stops
<1>5. /\ Len(steps') = q /\ \A i \in 1 .. c : steps'[i] = steps[i]
  <2>1. st \in Step
    BY DEF Step
  <2> HIDE DEF st, c
  <2> QED
    BY <1>1, <1>2, <2>1, KeepAndAppend DEF q
<1>6. /\ Len(ver') = q + 1 /\ ver'[q + 1] = t /\ \A i \in 1 .. q : ver'[i] = ver[i]
  <2>1. q \in Nat /\ q <= Len(ver)
    BY <1>1
  <2> DEFINE X == Seq(Char)
  <2> HIDE DEF q, X
  <2>2. ver \in Seq(X) /\ t \in X
    BY <1>1 DEF X
  <2> QED
    BY <1>2, <2>1, <2>2, KeepAndAppend
<1>7. p \in Nat /\ q \in Nat /\ p <= c /\ p < q 
      /\ (c > 0 /\ steps[c].linked => p = c - 1) /\ (~(c > 0 /\ steps[c].linked) => p = c)
  BY <1>1
<1>8. Stops' = {m \in Stops : m <= p} \cup {q}
  <2>1. StopsOf(steps') = {m \in StopsOf(steps) : m <= p} \cup {c + 1}
    <3>1. c \in StopsOf(steps)
      BY <1>3 DEF Stops
    <3> DEFINE s == steps
               r == steps'
    <3>2. Len(r) = c + 1 /\ \A i \in 1 .. c : r[i] = s[i]
      BY <1>5
    <3>3. c \in StopsOf(s) /\ Len(s) \in Nat /\ c \in Nat /\ c <= Len(s)
      BY <1>1, <3>1
    <3>4. p \in Nat /\ (c > 0 /\ s[c].linked => p = c - 1) /\ (~(c > 0 /\ s[c].linked) => p = c)
      BY <1>7
    <3> HIDE DEF p, c, s, r
    <3>5. StopsOf(r) = {m \in StopsOf(s) : m <= p} \cup {c + 1}
      BY ONLY <3>2, <3>3, <3>4, StopsRecorded
    <3> QED
      BY ONLY <3>5 DEF s, r
  <2> QED
    BY <2>1 DEF Stops
<1>9. \A m \in Stops : m <= p => ver'[1 + m] = ver[1 + m]
  <2> TAKE m \in Stops
  <2> HAVE m <= p
  <2>1. m \in Nat
    BY <1>4
  <2>2. 1 + m \in 1 .. q
    BY <1>1, <1>7, <2>1
  <2> QED
    BY <1>6, <2>2
<1>10. ver'[1 + q] = t
  BY <1>1, <1>6
<1> HIDE DEF p, k, q
<1>11. /\ Stops' \in SUBSET Nat /\ IsFiniteSet(Stops')
       /\ Cardinality(Stops') = k + 1 /\ RankIn(Stops', q) = k + 1
       /\ \A i \in 1 .. k : Versions(Stops', ver')[i] = Versions(Stops, ver)[i]
       /\ Versions(Stops', ver')[k + 1] = ver'[1 + q]
  <2>1. k = RankIn(Stops, p)
    BY DEF k
  <2> DEFINE S == Stops
             U == Stops'
             v == ver
             w == ver'
  <2>2. S \in SUBSET Nat /\ IsFiniteSet(S) /\ k = RankIn(S, p)
    BY <1>4, <2>1
  <2>3. Extends(S, p, q, U, v, w)
    BY <1>8, <1>9 DEF Extends
  <2> HIDE DEF S, U, v, w
  <2>4. /\ U \in SUBSET Nat /\ IsFiniteSet(U)
        /\ Cardinality(U) = k + 1 /\ RankIn(U, q) = k + 1
        /\ \A i \in 1 .. k : Versions(U, w)[i] = Versions(S, v)[i]
        /\ Versions(U, w)[k + 1] = w[1 + q]
    BY ONLY <1>7, <2>2, <2>3, VersionsExtended
  <2> QED
    BY ONLY <2>4 DEF S, U, v, w
<1>12. k \in Nat /\ k <= Cardinality(Stops) /\ Cardinality(Stops) \in Nat
  BY <1>4, RankType DEF k
<1>13. /\ Hist' = [i \in 1 .. k + 1 |-> Hist'[i]] /\ Hist'[k + 1] = t
       /\ \A i \in 1 .. k : Hist'[i] = Hist[i]
       /\ Hist = [i \in 1 .. Cardinality(Stops) |-> Hist[i]] /\ Len(Hist) = Cardinality(Stops)
  BY <1>4, <1>10, <1>11, VersionsAre DEF Hist
<1>14. q \in Stops' /\ Shown' = k + 1
  <2>1. q \in Stops'
    BY <1>8
  <2>2. mode' \in Modes /\ mode' # "undoing" /\ cur_step' = q
    BY <1>2 DEF Modes
  <2>3. ShownIn(Stops', mode', q) = RankIn(Stops', q)
    BY <1>7, <1>11, <2>1, <2>2, ShownAt
  <2> QED
    BY <1>11, <2>1, <2>2, <2>3 DEF Shown
<1>15. StopInv'
  BY <1>2, <1>14 DEF StopInv
<1>16. SizeInv'
  <2> SUFFICES ASSUME NEW i \in 1 .. q + 1 PROVE Len(ver'[i]) <= MaxText
    BY <1>6 DEF SizeInv
  <2>1. CASE i = q + 1
    BY <1>6, <2>1
  <2>2. CASE i # q + 1
    <3>1. i \in 1 .. q /\ i \in 1 .. Len(ver)
      BY <1>1, <1>7, <2>2 DEF q
    <3> QED
      BY <1>6, <3>1 DEF SizeInv
  <2> QED
    BY <2>1, <2>2
<1>17. Open' = Open /\ do_undo' = do_undo
  BY DEF Open, chainVars
<1>18. CASE ~(c > 0 /\ steps[c].linked)
  <2>1. Shown = k
    BY <1>3, <1>18 DEF k, p
  <2>2. Hist' = Append(SubSeq(Hist, 1, k), t)
    <3> DEFINE N == Cardinality(Stops)
               h == Hist
               g == Hist'
    <3>1. /\ N \in Nat /\ k \in Nat /\ k <= N /\ h = [i \in 1 .. N |-> h[i]]
          /\ g = [i \in 1 .. k + 1 |-> g[i]] /\ g[k + 1] = t
          /\ \A i \in 1 .. k : g[i] = h[i]
      BY <1>12, <1>13
    <3> HIDE DEF N, h, g
    <3>2. OneMore(N, h, k, g, t)
      BY ONLY <3>1 DEF OneMore
    <3>3. g = Append(SubSeq(h, 1, k), t)
      BY ONLY <3>2, KeptAndOneMore
    <3> QED
      BY ONLY <3>3 DEF h, g
  <2>3. History!Change(t)
    BY <1>14, <1>17, <2>1, <2>2 DEF History!Change
  <2>4. History!Next
    BY <2>3, TextFits DEF History!Next
  <2> QED
    BY <1>15, <1>16, <2>4 DEF Follows
<1>19. CASE c > 0 /\ steps[c].linked
  <2>1. c = Len(steps)
    BY <1>3, <1>19 DEF Stops, StopsOf
  <2>2. Shown = k + 1
    <3>1. p \in Nat /\ p + 1 = c
      BY <1>1, <1>19 DEF p
    <3>2. RankIn(Stops, p + 1) = RankIn(Stops, p) + 1
      BY <1>3, <1>4, <3>1, RankNext
    <3> QED
      BY <1>3, <3>1, <3>2 DEF k
  <2>3. Shown = Cardinality(Stops)
    <3>1. {m \in Stops : m <= c} = Stops
      BY <1>4, <2>1
    <3> QED
      BY <1>3, <3>1 DEF RankIn
  <2>4. Shown > 1
    <3>1. 0 < c /\ c \in Nat
      BY <1>1, <1>19
    <3>2. RankIn(Stops, 0) < RankIn(Stops, c)
      BY <1>3, <1>4, <3>1, RankGrows
    <3>3. RankIn(Stops, 0) \in 1 .. Cardinality(Stops) /\ RankIn(Stops, c) \in 1 .. Cardinality(Stops)
      BY <1>3, <1>4, VersionAt
    <3> QED
      BY <1>3, <1>12, <3>2, <3>3
  <2>5. Open
    <3>1. link_undos > 0 /\ (atomic_undo <=> link_undos > busy)
      BY <1>19 DEF ChainInv, Linked
    <3>2. link_undos \in Nat /\ busy \in Nat
      BY FlagTypes
    <3> QED
      BY <3>1, <3>2 DEF Open
  <2>6. Hist = [i \in 1 .. k + 1 |-> Hist[i]]
    BY <1>13, <2>2, <2>3
  <2>7. Hist' = [Hist EXCEPT ![k + 1] = t]
    BY <1>12, <1>13, <2>6, LastReplaced
  <2>8. History!Extend(t)
    BY <1>13, <1>14, <1>17, <2>2, <2>3, <2>4, <2>5, <2>7 DEF History!Extend
  <2>9. History!Next
    BY <2>8, TextFits DEF History!Next
  <2> QED
    BY <1>15, <1>16, <2>9 DEF Follows
<1> QED
  BY <1>18, <1>19

(* A turn of the loop of undo() goes back by one version, or the loop is   *)
(* in the middle of a chain and shows what it showed.                      *)
LEMMA UndoFollows ==
  ASSUME IInv, StopInv, SizeInv, UndoStep
  PROVE  Follows
<1> DEFINE S == Stops
           p == cur_step - 1
<1>1. /\ mode \in {"undo", "undoing"} /\ mode \in Modes /\ steps' = steps /\ ver' = ver
      /\ cur_step' = p /\ cur_step > 0 /\ UNCHANGED <<chainVars, optVars>>
      /\ mode' = IF p > 0 /\ steps[p].linked THEN "undoing" ELSE "undo"
  BY DEF UndoStep, IInv, LoopInBounds, Modes, Linked
<1>2. cur_step \in Nat /\ cur_step <= Len(steps) /\ Len(steps) \in Nat
  BY FlagTypes
<1>3. S \in SUBSET Nat /\ IsFiniteSet(S)
  BY <1>2, StopsAre DEF Stops
<1>4. p \in Nat /\ p < Len(steps)
  BY <1>1, <1>2
<1>5. Shown = RankIn(S, p) + 1
  <2>1. mode = "undo" => cur_step \in S
    BY DEF StopInv
  <2>2. ShownIn(S, mode, cur_step) = RankIn(S, cur_step - 1) + 1
    <3> HIDE DEF S
    <3> QED
      BY <1>1, <1>2, <1>3, <2>1, ShownAt
  <2> QED
    BY <2>2 DEF Shown
<1>6. Stops' = S /\ Hist' = Hist /\ SizeInv'
  BY <1>1 DEF Stops, Hist, SizeInv
<1>7. Open' = Open /\ do_undo' = do_undo
  BY <1>1 DEF Open, chainVars, optVars
<1>8. p \in S <=> ~(p > 0 /\ steps[p].linked)
  <2> HIDE DEF p
  <2>1. p \in 0 .. Len(steps) /\ p # Len(steps) /\ (p > 0 <=> p # 0)
    BY <1>2, <1>4
  <2> QED
    BY <2>1 DEF Stops, StopsOf
<1>9. RankIn(S, p) \in Nat
  BY <1>3, RankType
<1>10. Shown' = ShownIn(S, mode', p)
  BY <1>1, <1>6 DEF Shown
<1> HIDE DEF S, p
<1>11. CASE p > 0 /\ steps[p].linked
  <2> DEFINE r == p - 1
  <2>1. mode' = "undoing" /\ r \in Nat /\ r + 1 = p
    BY <1>1, <1>4, <1>11
  <2>2. ShownIn(S, "undoing", p) = RankIn(S, r) + 1
    BY DEF ShownIn
  <2> HIDE DEF r
  <2>3. RankIn(S, r + 1) = RankIn(S, r)
    BY <1>3, <1>8, <1>11, <2>1, RankNext
  <2>4. Shown' = Shown
    BY <1>5, <1>10, <2>1, <2>2, <2>3
  <2>5. StopInv'
    BY <2>1 DEF StopInv
  <2> QED
    BY <1>6, <1>7, <2>4, <2>5, GroupStep DEF Follows
<1>12. CASE ~(p > 0 /\ steps[p].linked)
  <2>1. mode' = "undo" /\ "undo" \in Modes /\ p \in S
    BY <1>1, <1>8, <1>12 DEF Modes
  <2>2. ShownIn(S, "undo", p) = RankIn(S, p)
    BY <1>3, <1>4, <2>1, ShownAt
  <2>3. RankIn(S, p) \in 1 .. Cardinality(S)
    BY <1>3, <2>1, VersionAt
  <2>4. Shown > 1 /\ Shown' = Shown - 1
    BY <1>5, <1>9, <1>10, <2>1, <2>2, <2>3
  <2>5. StopInv'
    BY <1>1, <1>6, <2>1 DEF StopInv
  <2>6. History!Undo
    BY <1>6, <1>7, <2>4 DEF History!Undo
  <2>7. History!Next
    BY <2>6 DEF History!Next
  <2> QED
    BY <1>6, <2>5, <2>7 DEF Follows
<1> QED
  BY <1>11, <1>12

(* A turn of the loop of redo() goes on by one version when it comes to    *)
(* the end of a chain.                                                     *)
LEMMA RedoFollows ==
  ASSUME IInv, StopInv, SizeInv, RedoStep
  PROVE  Follows
<1> DEFINE S == Stops
           c == cur_step
           q == cur_step + 1
<1>1. /\ mode \in {"redo", "redoing"} /\ mode \in Modes /\ mode # "undoing"
      /\ steps' = steps /\ ver' = ver
      /\ cur_step' = q /\ cur_step < Len(steps) /\ UNCHANGED <<chainVars, optVars>>
      /\ mode' = IF q < Len(steps) /\ steps[q].linked THEN "redoing" ELSE "redo"
  BY DEF RedoStep, IInv, LoopInBounds, Modes, Linked
<1>2. c \in Nat /\ Len(steps) \in Nat
  BY FlagTypes
<1>3. S \in SUBSET Nat /\ IsFiniteSet(S)
  BY <1>2, StopsAre DEF Stops
<1>4. q \in Nat /\ q <= Len(steps) /\ q # 0 /\ q = c + 1
  BY <1>1, <1>2
<1>5. Shown = RankIn(S, c)
  <2>1. mode = "redo" => c \in S
    BY DEF StopInv
  <2>2. ShownIn(S, mode, c) = RankIn(S, c)
    <3> HIDE DEF S, c
    <3> QED
      BY <1>1, <1>2, <1>3, <2>1, ShownAt
  <2> QED
    BY <2>2 DEF Shown
<1>6. Stops' = S /\ Hist' = Hist /\ SizeInv'
  BY <1>1 DEF Stops, Hist, SizeInv
<1>7. Open' = Open /\ do_undo' = do_undo
  BY <1>1 DEF Open, chainVars, optVars
<1>8. q \in S <=> ~(q < Len(steps) /\ steps[q].linked)
  BY <1>2, <1>4 DEF Stops, StopsOf
<1>9. RankIn(S, c) \in Nat /\ Cardinality(S) \in Nat /\ Len(Hist) = Cardinality(S)
  BY <1>3, RankType, VersionsAre DEF Hist
<1>10. Shown' = ShownIn(S, mode', q)
  BY <1>1, <1>6 DEF Shown
<1> HIDE DEF S, c, q
<1>11. RankIn(S, q) = IF q \in S THEN RankIn(S, c) + 1 ELSE RankIn(S, c)
  BY <1>2, <1>3, <1>4, RankNext
<1>12. CASE q < Len(steps) /\ steps[q].linked
  <2>1. mode' = "redoing" /\ q \notin S
    BY <1>1, <1>8, <1>12
  <2>2. ShownIn(S, "redoing", q) = RankIn(S, q)
    BY DEF ShownIn
  <2>3. Shown' = Shown
    BY <1>5, <1>10, <1>11, <2>1, <2>2
  <2>4. StopInv'
    BY <2>1 DEF StopInv
  <2> QED
    BY <1>6, <1>7, <2>3, <2>4, GroupStep DEF Follows
<1>13. CASE ~(q < Len(steps) /\ steps[q].linked)
  <2>1. mode' = "redo" /\ "redo" \in Modes /\ q \in S
    BY <1>1, <1>8, <1>13 DEF Modes
  <2>2. ShownIn(S, "redo", q) = RankIn(S, q)
    BY <1>3, <1>4, <2>1, ShownAt
  <2>3. RankIn(S, q) \in 1 .. Cardinality(S)
    BY <1>3, <2>1, VersionAt
  <2>4. Shown < Len(Hist) /\ Shown' = Shown + 1
    BY <1>5, <1>9, <1>10, <1>11, <2>1, <2>2, <2>3
  <2>5. StopInv'
    BY <1>1, <1>6, <2>1 DEF StopInv
  <2>6. History!Redo
    BY <1>6, <1>7, <2>4 DEF History!Redo
  <2>7. History!Next
    BY <2>6 DEF History!Next
  <2> QED
    BY <1>6, <2>5, <2>7 DEF Follows
<1> QED
  BY <1>12, <1>13

(* A document just loaded has one version.                                 *)
LEMMA InitPromise ==
  ASSUME Init, Len(Text0) <= MaxText
  PROVE  StopInv /\ SizeInv /\ History!Init
<1>1. /\ steps = << >> /\ cur_step = 0 /\ ver = <<Text0>> /\ mode = "idle"
      /\ busy = 0 /\ atomic_undo = FALSE /\ do_undo \in BOOLEAN
  BY DEF Init
<1>2. ver[1] = Text0 /\ Len(ver) = 1 /\ mode \in Modes /\ mode # "undoing"
  BY <1>1 DEF Modes
<1>3. /\ StopsOf(steps) = {0} /\ Versions(StopsOf(steps), ver) = <<Text0>>
      /\ ShownIn(StopsOf(steps), mode, 0) = 1
  BY <1>1, <1>2, OneStop
<1>4. Hist = <<Text0>> /\ Shown = 1 /\ 0 \in Stops
  BY <1>1, <1>3 DEF Hist, Shown, Stops
<1>5. Open = FALSE
  BY <1>1 DEF Open
<1>6. History!Init
  BY <1>1, <1>4, <1>5 DEF History!Init
<1>7. StopInv /\ SizeInv
  BY <1>1, <1>2, <1>4 DEF StopInv, SizeInv
<1> QED
  BY <1>6, <1>7

(* Every step of the undo system but DoUndo is one of the promise.         *)
LEMMA NextFollows ==
  ASSUME "DoUndo" \notin Commands
  PROVE  PromiseInv /\ [Next]_vars => PromiseInv' /\ [History!Next]_(History!vars)
<1> SUFFICES ASSUME PromiseInv, [Next]_vars, IInv', ChainInv'
             PROVE  Follows
  BY NextIInv, NextChainInv DEF PromiseInv, Follows
<1>0. /\ IInv /\ ChainInv /\ StopInv /\ SizeInv
      /\ text' \in Seq(Char) /\ text \in Seq(Char) /\ Len(text) \in Nat /\ Len(text) <= MaxText
      /\ Len(steps) \in Nat /\ link_undos \in Nat
  <2>1. IInv /\ ChainInv /\ StopInv /\ SizeInv /\ text' \in Seq(Char) /\ text \in Seq(Char)
    BY DEF PromiseInv, IInv, Core
  <2>2. cur_step + 1 \in 1 .. Len(ver) /\ text = ver[cur_step + 1]
    BY <2>1, FlagTypes DEF IInv, Core, UndoRedoExact
  <2> QED
    BY <2>1, <2>2, FlagTypes DEF SizeInv
<1>1. ASSUME NEW s \in Streams, NEW o \in 0 .. Len(text), InsertStream(o, s)
      PROVE  Follows
  <2>1. s \in Seq(Char) /\ Len(s) \in Nat /\ o \in Nat /\ o <= Len(text) /\ -Len(s) \in Int
    BY <1>0, StreamsAreTexts
  <2>2. Len(text') <= MaxText
    <3>1. text' = Insert(text, o, s) /\ Len(text) + Len(s) <= MaxText
      BY <1>1 DEF InsertStream
    <3>2. Len(Insert(text, o, s)) = Len(text) + Len(s)
      <4>1. text \in Seq(Char)
        BY <1>0
      <4> DEFINE t == text
                 r == Insert(text, o, s)
      <4>2. t \in Seq(Char) /\ r = Insert(t, o, s) /\ s \in Seq(Char) /\ o \in Nat /\ o <= Len(t)
        BY ONLY <2>1, <4>1
      <4> HIDE DEF t, r
      <4>3. Len(r) = Len(t) + Len(s)
        BY ONLY <4>2, InsertType
      <4> QED
        BY ONLY <4>3 DEF t, r
    <3> QED
      BY <3>1, <3>2
  <2>3. mode = "idle" /\ UNCHANGED <<chainVars, do_undo, mode>>
    BY <1>1 DEF InsertStream, optVars
  <2>4. CASE do_undo
    <3>1. add_undo_step(o, -Len(s), << >>, text')
      BY <1>1, <2>4 DEF InsertStream
    <3> QED
      BY <1>0, <2>1, <2>2, <2>3, <2>4, <3>1, RecordFollows
  <2>5. CASE ~do_undo
    <3>1. skip_undo_step(text')
      BY <1>1, <2>5 DEF InsertStream
    <3> QED
      BY <1>0, <2>2, <2>3, <2>5, <3>1, SkipFollows
  <2> QED
    BY <2>4, <2>5
<1>2. ASSUME NEW o \in 0 .. Len(text), NEW n \in 1 .. MaxIns, DeleteStream(o, n)
      PROVE  Follows
  <2> DEFINE bytes == Slice(text, o, n)
             len == Len(bytes)
  <2>1. o \in Nat /\ o < Len(text) /\ n \in Nat \ {0}
    BY <1>0, <1>2, BoundAssumption DEF DeleteStream
  <2>2. PICK m \in Nat \ {0} : /\ o + m <= Len(text) /\ Slice(text, o, n) = Slice(text, o, m)
                               /\ Delete(text, o, n) = Delete(text, o, m)
    BY <1>0, <2>1, DeleteStops
  <2>3. Len(text') <= MaxText
    <3>1. text' = Delete(text, o, n)
      BY <1>2 DEF DeleteStream
    <3>2. Len(Delete(text, o, m)) = Len(text) - m
      BY <1>0, <2>1, <2>2, DeleteType
    <3>3. Len(text) - m <= MaxText
      BY <1>0, BoundAssumption
    <3> QED
      BY <2>2, <3>1, <3>2, <3>3
  <2>4. len \in Int
    BY <1>0, <2>1, <2>2, SliceType
  <2>5. mode = "idle" /\ UNCHANGED <<chainVars, do_undo, mode>>
    BY <1>2 DEF DeleteStream, optVars
  <2>6. CASE do_undo
    <3>1. add_undo_step(o, len, bytes, text')
      BY <1>2, <2>6 DEF DeleteStream
    <3> HIDE DEF len, bytes
    <3> QED
      BY <1>0, <2>1, <2>3, <2>4, <2>5, <2>6, <3>1, RecordFollows
  <2>7. CASE ~do_undo
    <3>1. skip_undo_step(text')
      BY <1>2, <2>7 DEF DeleteStream
    <3> QED
      BY <1>0, <2>3, <2>5, <2>7, <3>1, SkipFollows
  <2> QED
    BY <2>6, <2>7
<1>3. CASE StartChain
  BY <1>0, <1>3, FrameFollows DEF StartChain, stepVars, history, optVars
<1>4. CASE EndChain
  BY <1>0, <1>4, ChainFollows DEF EndChain, history, optVars
<1>5. ASSUME NEW c \in 0 .. MaxLink, AtomicUndo(c)
      PROVE  Follows
  <2>1. /\ mode = "idle" /\ mode' = "idle" /\ UNCHANGED <<cur_step, ver, do_undo>>
        /\ CloseChain(c) \/ UNCHANGED steps
    BY <1>5 DEF AtomicUndo, AtPrompt, history, optVars
  <2> QED
    BY <1>0, <2>1, ChainFollows
<1>6. CASE UndoBegin
  <2>1. /\ mode = "idle" /\ mode' = "undo" /\ UNCHANGED <<cur_step, ver, do_undo>>
        /\ CloseChain(0) \/ UNCHANGED steps
    BY <1>6 DEF UndoBegin, AtPrompt, history, optVars
  <2> QED
    BY <1>0, <2>1, ChainFollows
<1>7. CASE RedoBegin \/ UndoEnd \/ RedoEnd
  <2>1. /\ mode \in {"idle", "undo", "redo"} /\ mode' \in {"idle", "undo", "redo"}
        /\ UNCHANGED <<cur_step, ver, do_undo, steps>>
    BY <1>7 DEF RedoBegin, UndoEnd, RedoEnd, AtPrompt, stepVars, history, optVars
  <2>2. CloseChain(0) \/ UNCHANGED steps
    BY <2>1
  <2> QED
    BY <1>0, <2>1, <2>2, ChainFollows
<1>8. CASE UndoStep
  BY <1>0, <1>8, UndoFollows
<1>9. CASE RedoStep
  BY <1>0, <1>9, RedoFollows
<1>10. CASE Save \/ SaveCancelled \/ SaveAll \/ UNCHANGED vars
  BY <1>0, <1>10, FrameFollows DEF Save, SaveCancelled, SaveAll, vars, stepVars, history, optVars
<1>11. ASSUME NEW k, SaveFailed(k)
       PROVE  Follows
  BY <1>0, <1>11, FrameFollows DEF SaveFailed, stepVars, history, optVars
<1>12. ASSUME NEW c, Modified(c) \/ ReadOnly(c)
       PROVE  Follows
  BY <1>0, <1>12, FrameFollows DEF Modified, ReadOnly, stepVars, history, optVars
<1>13. CASE UTF8
  BY <1>0, <1>13, ResetFollows DEF UTF8, AtPrompt, optVars
<1>14. CASE Clear
  BY <1>0, <1>14, ResetFollows DEF Clear, AtPrompt, optVars
<1>15. ASSUME NEW c, DoUndo(c)
       PROVE  FALSE
  BY <1>15 DEF DoUndo
<1> QED
  BY <1>1, <1>2, <1>3, <1>4, <1>5, <1>6, <1>7, <1>8, <1>9, <1>10, <1>11, <1>12, <1>13,
     <1>14, <1>15 DEF Next, Edit, Loop

(* The undo buffer keeps the promise of UndoHistory: whatever the bytes,   *)
(* the text the document was loaded with and the bounds, each command and  *)
(* each group under AtomicUndo is undone and redone as a whole, and no     *)
(* other command moves the history, as long as undo is not switched off    *)
(* and on.                                                                 *)
THEOREM PromiseKept ==
  ASSUME "DoUndo" \notin Commands, Len(Text0) <= MaxText
  PROVE  Spec => KeepsHistory
<1>1. Init => PromiseInv /\ History!Init
  BY InitIInv, InitChainInv, InitPromise DEF PromiseInv
<1>2. PromiseInv /\ [Next]_vars => PromiseInv' /\ [History!Next]_(History!vars)
  BY NextFollows
<1> QED
  BY <1>1, <1>2, PTL DEF Spec, KeepsHistory, History!Spec
=============================================================================
