----------------------------- MODULE Network_proofs -----------------------------
(***************************************************************************)
(* Proofs about the parts that MCNetwork runs: the safety properties of    *)
(* lines and blocks, the control script, the way to the server, the        *)
(* transfer of photos and the watcher, for any texts and buffers, and any  *)
(* number of processes, addresses, forms and files.  Each is proved of the *)
(* part alone, then of the run, whose steps are steps of the parts.        *)
(***************************************************************************)
EXTENDS MCNetwork, WellFoundedInduction, TLAPS

-----------------------------------------------------------------------------
(* Lines and blocks, however the bytes are divided among the reads *)

\* The parts follow each other in the text.
LEMMA PartBounds ==
    /\ Len(Raw) \in Nat /\ 1 \in Parts
    /\ \A s \in Parts : Last[s] \in Nat /\ First(s) \in Nat /\ First(s) >= 1
                        /\ First(s) <= Last[s]
    /\ \A s, t \in Parts : s <= t => Last[s] <= Last[t]
    /\ Total \in Nat /\ \A s \in Parts : Last[s] <= Total
<1> USE LineAssumption
<1>1. Len(Raw) \in Nat /\ 1 \in Parts /\ Len(Raw) \in Parts
  BY DEF Parts
<1>2. \A s, t \in Parts : s <= t => Last[s] <= Last[t]
  <2> SUFFICES ASSUME NEW s \in Parts, NEW t \in Parts, s <= t
               PROVE  Last[s] <= Last[t]
    OBVIOUS
  <2>1. s \in Int /\ t \in Int /\ Last[s] \in Nat /\ Last[t] \in Nat
    BY DEF Parts
  <2>2. CASE s = t
    BY <2>1, <2>2
  <2>3. CASE s < t
    BY <2>1, <2>3
  <2>4. QED
    BY <2>1, <2>2, <2>3
<1>3. ASSUME NEW s \in Parts
      PROVE  /\ Last[s] \in Nat /\ First(s) \in Nat /\ First(s) >= 1
             /\ First(s) <= Last[s]
  <2>1. CASE s = 1
    BY <1>1, <2>1 DEF First, Parts
  <2>2. CASE s # 1
    <3>1. s - 1 \in Parts /\ s - 1 < s
      BY <1>1, <2>2 DEF Parts
    <3>2. Last[s - 1] < Last[s] /\ Last[s - 1] \in Nat /\ Last[s] \in Nat
      BY <3>1
    <3>3. QED
      BY <2>2, <3>2 DEF First
  <2>3. QED
    BY <2>1, <2>2
<1>4. \A s \in Parts : s <= Len(Raw)
  BY <1>1 DEF Parts
<1>5. QED
  BY <1>1, <1>2, <1>3, <1>4 DEF Total

LEMMA BytesType ==
    ASSUME NEW t \in [1..Total -> Byte], NEW from \in Nat, NEW k \in Nat,
           from + k <= Total, NEW p \in Seq(Byte),
           NEW b, b = [at \in 1..k |-> t[from + at]]
    PROVE  /\ p \o b \in Seq(Byte) /\ Len(p \o b) = Len(p) + k
           /\ \A at \in 1..Len(p) : (p \o b)[at] = p[at]
           /\ \A at \in Len(p) + 1..Len(p) + k :
                (p \o b)[at] = t[from + (at - Len(p))]
<1> USE PartBounds
<1>1. b \in Seq(Byte) /\ Len(b) = k
  OBVIOUS
<1>2. QED
  BY <1>1

\* The counts of a state, without the rest of its type.
LEMMA Counts ==
    ASSUME TypeOK
    PROVE  /\ start \in Nat /\ Len(ptr) \in Nat /\ Given = start + Len(ptr)
           /\ Given \in Nat /\ taken \in Nat /\ sent \in Nat
           /\ rl_cnt \in Int /\ rl_bufptr \in Nat /\ Ahead \in Nat
           /\ rl_cnt > 0 => Ahead = rl_cnt
           /\ rl_cnt <= 0 => Ahead = 0
  BY LineAssumption DEF TypeOK, Given, Ahead

-----------------------------------------------------------------------------
(* The invariant *)

LEMMA LineInit == Init => IInv
<1> SUFFICES ASSUME Init PROVE IInv
  OBVIOUS
<1> USE LineAssumption, PartBounds
<1>1. rl_buf \in [0..MaxLine - 1 -> Byte]
  BY DEF Init
<1>2. TypeOK
  BY <1>1 DEF Init, TypeOK
<1>3. Position /\ InCall /\ EveryByteOnce /\ LikeFgets /\ RawExact
  BY DEF Init, Position, InCall, EveryByteOnce, LikeFgets, RawExact, Given,
         Ahead, First
<1>4. QED
  BY <1>2, <1>3 DEF IInv

\* The writer's steps change nothing the reader has.
LEMMA WriterInv ==
    ASSUME IInv, Writer \/ CloseLink \/ ResetLink \/ UNCHANGED vars
    PROVE  IInv'
<1> USE LineAssumption, PartBounds
<1> USE DEF IInv
<1>1. ASSUME NEW k \in 1..Total, Write(k) PROVE IInv'
  <2>1. TypeOK'
    BY <1>1 DEF TypeOK, Write, reader, readbuf
  <2>2. Position' /\ InCall' /\ EveryByteOnce' /\ RawExact'
    BY <1>1 DEF Write, reader, readbuf, TypeOK, Position, InCall,
                EveryByteOnce, RawExact, Given, Ahead, RawLength
  <2>3. LikeFgets'
    BY <1>1 DEF Write, reader, LikeFgets, LineDone, Given
  <2>4. QED
    BY <2>1, <2>2, <2>3
<1>2. CASE NextPart
  <2>1. wpart + 1 \in Parts
    BY <1>2 DEF NextPart, TypeOK, Parts
  <2>2. Last[wpart] < Last[wpart + 1] /\ Last[wpart + 1] \in Nat
        /\ Last[wpart] \in Nat
    BY <2>1 DEF TypeOK, Parts
  <2>3. TypeOK'
    BY <1>2, <2>1, <2>2 DEF NextPart, TypeOK, reader, readbuf
  <2>4. Position'
    BY <1>2, <2>1, <2>2
       DEF NextPart, Answered, Position, TypeOK, reader, Parts
  <2>5. InCall' /\ EveryByteOnce' /\ RawExact' /\ LikeFgets'
    BY <1>2 DEF NextPart, reader, readbuf, InCall, EveryByteOnce, RawExact,
                LikeFgets, LineDone, Given, Ahead, RawLength
  <2>6. QED
    BY <2>3, <2>4, <2>5
<1>3. CASE CloseLink \/ ResetLink \/ UNCHANGED vars
  <2>1. TypeOK'
    BY <1>3 DEF CloseLink, ResetLink, vars, TypeOK, writer, reader, readbuf
  <2>2. Position' /\ InCall' /\ EveryByteOnce' /\ RawExact' /\ LikeFgets'
    BY <1>3 DEF CloseLink, ResetLink, vars, writer, reader, readbuf, Position,
                InCall, EveryByteOnce, RawExact, LikeFgets, LineDone, Given,
                Ahead, RawLength
  <2>3. QED
    BY <2>1, <2>2
<1>4. QED
  BY <1>1, <1>2, <1>3 DEF Writer

LEMMA ReadnInv == ASSUME IInv, Readn PROVE IInv'
<1> USE LineAssumption, PartBounds
<1> USE DEF IInv
<1>1. ASSUME NEW k \in 1..Total, ReadnRead(k) PROVE IInv'
  <2> DEFINE b == Bytes(taken, k)
  <2>1. /\ part \in Parts /\ wpart \in Parts /\ Last[wpart] <= Last[part]
        /\ Last[part] \in Nat /\ Last[wpart] \in Nat /\ Last[part] <= Total
    BY DEF TypeOK, Position, Parts
  <2>2. taken \in Nat /\ k \in Nat /\ taken + k <= Total
    BY <1>1, <2>1 DEF ReadnRead, TypeOK, Position
  <2>3. /\ ptr' \in Seq(Byte) /\ Len(ptr') = Len(ptr) + k
        /\ \A at \in 1..Len(ptr) : ptr'[at] = ptr[at]
        /\ \A at \in Len(ptr) + 1..Len(ptr) + k :
             ptr'[at] = text[taken + (at - Len(ptr))]
    <3>1. text \in [1..Total -> Byte] /\ ptr \in Seq(Byte)
          /\ ptr' = ptr \o b
      BY <1>1, LineAssumption DEF TypeOK, ReadnRead
    <3>2. b = [at \in 1..k |-> text[taken + at]]
      BY DEF Bytes
    <3> HIDE DEF b
    <3>3. QED
      BY <2>2, <3>1, <3>2, BytesType
  <2>4. TypeOK'
    BY <1>1, <2>2, <2>3 DEF ReadnRead, TypeOK, writer, readbuf
  <2>5. Position'
    BY <1>1 DEF ReadnRead, TypeOK, Position, writer
  <2>6. taken = start + Len(ptr) /\ Ahead = 0
    <3>1. Ahead = 0 /\ taken = Given + Ahead
      BY <1>1 DEF ReadnRead, RawExact, EveryByteOnce
    <3>2. QED
      BY <3>1, Counts
  <2>7. EveryByteOnce'
    <3>1. taken' = Given' + Ahead'
      <4>1. taken' = taken + k /\ start' = start /\ Ahead' = Ahead
        BY <1>1 DEF ReadnRead, Ahead, readbuf
      <4>2. Given' = start + (Len(ptr) + k)
        BY <2>3, <4>1 DEF Given
      <4>3. QED
        BY <2>2, <2>6, <4>1, <4>2, Counts, SMTT(20)
    <3>2. ASSUME NEW at \in 1..Len(ptr') PROVE ptr'[at] = text'[start' + at]
      <4> HIDE DEF IInv
      <4>0. /\ at \in Int /\ 1 <= at /\ at <= Len(ptr) + k
            /\ text' = text /\ start' = start
            /\ \A j \in 1..Len(ptr) : ptr[j] = text[start + j]
        BY <1>1, <2>2, <2>3, Counts DEF ReadnRead, EveryByteOnce, IInv
      <4>1. CASE at <= Len(ptr)
        BY <2>3, <4>0, <4>1
      <4>2. CASE at > Len(ptr)
        <5>1. taken + (at - Len(ptr)) = start + at
          <6>1. Len(ptr) \in Nat /\ start \in Nat
            BY Counts DEF IInv
          <6>2. at \in Int /\ taken = start + Len(ptr)
            BY <2>6, <4>0
          <6>3. QED
            BY <6>1, <6>2
        <5>2. at \in Len(ptr) + 1..Len(ptr) + k
          <6>1. Len(ptr) \in Nat
            BY Counts DEF IInv
          <6>2. k \in Nat
            BY <2>2
          <6>3. at \in Int /\ at <= Len(ptr) + k /\ at > Len(ptr)
            BY <4>0, <4>2
          <6>4. QED
            BY <6>1, <6>2, <6>3
        <5>3. QED
          BY <2>3, <4>0, <5>1, <5>2
      <4>3. QED
        BY <4>0, <4>1, <4>2, Counts DEF IInv
    <3>3. Ahead' = 0
      BY <1>1, <2>6 DEF ReadnRead, Ahead, readbuf
    <3>4. QED
      BY <3>1, <3>2, <3>3 DEF EveryByteOnce
  <2>8. InCall' /\ RawExact' /\ LikeFgets'
    <3>1. /\ pc = "read" /\ pc' = "read" /\ part' = part /\ Raw[part]
          /\ start' = start /\ Ahead' = Ahead /\ k <= RawLength - Len(ptr)
      BY <1>1 DEF ReadnRead, Ahead, readbuf
    <3>2. Given' = start + (Len(ptr) + k)
      BY <2>3, <3>1 DEF Given
    <3>3. start + 1 = First(part) /\ First(part) \in Nat
      BY <2>1, <3>1 DEF RawExact
    <3>4. Given' <= Last[part]
      <4>1. Len(ptr) \in Nat /\ start \in Nat /\ k \in Nat
            /\ Last[part] \in Nat /\ First(part) \in Nat
        BY <2>1, <2>2, <3>3, Counts
      <4>2. k <= (Last[part] - First(part) + 1) - Len(ptr)
        BY <3>1 DEF RawLength
      <4>3. QED
        BY <3>2, <3>3, <4>1, <4>2
    <3>5. QED
      BY <2>6, <3>1, <3>3, <3>4 DEF InCall, RawExact, LikeFgets
  <2>9. QED
    BY <2>4, <2>5, <2>7, <2>8
<1>2. CASE ReadnReturn
  <2>1. TypeOK' /\ Position' /\ InCall' /\ EveryByteOnce' /\ LikeFgets'
    BY <1>2, SMTT(20) DEF ReadnReturn, Return, TypeOK, Position, InCall, EveryByteOnce,
                LikeFgets, Given, Ahead, writer, readbuf
  <2>2. RawExact'
    BY <1>2 DEF ReadnReturn, Return, RawExact, Ahead, readbuf, RawLength
  <2>3. QED
    BY <2>1, <2>2
<1>3. QED
  BY <1>1, <1>2 DEF Readn

LEMMA ReadlineInv == ASSUME IInv, Readline PROVE IInv'
<1> USE LineAssumption, PartBounds
<1> USE DEF IInv
<1>1. ASSUME NEW k \in 1..MaxLine, Refill(k) PROVE IInv'
  <2>1. /\ part \in Parts /\ wpart \in Parts /\ Last[wpart] <= Last[part]
        /\ Last[part] \in Nat /\ Last[wpart] \in Nat /\ Last[part] <= Total
    BY DEF TypeOK, Position, Parts
  <2>2. taken \in Nat /\ k \in Nat /\ taken + k <= Total /\ taken = Given
    <3>1. taken + k <= sent /\ rl_cnt <= 0 /\ wleft \in Nat
          /\ sent + wleft = Last[wpart] /\ taken = Given + Ahead
      BY <1>1 DEF Refill, Position, EveryByteOnce, TypeOK
    <3>2. taken \in Nat /\ sent \in Nat /\ Given \in Nat /\ Ahead = 0
      BY <3>1, Counts
    <3>3. k \in Nat
      OBVIOUS
    <3>4. QED
      BY <2>1, <3>1, <3>2, <3>3
  <2>3. text \in [1..Total -> Byte]
    BY DEF TypeOK
  <2>4. /\ rl_buf' \in [0..MaxLine - 1 -> Byte]
        /\ \A at \in 0..k - 1 : rl_buf'[at] = text[taken + at + 1]
    BY <1>1, <2>2, <2>3 DEF Refill, TypeOK
  <2>5. TypeOK' /\ Position'
    BY <1>1, <2>4 DEF Refill, TypeOK, Position, writer, reader
  <2>6. EveryByteOnce'
    <3>1. /\ taken' = taken + k /\ rl_cnt' = k /\ rl_bufptr' = 0
          /\ start' = start /\ ptr' = ptr /\ text' = text
      BY <1>1 DEF Refill, reader
    <3>2. Ahead' = k /\ Given' = Given
      BY <2>2, <3>1 DEF Ahead, Given
    <3>3. \A at \in 0..k - 1 : rl_buf'[0 + at] = text[Given + at + 1]
      BY <2>2, <2>4
    <3>4. QED
      BY <2>2, <3>1, <3>2, <3>3 DEF EveryByteOnce
  <2>7. InCall' /\ RawExact' /\ LikeFgets'
    BY <1>1 DEF Refill, InCall, RawExact, LikeFgets, Given, reader
  <2>8. QED
    BY <2>5, <2>6, <2>7
<1>2. CASE TakeByte
  <2>1. /\ part \in Parts /\ wpart \in Parts /\ Last[wpart] <= Last[part]
        /\ Last[part] \in Nat /\ Last[wpart] \in Nat
    BY DEF TypeOK, Position, Parts
  <2>2. rl_buf[rl_bufptr] \in Byte /\ rl_buf[rl_bufptr] = text[Given + 1]
    <3>1. rl_bufptr \in 0..MaxLine - 1
      BY <1>2 DEF TakeByte, TypeOK
    <3>2. 0 \in 0..Ahead - 1
      BY <1>2, Counts, SMTT(20) DEF TakeByte
    <3>3. rl_buf[rl_bufptr + 0] = text[Given + 0 + 1]
      BY <3>2 DEF EveryByteOnce
    <3>4. QED
      BY <3>1, <3>3, Counts, SMTT(20) DEF TypeOK
  <2>3. /\ ptr' \in Seq(Byte) /\ Len(ptr') = Len(ptr) + 1
        /\ \A at \in 1..Len(ptr) : ptr'[at] = ptr[at]
        /\ ptr'[Len(ptr) + 1] = rl_buf[rl_bufptr]
    BY <1>2, <2>2 DEF TakeByte, TypeOK
  <2>4. TypeOK' /\ Position'
    BY <1>2, <2>3 DEF TakeByte, TypeOK, Position, writer
  <2>5. EveryByteOnce'
    <3>0. /\ taken' = taken /\ start' = start /\ text' = text
          /\ rl_cnt' = rl_cnt - 1 /\ rl_cnt > 0
      BY <1>2 DEF TakeByte
    <3>1. taken' = Given' + Ahead' /\ Given' = Given + 1
          /\ Ahead' = Ahead - 1
      <4>1. Given' = start + (Len(ptr) + 1)
        BY <2>3, <3>0 DEF Given
      <4>2. Ahead' = rl_cnt - 1
        BY <3>0, Counts DEF Ahead
      <4>3. taken = Given + Ahead
        BY DEF EveryByteOnce
      <4>4. /\ start \in Nat /\ Len(ptr) \in Nat /\ Given = start + Len(ptr)
            /\ rl_cnt \in Int /\ Ahead = rl_cnt
        BY <3>0, Counts
      <4>5. Given' = Given + 1 /\ Ahead' = Ahead - 1
        BY <4>1, <4>2, <4>4
      <4>6. QED
        BY <3>0, <4>3, <4>4, <4>5
    <3>2. ASSUME NEW at \in 1..Len(ptr') PROVE ptr'[at] = text'[start' + at]
      <4>1. CASE at = Len(ptr) + 1
        BY <2>2, <2>3, <3>0, <4>1, Counts, SMTT(20)
      <4>2. CASE at # Len(ptr) + 1
        <5>1. at \in 1..Len(ptr)
          BY <2>3, <4>2, Counts
        <5>2. QED
          BY <2>3, <3>0, <5>1 DEF EveryByteOnce
      <4>3. QED
        BY <4>1, <4>2
    <3>3. ASSUME NEW at \in 0..Ahead' - 1
          PROVE  rl_buf'[rl_bufptr' + at] = text'[Given' + at + 1]
      <4>1. at + 1 \in 0..Ahead - 1 /\ at \in Int
        BY <3>1, SMTT(20) DEF Ahead, TypeOK
      <4>2. rl_buf[rl_bufptr + (at + 1)] = text[Given + (at + 1) + 1]
        BY <4>1 DEF EveryByteOnce
      <4>3. rl_bufptr' + at = rl_bufptr + (at + 1)
            /\ Given' + at + 1 = Given + (at + 1) + 1
        BY <1>2, <3>1, <4>1 DEF TakeByte, TypeOK, Given
      <4>4. QED
        BY <1>2, <4>2, <4>3 DEF TakeByte
    <3>4. QED
      BY <3>1, <3>2, <3>3 DEF EveryByteOnce
  <2>6. InCall'
    <3>1. Given' <= Last'[part']
      <4>1. /\ Given + Ahead <= sent /\ Ahead > 0 /\ Given \in Nat /\ Ahead \in Nat
            /\ sent \in Nat
        BY <1>2, Counts DEF TakeByte, EveryByteOnce, Position
      <4>2. sent + wleft = Last[wpart] /\ wleft \in Nat
        BY DEF Position, TypeOK
      <4>3. start' = start /\ part' = part
        BY <1>2 DEF TakeByte
      <4>4. start \in Nat /\ Len(ptr) \in Nat /\ Given = start + Len(ptr)
        BY Counts
      <4>5. Given' = Given + 1
        BY <2>3, <4>3, <4>4 DEF Given
      <4>6. QED
        BY <2>1, <4>1, <4>2, <4>3, <4>5
    <3>2. Len(ptr') <= MaxLine - 1 /\ \A at \in 1..Len(ptr') - 1 : ptr'[at] # NL
      BY <1>2, <2>3, SMTT(20) DEF TakeByte, InCall, LineDone, TypeOK
    <3>3. QED
      BY <1>2, <3>1, <3>2 DEF TakeByte, InCall
  <2>7. RawExact' /\ LikeFgets'
    BY <1>2 DEF TakeByte, RawExact, LikeFgets
  <2>8. QED
    BY <2>4, <2>5, <2>6, <2>7
<1>3. CASE ReadlineReturn \/ ReadlineEOF
  <2>0. Len(ptr) \in Nat
    BY DEF TypeOK
  <2>1. TypeOK' /\ Position' /\ EveryByteOnce'
    <3>1. ret' \in Int /\ pc' = "back"
      BY <1>3, <2>0 DEF ReadlineReturn, ReadlineEOF, Return, Count
    <3>2. UNCHANGED <<text, writer, link, part, start, ptr, taken, readbuf>>
      BY <1>3 DEF ReadlineReturn, ReadlineEOF, Return
    <3>3. TypeOK'
      BY <3>1, <3>2 DEF TypeOK, writer, readbuf
    <3>4. Position' /\ EveryByteOnce'
      BY <3>2 DEF Position, EveryByteOnce, Given, Ahead, writer, readbuf
    <3>5. QED
      BY <3>3, <3>4
  <2>2. InCall' /\ RawExact'
    BY <1>3 DEF ReadlineReturn, ReadlineEOF, Return, InCall, RawExact, Given,
                Ahead, readbuf
  <2>3. CASE ReadlineReturn
    <3>1. ptr # <<>>
      BY <2>3 DEF ReadlineReturn, LineDone, TypeOK
    <3>2. Len(ptr) \in Nat /\ Len(ptr) > 0
      BY <3>1 DEF TypeOK
    <3>3. LikeFgets'
      BY <2>3, <3>1, <3>2
         DEF ReadlineReturn, Return, Count, LikeFgets, LineDone, InCall, Given
    <3>4. QED
      BY <2>1, <2>2, <3>3
  <2>4. CASE ReadlineEOF
    <3>1. Given = sent
      BY <2>4 DEF ReadlineEOF, EveryByteOnce, Ahead, TypeOK, Given
    <3>2. Len(ptr) \in Nat /\ (ptr # <<>> => Len(ptr) > 0)
      BY DEF TypeOK
    <3>3. LikeFgets'
      BY <2>4, <3>1, <3>2
         DEF ReadlineEOF, Return, Count, LikeFgets, LineDone, InCall, Given,
             writer
    <3>4. QED
      BY <2>1, <2>2, <3>3
  <2>5. QED
    BY <1>3, <2>3, <2>4
<1>4. QED
  BY <1>1, <1>2, <1>3 DEF Readline

LEMMA CallerInv == ASSUME IInv, Call \/ ReadFails \/ Use PROVE IInv'
<1> USE LineAssumption, PartBounds
<1> USE DEF IInv
<1>1. CASE Call
  BY <1>1 DEF Call, TypeOK, Position, InCall, EveryByteOnce, LikeFgets,
              RawExact, Given, Ahead, writer, readbuf
<1>2. CASE ReadFails
  <2>1. TypeOK' /\ Position' /\ InCall' /\ LikeFgets' /\ RawExact'
    BY <1>2 DEF ReadFails, TypeOK, Position, InCall, LikeFgets, RawExact,
                Given, writer
  <2>2. Ahead' = Ahead
    BY <1>2 DEF ReadFails, Ahead, TypeOK
  <2>3. EveryByteOnce'
    BY <1>2, <2>2 DEF ReadFails, EveryByteOnce, Given
  <2>4. QED
    BY <2>1, <2>3
<1>3. CASE Use
  <2>1. /\ start \in Nat /\ Len(ptr) \in Nat /\ Given \in Nat /\ part \in Parts
        /\ start' = Given /\ ptr' = <<>> /\ Given' = Given /\ Ahead' = Ahead
    BY <1>3 DEF Use, TypeOK, Given, Ahead, readbuf
  <2>2. EveryByteOnce'
    BY <1>3, <2>1 DEF Use, EveryByteOnce, readbuf
  <2>3. CASE Given = Last[part] /\ part < Len(Raw)
    <3>1. part' = part + 1 /\ pc' = "call" /\ part + 1 \in Parts
      BY <1>3, <2>3 DEF Use, TypeOK, Parts
    <3>2. Last[part] \in Nat /\ Last[part + 1] \in Nat
          /\ Last[part] < Last[part + 1]
      BY <2>1, <3>1 DEF Parts
    <3>3. TypeOK' /\ Position'
      BY <1>3, <2>1, <3>1 DEF Use, TypeOK, Position, writer, readbuf, Parts
    <3>4. InCall' /\ LikeFgets'
      BY <2>1, <2>3, <3>1, <3>2 DEF InCall, LikeFgets
    <3>5. wpart \in Parts /\ wpart <= part /\ Last[wpart] <= Last[part]
          /\ Last[wpart] \in Nat
      BY DEF Position, TypeOK, Parts
    <3>6. Ahead = 0
      BY <2>1, <2>3, <3>2, <3>5, SMTT(20)
         DEF Position, EveryByteOnce, TypeOK, Ahead
    <3>7. First(part + 1) = Last[part] + 1
      BY <2>1, <3>2 DEF First, Parts
    <3>8. RawExact'
      BY <2>1, <2>3, <3>1, <3>6, <3>7 DEF RawExact
    <3>9. QED
      BY <2>2, <3>3, <3>4, <3>8
  <2>4. CASE ~(Given = Last[part] /\ part < Len(Raw))
    <3>1. part' = part /\ pc' \in {"end", "call"}
      BY <1>3, <2>4 DEF Use
    <3>2. TypeOK' /\ Position' /\ InCall' /\ LikeFgets'
      BY <1>3, <2>1, <3>1
         DEF Use, TypeOK, Position, InCall, LikeFgets, writer, readbuf
    <3>3. Raw[part] => pc' = "end"
      <4> SUFFICES ASSUME Raw[part] PROVE pc' = "end"
        OBVIOUS
      <4>1. start + 1 = First(part) /\ ret = Len(ptr) /\ pc = "back"
        BY <1>3 DEF Use, RawExact, InCall
      <4>2. First(part) \in Nat /\ Last[part] \in Nat
        BY <2>1
      <4>3. CASE Given = Last[part]
        BY <1>3, <2>4, <4>3 DEF Use
      <4>4. CASE Given < Last[part]
        <5>1. ret < RawLength
          BY <2>1, <4>1, <4>2, <4>4 DEF RawLength, Given
        <5>2. QED
          BY <1>3, <2>4, <5>1 DEF Use
      <4>5. QED
        BY <2>1, <4>2, <4>3, <4>4 DEF InCall
    <3>4. RawExact'
      BY <3>1, <3>3 DEF RawExact
    <3>5. QED
      BY <2>2, <3>2, <3>4
  <2>5. QED
    BY <2>3, <2>4
<1>4. QED
  BY <1>1, <1>2, <1>3

LEMMA LineStep == IInv /\ [Next]_vars => IInv'
  BY WriterInv, ReadnInv, ReadlineInv, CallerInv DEF Next, Reader

-----------------------------------------------------------------------------
(* Photos *)

Photos == INSTANCE ImageTransfer_proofs
            WITH Faults <- ImageFaults, left <- units, link <- wire

\* The module with the proofs and the run speak of the same transfer.
LEMMA SamePhotos ==
    /\ Images!ImageAssumption => Photos!ImageAssumption
    /\ Images!Init => Photos!Init
    /\ [Images!Next]_(Images!vars) => [Photos!Next]_(Photos!vars)
    /\ Photos!TypeOK => Images!TypeOK
    /\ Photos!PhotosAreWhole => PhotosAreWhole
    /\ Photos!FormsGoOn => FormsGoOn
<1>1. Images!ImageAssumption => Photos!ImageAssumption
  BY DEF Images!ImageAssumption, Photos!ImageAssumption
<1>2. Images!Init => Photos!Init
  BY DEF Images!Init, Photos!Init, Images!Forms, Photos!Forms
<1>3. Images!Next => Photos!Next
  BY DEF Images!Next, Photos!Next, Images!client, Photos!client, Images!server,
     Photos!server, Images!streams, Photos!streams, Images!config,
     Photos!config, Images!hist, Photos!hist, Images!Forms, Photos!Forms,
     Images!Form, Photos!Form, Images!Binary, Photos!Binary, Images!Unit,
     Photos!Unit, Images!Smaller, Photos!Smaller, Images!Units, Photos!Units,
     Images!Send, Photos!Send, Images!Reply, Photos!Reply, Images!Hears,
     Photos!Hears, Images!HearsNothing, Photos!HearsNothing, Images!Next_form,
     Photos!Next_form, Images!SendForm, Photos!SendForm, Images!FormAnswered,
     Photos!FormAnswered, Images!PhotoMissing, Photos!PhotoMissing,
     Images!AskToSend, Photos!AskToSend, Images!MaySend, Photos!MaySend,
     Images!SendBytes, Photos!SendBytes, Images!PhotoAnswered,
     Photos!PhotoAnswered, Images!Client, Photos!Client, Images!ServerForm,
     Photos!ServerForm, Images!Announced, Photos!Announced,
     Images!ImageRefused, Photos!ImageRefused, Images!ImageAccepted,
     Photos!ImageAccepted, Images!ImageNotCreated, Photos!ImageNotCreated,
     Images!AskFor, Photos!AskFor, Images!ReadImage, Photos!ReadImage,
     Images!ImageDone, Photos!ImageDone, Images!NothingRead,
     Photos!NothingRead, Images!DiskFull, Photos!DiskFull, Images!ImageFails,
     Photos!ImageFails, Images!ServerEnds, Photos!ServerEnds, Images!Server,
     Photos!Server, Images!TimesOut, Photos!TimesOut, Images!Cut, Photos!Cut
<1>4. UNCHANGED Images!vars => UNCHANGED Photos!vars
  BY DEF Images!vars, Photos!vars, Images!config, Photos!config, Images!client,
     Photos!client, Images!server, Photos!server, Images!streams, Photos!streams,
     Images!hist, Photos!hist
<1>5. Photos!TypeOK => Images!TypeOK
  BY DEF Images!TypeOK, Photos!TypeOK, Images!Forms, Photos!Forms,
     Images!Items, Photos!Items, Images!Codes, Photos!Codes, Images!Form,
     Photos!Form, Images!Unit, Photos!Unit
<1>6. /\ Photos!PhotosAreWhole => PhotosAreWhole
      /\ Photos!FormsGoOn => FormsGoOn
  BY DEF PhotosAreWhole, FormsGoOn,
     Images!PhotosAreWhole, Photos!PhotosAreWhole, Images!KeptIsWhole,
     Photos!KeptIsWhole, Images!NothingSwallowed, Photos!NothingSwallowed,
     Images!FormsGoOn, Photos!FormsGoOn, Images!Forms, Photos!Forms,
     Images!Broken, Photos!Broken, Images!GivenUp, Photos!GivenUp
<1> QED
  BY <1>1, <1>2, <1>3, <1>4, <1>5, <1>6

-----------------------------------------------------------------------------
(* The way to the server *)

\* While a connection is made or used, its address is the one in memory, and a
\* login is begun only where a server can be.
TargetIsCurrent ==
    /\ phase # "idle" => target = webaddr
    /\ phase = "login" => target \in Addresses

AddressInv == Address!TypeOK /\ Address!PreviousUnlessReread /\ TargetIsCurrent

LEMMA AddressInit ==
  ASSUME Address!ConnectionAssumption, Address!Init PROVE AddressInv
  BY DEF AddressInv, TargetIsCurrent, Address!Init, Address!TypeOK,
     Address!PreviousUnlessReread

\* What init_connection does to the addresses, with a lookup or without.
LEMMA AddressFound ==
  ASSUME AddressInv, Address!init_connection,
         UNCHANGED <<given, home>>
  PROVE  /\ phase' = "connect" /\ target' = webaddr'
         /\ {webaddr'} \subseteq Addresses \cup {NoAddress} /\ proved' \subseteq Addresses
         /\ lookup_ok' \in BOOLEAN /\ reread' \in BOOLEAN
         /\ Address!PreviousUnlessReread'
<1> USE DEF AddressInv, Address!TypeOK, Address!PreviousUnlessReread
<1>1. phase' = "connect"
  BY DEF Address!init_connection
<1>2. CASE Address!Lookup
  BY <1>1, <1>2 DEF Address!Lookup
<1>3. CASE Address!LookupFails
  BY <1>1, <1>3 DEF Address!LookupFails
<1>4. CASE Address!UsePrevious
  BY <1>1, <1>4 DEF Address!UsePrevious
<1> QED
  BY <1>2, <1>3, <1>4 DEF Address!init_connection

LEMMA AddressNext ==
  ASSUME AddressInv, [Address!Next]_(Address!vars) PROVE AddressInv'
<1> USE DEF AddressInv, TargetIsCurrent
<1>1. CASE Address!ask_pass
  BY <1>1 DEF Address!ask_pass, Address!ReadWebsite, Address!world, Address!TypeOK,
     Address!PreviousUnlessReread
<1>2. CASE Address!pass_ok_clicked
  <2>1. /\ phase = "idle" /\ pass' \in {"good", "bad"} /\ asking' = FALSE
        /\ UNCHANGED <<given, home, dns, moves>>
    BY <1>2 DEF Address!pass_ok_clicked, Address!world
  <2>2. CASE Address!init_connection
    BY <2>1, <2>2, AddressFound DEF Address!TypeOK
  <2>3. CASE UNCHANGED <<phase, lookup_ok, webaddr, target, proved, reread>>
    BY <2>1, <2>3 DEF Address!TypeOK, Address!PreviousUnlessReread
  <2> QED
    BY <1>2, <2>2, <2>3 DEF Address!pass_ok_clicked, Address!hist
<1>3. CASE Address!Send
  <2>1. UNCHANGED <<given, home, dns, moves, asking, pass>> /\ Address!init_connection
    BY <1>3 DEF Address!Send, Address!world
  <2> QED
    BY <2>1, AddressFound DEF Address!TypeOK
<1>4. CASE Address!Connect
  BY <1>4 DEF Address!Connect, Address!world, Address!memory, Address!hist,
     Address!TypeOK, Address!PreviousUnlessReread
<1>5. CASE Address!LoginSucceeds
  BY <1>5 DEF Address!LoginSucceeds, Address!world, Address!TypeOK,
     Address!PreviousUnlessReread
<1>6. CASE Address!LoginFails
  BY <1>6 DEF Address!LoginFails, Address!world, Address!hist, Address!TypeOK,
     Address!PreviousUnlessReread
<1>7. CASE Address!DnsTurns
  BY <1>7 DEF Address!DnsTurns, Address!memory, Address!hist, Address!TypeOK,
     Address!PreviousUnlessReread
<1>8. CASE Address!Move
  BY <1>8 DEF Address!Move, Address!memory, Address!hist, Address!TypeOK,
     Address!PreviousUnlessReread
<1>9. CASE UNCHANGED Address!vars
  BY <1>9 DEF Address!vars, Address!world, Address!memory, Address!hist,
     Address!TypeOK, Address!PreviousUnlessReread
<1> QED
  BY <1>1, <1>2, <1>3, <1>4, <1>5, <1>6, <1>7, <1>8, <1>9 DEF Address!Next

-----------------------------------------------------------------------------
(* The control script *)

\* The processes born so far are the first n.
Born(n) == \A p \in Rc!Procs : proc[p] = "unborn" <=> p > n

\* A signal is pending for a living process only, and no process was asked to
\* reload what the file has not been yet.
SignalsOfLiving == \A p \in Rc!Procs : ~Rc!Alive(p) => pending[p] = {}
AskedIsPast == \A p \in Rc!Procs : asked[p] <= stored

\* What the script has still to do belongs to the command it was called with.
TodoOfLast ==
    /\ todo = "hup" => last = "reload"
    /\ todo = "term" => last \in {"stop", "restart"}
    /\ todo \in {"fork", "pid"} => last \in {"start", "restart"}

\* A process can be forked when one will be; when its pid is to be written it
\* has been.
RoomFor(n) ==
    /\ todo = "fork" \/ (todo = "term" /\ last = "restart") => n < NumProcs
    /\ todo = "pid" => n > 0

Staying(p) == Rc!Alive(p) /\ "TERM" \notin pending[p]

\* At most one process lives that was not told to end: the last one born, and
\* once it is written the pid file names it.
OneStays(n) ==
    obedient => \A p \in Rc!Procs : Staying(p) =>
      /\ p = n /\ todo # "fork"
      /\ todo = "pid" \/ pidfile = p
      /\ ~(todo = "nothing" /\ last = "stop")

\* The process that a restart has forked lives, and nobody has signalled it.
RestartLeaves(n) ==
    todo \in {"pid", "nothing"} /\ last = "restart" /\ ~held /\ ~dbfails =>
      n > 0 /\ Rc!Alive(n) /\ pending[n] = {}

Numbered == \E n \in 0..NumProcs :
                Born(n) /\ RoomFor(n) /\ OneStays(n) /\ RestartLeaves(n)

ScriptInv ==
    /\ Rc!TypeOK /\ Rc!ReloadReloads
    /\ SignalsOfLiving /\ AskedIsPast /\ TodoOfLast /\ Numbered

LEMMA ScriptInit == ASSUME Rc!RcAssumption, Rc!Init PROVE ScriptInv
<1> USE DEF Rc!RcAssumption, Rc!Init, Rc!Procs
<1>1. Rc!TypeOK
  <2>1. {obedient, dbfails, lingering, lock, held} \subseteq BOOLEAN
    OBVIOUS
  <2> QED
    BY <2>1 DEF Rc!TypeOK, Rc!Commands
<1>4. Rc!ReloadReloads
  BY DEF Rc!ReloadReloads
<1>2. SignalsOfLiving /\ AskedIsPast /\ TodoOfLast
  BY DEF SignalsOfLiving, AskedIsPast, TodoOfLast, Rc!Alive
<1>3. Born(0) /\ RoomFor(0) /\ OneStays(0) /\ RestartLeaves(0)
  BY DEF Born, RoomFor, OneStays, RestartLeaves, Staying, Rc!Alive
<1> QED
  BY <1>1, <1>2, <1>3, <1>4 DEF ScriptInv, Numbered


\* The next pid, and the last one.
LEMMA NextPid ==
  ASSUME Rc!RcAssumption, NEW n \in 0..NumProcs, Born(n), n < NumProcs
  PROVE  (CHOOSE p \in Rc!Unborn : \A q \in Rc!Unborn : p <= q) = n + 1
<1>1. n + 1 \in Rc!Unborn /\ \A q \in Rc!Unborn : n + 1 <= q
  BY DEF Rc!Unborn, Born, Rc!Procs, Rc!RcAssumption
<1>2. \A p, q \in Rc!Unborn : p \in Int /\ (p <= q /\ q <= p => p = q)
  BY DEF Rc!Unborn, Rc!Procs, Rc!RcAssumption
<1> QED
  BY <1>1, <1>2

LEMMA LastPid ==
  ASSUME Rc!RcAssumption, NEW n \in 0..NumProcs, Born(n), n > 0
  PROVE  (CHOOSE p \in Rc!Procs \ Rc!Unborn : \A q \in Rc!Procs \ Rc!Unborn : q <= p) = n
<1>1. n \in Rc!Procs \ Rc!Unborn /\ \A q \in Rc!Procs \ Rc!Unborn : q <= n
  BY DEF Rc!Unborn, Born, Rc!Procs, Rc!RcAssumption
<1>2. \A p, q \in Rc!Procs \ Rc!Unborn : p \in Int /\ (p <= q /\ q <= p => p = q)
  BY DEF Rc!Procs, Rc!RcAssumption
<1> QED
  BY <1>1, <1>2

\* A step of a server that neither starts a process nor frees one of its TERM,
\* and that ends one only where that is accounted for.
LEMMA NumberedKept ==
  ASSUME Rc!RcAssumption, ScriptInv, NEW p \in Rc!Procs, Rc!Alive(p),
         \A q \in Rc!Procs : q # p => proc'[q] = proc[q] /\ pending'[q] = pending[q],
         proc'[p] # "unborn", pending'[p] \subseteq pending[p],
         proc'[p] # "dead" => ("TERM" \in pending[p] => "TERM" \in pending'[p]),
         proc'[p] = "dead" => held' \/ dbfails \/ pending[p] # {},
         held => held', UNCHANGED <<obedient, dbfails, todo, last, pidfile>>
  PROVE  Numbered'
<1>1. PICK n \in 0..NumProcs : Born(n) /\ RoomFor(n) /\ OneStays(n) /\ RestartLeaves(n)
  BY DEF ScriptInv, Numbered
<1>2. Born(n)' /\ RoomFor(n)'
  BY <1>1 DEF Born, RoomFor, Rc!Alive
<1>3. \A q \in Rc!Procs : Staying(q)' => Staying(q)
  BY DEF Staying, Rc!Alive
<1>4. OneStays(n)'
  BY <1>1, <1>3 DEF OneStays
<1>5. RestartLeaves(n)'
  <2> SUFFICES ASSUME todo \in {"pid", "nothing"}, last = "restart", ~held', ~dbfails
               PROVE  n > 0 /\ Rc!Alive(n)' /\ pending'[n] = {}
    BY DEF RestartLeaves
  <2>1. n > 0 /\ Rc!Alive(n) /\ pending[n] = {}
    BY <1>1 DEF RestartLeaves
  <2>2. n \in Rc!Procs
    BY <2>1 DEF Rc!Procs, Rc!RcAssumption
  <2> QED
    BY <2>1, <2>2 DEF Rc!Alive
<1> QED
  BY <1>2, <1>4, <1>5 DEF Numbered

LEMMA CommandInv ==
  ASSUME Rc!RcAssumption, ScriptInv, NEW c \in Rc!Commands, Rc!Command(c)
  PROVE  ScriptInv'
<1>1. /\ todo = "nothing" /\ last' = c /\ held' = FALSE
      /\ c \in {"start", "restart"} => Rc!Unborn # {}
      /\ c = "start" /\ obedient => last = "stop"
      /\ todo' = (CASE c = "start" -> "fork" [] c = "reload" -> "hup" [] OTHER -> "term")
      /\ UNCHANGED <<proc, pending, loaded, lingering, obedient, dbfails, stored,
                     pidfile, lock, asked>>
  BY DEF Rc!Command, Rc!procs, Rc!outside
<1>2. todo' \in {"fork", "hup", "term"} /\ TodoOfLast'
  BY <1>1 DEF Rc!Commands, TodoOfLast
<1>3. Rc!TypeOK'
  BY <1>1, <1>2 DEF ScriptInv, Rc!TypeOK
<1>4. Rc!ReloadReloads' /\ SignalsOfLiving' /\ AskedIsPast'
  BY <1>1 DEF ScriptInv, Rc!ReloadReloads, SignalsOfLiving, AskedIsPast, Rc!Alive
<1>5. PICK n \in 0..NumProcs : Born(n) /\ RoomFor(n) /\ OneStays(n) /\ RestartLeaves(n)
  BY DEF ScriptInv, Numbered
<1>6. Born(n)'
  BY <1>1, <1>5 DEF Born
<1>7. RoomFor(n)'
  <2>1. c \in {"start", "restart"} => n < NumProcs
    BY <1>1, <1>5 DEF Rc!Unborn, Born, Rc!Procs, Rc!RcAssumption
  <2>2. (todo' = "fork" => c = "start") /\ todo' # "pid"
    BY <1>1, <1>2
  <2> QED
    BY <1>1, <2>1, <2>2 DEF RoomFor
<1>8. OneStays(n)' /\ RestartLeaves(n)'
  <2>1. todo' = "fork" => c = "start"
    BY <1>1, <1>2
  <2> QED
    BY <1>1, <1>2, <1>5, <2>1 DEF OneStays, RestartLeaves, Staying, Rc!Alive
<1> QED
  BY <1>2, <1>3, <1>4, <1>6, <1>7, <1>8 DEF ScriptInv, Numbered

LEMMA TermInv == ASSUME Rc!RcAssumption, ScriptInv, Rc!Term PROVE ScriptInv'
<1>1. /\ todo = "term" /\ todo' = (IF last = "restart" THEN "fork" ELSE "nothing")
      /\ UNCHANGED <<proc, loaded, lingering, obedient, dbfails, stored, pidfile, last,
                     asked, held>>
  BY DEF Rc!Term, Rc!AfterStop, Rc!outside
<1>2. \/ /\ pidfile # None /\ Rc!Alive(pidfile) /\ lock' = FALSE
         /\ pending' = [pending EXCEPT ![pidfile] = @ \cup {"TERM"}]
      \/ ~(pidfile # None /\ Rc!Alive(pidfile)) /\ UNCHANGED <<pending, lock>>
  BY DEF Rc!Term
<1>3. /\ pending' \in [Rc!Procs -> SUBSET {"HUP", "TERM"}] /\ lock' \in BOOLEAN
      /\ \A q \in Rc!Procs : /\ "HUP" \in pending'[q] <=> "HUP" \in pending[q]
                             /\ "TERM" \in pending[q] => "TERM" \in pending'[q]
                             /\ ~Rc!Alive(q) => pending'[q] = pending[q]
  <2>1. pending \in [Rc!Procs -> SUBSET {"HUP", "TERM"}] /\ lock \in BOOLEAN
        /\ pidfile \in Rc!Procs \cup {None}
    BY DEF ScriptInv, Rc!TypeOK
  <2>2. CASE UNCHANGED <<pending, lock>>
    BY <2>1, <2>2
  <2>3. CASE /\ pidfile \in Rc!Procs /\ Rc!Alive(pidfile) /\ lock' = FALSE
             /\ pending' = [pending EXCEPT ![pidfile] = @ \cup {"TERM"}]
    BY <2>1, <2>3
  <2> QED
    BY <1>2, <2>1, <2>2, <2>3
<1>4. Rc!TypeOK' /\ TodoOfLast'
  BY <1>1, <1>3 DEF ScriptInv, Rc!TypeOK, TodoOfLast
<1>5. Rc!ReloadReloads' /\ SignalsOfLiving' /\ AskedIsPast'
  BY <1>1, <1>3 DEF ScriptInv, Rc!ReloadReloads, SignalsOfLiving, AskedIsPast, Rc!Alive
<1>6. PICK n \in 0..NumProcs : Born(n) /\ RoomFor(n) /\ OneStays(n) /\ RestartLeaves(n)
  BY DEF ScriptInv, Numbered
<1>7. Born(n)' /\ RoomFor(n)'
  BY <1>1, <1>6 DEF Born, RoomFor
<1>8. OneStays(n)'
  <2> SUFFICES ASSUME obedient, NEW p \in Rc!Procs, Staying(p)'
               PROVE  FALSE
    BY <1>1 DEF OneStays
  <2>1. Staying(p) /\ Rc!Alive(p)
    BY <1>1, <1>3 DEF Staying, Rc!Alive
  <2>2. pidfile = p
    BY <1>1, <1>6, <2>1 DEF OneStays
  <2>3. pending' = [pending EXCEPT ![p] = @ \cup {"TERM"}]
    BY <1>2, <2>1, <2>2 DEF Rc!RcAssumption, Rc!Procs
  <2> QED
    BY <2>3 DEF Staying, ScriptInv, Rc!TypeOK
<1>9. RestartLeaves(n)'
  BY <1>1 DEF RestartLeaves
<1> QED
  BY <1>4, <1>5, <1>7, <1>8, <1>9 DEF ScriptInv, Numbered

LEMMA ForkInv == ASSUME Rc!RcAssumption, ScriptInv, Rc!Fork PROVE ScriptInv'
<1>1. /\ todo = "fork" /\ todo' = "pid"
      /\ UNCHANGED <<pending, loaded, lingering, obedient, dbfails, stored, pidfile, lock,
                     last, asked, held>>
  BY DEF Rc!Fork, Rc!outside
<1>2. PICK n \in 0..NumProcs : Born(n) /\ RoomFor(n) /\ OneStays(n) /\ RestartLeaves(n)
  BY DEF ScriptInv, Numbered
<1>3. n < NumProcs /\ n + 1 \in Rc!Procs /\ proc[n + 1] = "unborn"
  BY <1>1, <1>2 DEF RoomFor, Born, Rc!Procs, Rc!RcAssumption
<1>4. proc' = [proc EXCEPT ![n + 1] = "forked"]
  BY <1>2, <1>3, NextPid DEF Rc!Fork
<1>5. Rc!TypeOK' /\ TodoOfLast'
  BY <1>1, <1>3, <1>4 DEF ScriptInv, Rc!TypeOK, TodoOfLast
<1>6. Rc!ReloadReloads' /\ SignalsOfLiving' /\ AskedIsPast'
  BY <1>1, <1>3, <1>4 DEF ScriptInv, Rc!TypeOK, Rc!ReloadReloads, SignalsOfLiving,
     AskedIsPast, Rc!Alive
<1>7. Born(n + 1)' /\ RoomFor(n + 1)'
  BY <1>1, <1>2, <1>3, <1>4 DEF Born, RoomFor, ScriptInv, Rc!TypeOK, Rc!Procs,
     Rc!RcAssumption
<1>8. OneStays(n + 1)'
  <2> SUFFICES ASSUME obedient, NEW p \in Rc!Procs, Staying(p)'
               PROVE  p = n + 1
    BY <1>1 DEF OneStays
  <2>1. p # n + 1 => Staying(p)
    BY <1>1, <1>4 DEF Staying, Rc!Alive, ScriptInv, Rc!TypeOK
  <2> QED
    BY <1>1, <1>2, <2>1 DEF OneStays
<1>9. RestartLeaves(n + 1)'
  <2>1. pending[n + 1] = {}
    BY <1>3 DEF ScriptInv, SignalsOfLiving, Rc!Alive
  <2>2. Rc!Alive(n + 1)'
    BY <1>3, <1>4 DEF Rc!Alive, ScriptInv, Rc!TypeOK
  <2> QED
    BY <1>1, <2>1, <2>2 DEF RestartLeaves
<1>10. n + 1 \in 0..NumProcs
  BY <1>3 DEF Rc!RcAssumption
<1> QED
  BY <1>5, <1>6, <1>7, <1>8, <1>9, <1>10 DEF ScriptInv, Numbered

LEMMA WritePidInv == ASSUME Rc!RcAssumption, ScriptInv, Rc!WritePid PROVE ScriptInv'
<1>1. /\ todo = "pid" /\ todo' = "nothing" /\ lock' = TRUE
      /\ UNCHANGED <<proc, pending, loaded, lingering, obedient, dbfails, stored, last,
                     asked, held>>
  BY DEF Rc!WritePid, Rc!outside, Rc!procs
<1>2. PICK n \in 0..NumProcs : Born(n) /\ RoomFor(n) /\ OneStays(n) /\ RestartLeaves(n)
  BY DEF ScriptInv, Numbered
<1>3. n > 0 /\ n \in Rc!Procs
  BY <1>1, <1>2 DEF RoomFor, Rc!Procs, Rc!RcAssumption
<1>4. pidfile' = n
  BY <1>2, <1>3, LastPid DEF Rc!WritePid
<1>5. Rc!TypeOK' /\ TodoOfLast'
  BY <1>1, <1>3, <1>4 DEF ScriptInv, Rc!TypeOK, TodoOfLast
<1>6. Rc!ReloadReloads' /\ SignalsOfLiving' /\ AskedIsPast'
  BY <1>1 DEF ScriptInv, Rc!ReloadReloads, SignalsOfLiving, AskedIsPast, Rc!Alive
<1>7. Born(n)' /\ RoomFor(n)' /\ RestartLeaves(n)'
  BY <1>1, <1>2 DEF Born, RoomFor, RestartLeaves, Rc!Alive
<1>8. last # "stop"
  BY <1>1 DEF ScriptInv, TodoOfLast
<1>9. OneStays(n)'
  BY <1>1, <1>2, <1>4, <1>8 DEF OneStays, Staying, Rc!Alive
<1> QED
  BY <1>5, <1>6, <1>7, <1>9 DEF ScriptInv, Numbered

LEMMA HupInv == ASSUME Rc!RcAssumption, ScriptInv, Rc!Hup PROVE ScriptInv'
<1>1. /\ todo = "hup" /\ todo' = "nothing"
      /\ UNCHANGED <<proc, loaded, lingering, obedient, dbfails, stored, pidfile, last, held>>
  BY DEF Rc!Hup, Rc!outside
<1>2. last = "reload"
  BY <1>1 DEF ScriptInv, TodoOfLast
<1>3. \/ /\ pidfile # None /\ Rc!Alive(pidfile) /\ lock' = TRUE
         /\ pending' = [pending EXCEPT ![pidfile] = @ \cup {"HUP"}]
         /\ asked' = [asked EXCEPT ![pidfile] = stored]
      \/ UNCHANGED <<pending, asked, lock>>
  BY DEF Rc!Hup
<1>4. /\ pending' \in [Rc!Procs -> SUBSET {"HUP", "TERM"}] /\ lock' \in BOOLEAN
      /\ asked' \in [Rc!Procs -> 0..MaxStored]
      /\ \A q \in Rc!Procs :
            /\ "TERM" \in pending'[q] <=> "TERM" \in pending[q]
            /\ ~Rc!Alive(q) => pending'[q] = pending[q]
            /\ \/ "HUP" \in pending'[q] /\ asked'[q] = stored
               \/ asked'[q] = asked[q] /\ pending'[q] = pending[q]
  <2>1. /\ pending \in [Rc!Procs -> SUBSET {"HUP", "TERM"}] /\ lock \in BOOLEAN
        /\ asked \in [Rc!Procs -> 0..MaxStored] /\ stored \in 0..MaxStored
        /\ pidfile \in Rc!Procs \cup {None}
    BY DEF ScriptInv, Rc!TypeOK
  <2>2. CASE UNCHANGED <<pending, asked, lock>>
    BY <2>1, <2>2
  <2>3. CASE /\ pidfile \in Rc!Procs /\ Rc!Alive(pidfile) /\ lock' = TRUE
             /\ pending' = [pending EXCEPT ![pidfile] = @ \cup {"HUP"}]
             /\ asked' = [asked EXCEPT ![pidfile] = stored]
    BY <2>1, <2>3
  <2> QED
    BY <1>3, <2>1, <2>2, <2>3
<1>5. Rc!TypeOK' /\ TodoOfLast'
  BY <1>1, <1>2, <1>4 DEF ScriptInv, Rc!TypeOK, TodoOfLast
<1>6. Rc!ReloadReloads' /\ SignalsOfLiving' /\ AskedIsPast'
  BY <1>1, <1>4 DEF ScriptInv, Rc!TypeOK, Rc!ReloadReloads, SignalsOfLiving, AskedIsPast,
     Rc!Alive
<1>7. PICK n \in 0..NumProcs : Born(n) /\ RoomFor(n) /\ OneStays(n) /\ RestartLeaves(n)
  BY DEF ScriptInv, Numbered
<1>8. Born(n)' /\ RoomFor(n)' /\ RestartLeaves(n)'
  BY <1>1, <1>2, <1>7 DEF Born, RoomFor, RestartLeaves
<1>9. OneStays(n)'
  BY <1>1, <1>2, <1>4, <1>7 DEF OneStays, Staying, Rc!Alive
<1> QED
  BY <1>5, <1>6, <1>8, <1>9 DEF ScriptInv, Numbered

\* What a process leaves behind that ends.
LEMMA EndsInv ==
  ASSUME Rc!RcAssumption, ScriptInv, NEW p \in Rc!Procs, Rc!Alive(p), Rc!Ends(p),
         held' \/ dbfails \/ pending[p] # {}, held => held', held' \in BOOLEAN,
         UNCHANGED <<loaded, obedient, dbfails, stored, pidfile, lock, todo, last, asked>>
  PROVE  ScriptInv'
<1>1. /\ proc' = [proc EXCEPT ![p] = "dead"] /\ pending' = [pending EXCEPT ![p] = {}]
      /\ lingering' \in {TRUE, FALSE, lingering}
  BY DEF Rc!Ends
<1>2. Rc!TypeOK' /\ TodoOfLast'
  BY <1>1 DEF ScriptInv, Rc!TypeOK, TodoOfLast
<1>3. Rc!ReloadReloads' /\ SignalsOfLiving' /\ AskedIsPast'
  BY <1>1 DEF ScriptInv, Rc!TypeOK, Rc!ReloadReloads, SignalsOfLiving, AskedIsPast,
     Rc!Alive
<1>4. /\ \A q \in Rc!Procs : q # p => proc'[q] = proc[q] /\ pending'[q] = pending[q]
      /\ proc'[p] = "dead" /\ pending'[p] = {}
  BY <1>1 DEF ScriptInv, Rc!TypeOK
<1>5. Numbered'
  BY <1>4, NumberedKept
<1> QED
  BY <1>2, <1>3, <1>5 DEF ScriptInv

LEMMA BindInv ==
  ASSUME Rc!RcAssumption, ScriptInv, NEW p \in Rc!Procs, Rc!Bind(p) PROVE ScriptInv'
<1>1. /\ proc[p] = "forked" /\ Rc!Alive(p)
      /\ UNCHANGED <<loaded, obedient, dbfails, stored, pidfile, lock, todo, last, asked>>
  BY DEF Rc!Bind, Rc!Alive, Rc!outside, Rc!script
<1>2. CASE Rc!Ends(p) /\ held' = TRUE
  BY <1>1, <1>2, EndsInv
<1>3. CASE proc' = [proc EXCEPT ![p] = "bound"] /\ UNCHANGED <<pending, lingering, held>>
  <2>1. Rc!TypeOK' /\ TodoOfLast'
    BY <1>1, <1>3 DEF ScriptInv, Rc!TypeOK, TodoOfLast
  <2>2. Rc!ReloadReloads' /\ SignalsOfLiving' /\ AskedIsPast'
    BY <1>1, <1>3 DEF ScriptInv, Rc!TypeOK, Rc!ReloadReloads, SignalsOfLiving,
       AskedIsPast, Rc!Alive
  <2>3. proc'[p] = "bound" /\ \A q \in Rc!Procs : q # p => proc'[q] = proc[q]
    BY <1>3 DEF ScriptInv, Rc!TypeOK
  <2>4. Numbered'
    BY <1>1, <1>3, <2>3, NumberedKept
  <2> QED
    BY <2>1, <2>2, <2>4 DEF ScriptInv
<1> QED
  BY <1>2, <1>3 DEF Rc!Bind

LEMMA HandleInv ==
  ASSUME Rc!RcAssumption, ScriptInv, NEW p \in Rc!Procs, Rc!Handle(p) PROVE ScriptInv'
<1>1. /\ proc[p] = "bound" /\ Rc!Alive(p) /\ proc' = [proc EXCEPT ![p] = "handling"]
      /\ UNCHANGED <<pending, loaded, lingering, obedient, dbfails, stored, pidfile, lock,
                     todo, last, asked, held>>
  BY DEF Rc!Handle, Rc!Alive, Rc!outside, Rc!script
<1>2. Rc!TypeOK' /\ TodoOfLast'
  BY <1>1 DEF ScriptInv, Rc!TypeOK, TodoOfLast
<1>3. Rc!ReloadReloads' /\ SignalsOfLiving' /\ AskedIsPast'
  BY <1>1 DEF ScriptInv, Rc!TypeOK, Rc!ReloadReloads, SignalsOfLiving, AskedIsPast,
     Rc!Alive
<1>4. proc'[p] = "handling" /\ \A q \in Rc!Procs : q # p => proc'[q] = proc[q]
  BY <1>1 DEF ScriptInv, Rc!TypeOK
<1>5. Numbered'
  BY <1>1, <1>4, NumberedKept
<1> QED
  BY <1>2, <1>3, <1>5 DEF ScriptInv

LEMMA OpenDbInv ==
  ASSUME Rc!RcAssumption, ScriptInv, NEW p \in Rc!Procs, Rc!OpenDb(p) PROVE ScriptInv'
<1>1. /\ proc[p] = "handling" /\ Rc!Alive(p)
      /\ UNCHANGED <<obedient, dbfails, stored, pidfile, lock, todo, last, asked, held>>
  BY DEF Rc!OpenDb, Rc!Alive, Rc!outside, Rc!script
<1>2. CASE dbfails /\ Rc!Ends(p) /\ UNCHANGED loaded
  BY <1>1, <1>2, EndsInv DEF ScriptInv, Rc!TypeOK
<1>3. CASE /\ loaded' = [loaded EXCEPT ![p] = stored] /\ UNCHANGED <<pending, lingering>>
           /\ proc' = [proc EXCEPT ![p] = "serving"]
  <2>1. Rc!TypeOK' /\ TodoOfLast'
    BY <1>1, <1>3 DEF ScriptInv, Rc!TypeOK, TodoOfLast
  <2>2. Rc!ReloadReloads' /\ SignalsOfLiving' /\ AskedIsPast'
    BY <1>1, <1>3 DEF ScriptInv, Rc!TypeOK, Rc!ReloadReloads, SignalsOfLiving,
       AskedIsPast, Rc!Alive
  <2>3. proc'[p] = "serving" /\ \A q \in Rc!Procs : q # p => proc'[q] = proc[q]
    BY <1>3 DEF ScriptInv, Rc!TypeOK
  <2>4. Numbered'
    BY <1>1, <1>3, <2>3, NumberedKept
  <2> QED
    BY <2>1, <2>2, <2>4 DEF ScriptInv
<1> QED
  BY <1>2, <1>3 DEF Rc!OpenDb

LEMMA TakeSignalInv ==
  ASSUME Rc!RcAssumption, ScriptInv, NEW p \in Rc!Procs, Rc!TakeTerm(p) \/ Rc!TakeHup(p)
  PROVE  ScriptInv'
<1>1. /\ Rc!Alive(p) /\ pending[p] # {}
      /\ UNCHANGED <<obedient, dbfails, stored, pidfile, lock, todo, last, asked, held>>
  BY DEF Rc!TakeTerm, Rc!TakeHup, Rc!outside, Rc!script
<1>2. CASE Rc!Ends(p) /\ UNCHANGED loaded
  BY <1>1, <1>2, EndsInv DEF ScriptInv, Rc!TypeOK
<1>3. CASE /\ pending' = [pending EXCEPT ![p] = @ \ {"HUP"}]
           /\ loaded' = [loaded EXCEPT ![p] = stored] /\ UNCHANGED <<proc, lingering>>
  <2>1. Rc!TypeOK' /\ TodoOfLast'
    BY <1>1, <1>3 DEF ScriptInv, Rc!TypeOK, TodoOfLast
  <2>2. Rc!ReloadReloads' /\ SignalsOfLiving' /\ AskedIsPast'
    BY <1>1, <1>3 DEF ScriptInv, Rc!TypeOK, Rc!ReloadReloads, SignalsOfLiving,
       AskedIsPast, Rc!Alive
  <2>3. /\ pending'[p] = pending[p] \ {"HUP"}
        /\ \A q \in Rc!Procs : q # p => pending'[q] = pending[q]
    BY <1>3 DEF ScriptInv, Rc!TypeOK
  <2>4. Numbered'
    BY <1>1, <1>3, <2>3, NumberedKept DEF Rc!Alive
  <2> QED
    BY <2>1, <2>2, <2>4 DEF ScriptInv
<1> QED
  BY <1>2, <1>3 DEF Rc!TakeTerm, Rc!TakeHup

LEMMA ScriptNext ==
  ASSUME Rc!RcAssumption, ScriptInv, [Rc!Next]_(Rc!vars) PROVE ScriptInv'
<1>1. CASE Rc!Change
  <2>1. /\ stored < MaxStored /\ stored' = stored + 1
        /\ UNCHANGED <<proc, pending, loaded, lingering, obedient, dbfails, pidfile, lock,
                       todo, last, asked, held>>
    BY <1>1 DEF Rc!Change, Rc!procs, Rc!script
  <2>2. Rc!TypeOK' /\ TodoOfLast'
    BY <2>1 DEF ScriptInv, Rc!TypeOK, TodoOfLast, Rc!RcAssumption
  <2>3. Rc!ReloadReloads' /\ SignalsOfLiving' /\ AskedIsPast'
    BY <2>1 DEF ScriptInv, Rc!TypeOK, Rc!ReloadReloads, SignalsOfLiving, AskedIsPast,
       Rc!Alive
  <2>4. Numbered'
    BY <2>1 DEF ScriptInv, Numbered, Born, RoomFor, OneStays, RestartLeaves, Staying,
       Rc!Alive
  <2> QED
    BY <2>2, <2>3, <2>4 DEF ScriptInv
<1>2. CASE UNCHANGED Rc!vars
  BY <1>2 DEF Rc!vars, Rc!procs, Rc!outside, Rc!script, ScriptInv, Rc!TypeOK,
     Rc!ReloadReloads, SignalsOfLiving, AskedIsPast, TodoOfLast, Numbered, Born, RoomFor,
     OneStays, RestartLeaves, Staying, Rc!Alive
<1> QED
  BY <1>1, <1>2, CommandInv, TermInv, ForkInv, WritePidInv, HupInv, BindInv, HandleInv,
     OpenDbInv, TakeSignalInv DEF Rc!Next

LEMMA ScriptSafe ==
  ASSUME Rc!RcAssumption, ScriptInv PROVE ScriptIsObeyed
<1>1. PICK n \in 0..NumProcs : Born(n) /\ RoomFor(n) /\ OneStays(n) /\ RestartLeaves(n)
  BY DEF ScriptInv, Numbered
<1>2. Rc!PidNamesServer
  BY <1>1 DEF Rc!PidNamesServer, Rc!Quiet, OneStays, Staying, Rc!Alive
<1>3. Rc!RestartUnlessHeld
  <2> SUFFICES ASSUME Rc!Quiet, last = "restart", ~held, ~dbfails
               PROVE  \E p \in Rc!Procs : proc[p] = "serving"
    BY DEF Rc!RestartUnlessHeld
  <2>1. n > 0 /\ Rc!Alive(n)
    BY <1>1 DEF RestartLeaves, Rc!Quiet
  <2>2. n \in Rc!Procs
    BY <2>1 DEF Rc!Procs, Rc!RcAssumption
  <2> QED
    BY <2>1, <2>2 DEF Rc!Quiet, Rc!Alive
<1> QED
  BY <1>2, <1>3 DEF ScriptIsObeyed, ScriptInv

-----------------------------------------------------------------------------
(* The watcher and the listener *)

Notes == (Watch!Files \X (0..MaxChanges)) \cup {Watch!Silence}

\* What is queued and what is read are notes.
NotesTyped == queue \in Seq(Notes) /\ reading \in Notes \cup {None}

\* No note is of the future, and a file whose time differs from the one noted in
\* this round has changed since its last note.
NewsIsNew ==
    \A f \in Watch!Files :
      noted[f] <= ver[f] /\ (Watch!Between(f) /\ differs[f] => noted[f] < ver[f])

WatchInv == Watch!TypeOK /\ NotesTyped /\ NewsIsNew

LEMMA WatchInit == ASSUME Watch!WatchAssumption, Watch!Init PROVE WatchInv
<1> USE DEF Watch!WatchAssumption, Watch!Init, Watch!Zero, Watch!Never, Watch!Files
<1>1. Watch!TypeOK
  <2>1. ver \in [1..NumFiles -> 0..MaxChanges]
    BY DEF Watch!Init
  <2>2. {noted, shown, due} \subseteq [1..NumFiles -> 0..MaxChanges]
    BY DEF Watch!Init
  <2>3. {now, differs} \subseteq [1..NumFiles -> BOOLEAN]
    BY DEF Watch!Init
  <2>4. {slept, up} \subseteq BOOLEAN
    BY DEF Watch!Init
  <2>5. Len(queue) <= Backlog
    BY DEF Watch!Init
  <2> QED
    BY <2>1, <2>2, <2>3, <2>4, <2>5 DEF Watch!TypeOK
<1>2. NotesTyped /\ NewsIsNew
  BY DEF NotesTyped, NewsIsNew, Watch!Between
<1> QED
  BY <1>1, <1>2 DEF WatchInv

\* A set of natural numbers that is not empty has a least member.
LEMMA LeastNumber ==
  ASSUME NEW S \in SUBSET Nat, S # {}
  PROVE  \E k \in S : \A m \in S : k <= m
<1> DEFINE R == {ss \in Nat \X Nat : ss[1] < ss[2]}
<1>1. IsWellFoundedOn(R, Nat)
  BY NatLessThanWellFounded DEF OpToRel
<1>2. \E k \in S : \A m \in S : ~(<<m, k>> \in R)
  <2>1. S \subseteq Nat
    OBVIOUS
  <2> QED
    BY <1>1, <2>1, WFMin, Zenon
<1>3. \A k, m \in Nat : m < k => <<m, k>> \in R
  BY DEF R
<1> HIDE DEF R
<1>4. PICK k \in S : \A m \in S : ~(<<m, k>> \in R)
  BY <1>2
<1>5. ASSUME NEW m \in S PROVE k <= m
  <2>1. k \in Nat /\ m \in Nat /\ ~(m < k)
    BY <1>3, <1>4
  <2> QED
    BY <2>1
<1> QED
  BY <1>5

\* The script takes one of the files left, in whatever order ls gives them.
LEMMA FirstIsLeft ==
  ASSUME Watch!WatchAssumption, WatchInv, remaining # {}
  PROVE  Watch!First \in remaining /\ Watch!First \in Watch!Files
<1>1. remaining \subseteq Nat /\ remaining \subseteq Watch!Files
  BY DEF WatchInv, Watch!TypeOK, Watch!Files, Watch!WatchAssumption
<1>2. \E f \in remaining : \A g \in remaining : f <= g
  BY <1>1, LeastNumber
<1> QED
  BY <1>1, <1>2 DEF Watch!First

LEMMA ChangeInv ==
  ASSUME Watch!WatchAssumption, WatchInv, NEW f \in Watch!Files, Watch!Change(f)
  PROVE  WatchInv'
<1>1. /\ ver[f] < MaxChanges /\ ver' = [ver EXCEPT ![f] = @ + 1]
      /\ now' = [now EXCEPT ![f] = TRUE] /\ differs' = [differs EXCEPT ![f] = @ \/ ~now[f]]
      /\ due' = [due EXCEPT ![f] = IF Watch!Between(f) /\ differs'[f] THEN ver'[f] ELSE @]
      /\ UNCHANGED <<watching, filelist, remaining, slept, queue, reading, up, noted, shown>>
  BY DEF Watch!Change, Watch!script, Watch!listener
<1>2. /\ ver \in [Watch!Files -> 0..MaxChanges] /\ now \in [Watch!Files -> BOOLEAN]
      /\ differs \in [Watch!Files -> BOOLEAN] /\ noted \in [Watch!Files -> 0..MaxChanges]
      /\ due \in [Watch!Files -> 0..MaxChanges]
  BY DEF WatchInv, Watch!TypeOK
<1>3. ver'[f] = ver[f] + 1 /\ \A g \in Watch!Files : g # f => ver'[g] = ver[g]
  BY <1>1, <1>2
<1>4. ver' \in [Watch!Files -> 0..MaxChanges]
  <2>1. ver[f] + 1 \in 0..MaxChanges
    BY <1>1, <1>2 DEF Watch!WatchAssumption
  <2> QED
    BY <1>1, <1>2, <2>1
<1>5. now' \in [Watch!Files -> BOOLEAN]
  BY <1>1, <1>2
<1>6. differs' \in [Watch!Files -> BOOLEAN]
  BY <1>1, <1>2
<1>7. due' \in [Watch!Files -> 0..MaxChanges]
  BY <1>1, <1>2, <1>4
<1>8. Watch!TypeOK'
  BY <1>1, <1>4, <1>5, <1>6, <1>7 DEF WatchInv, Watch!TypeOK
<1>9. NewsIsNew'
  <2>1. \A g \in Watch!Files : Watch!Between(g)' <=> Watch!Between(g)
    BY <1>1 DEF Watch!Between
  <2>2. \A g \in Watch!Files : g # f => differs'[g] = differs[g]
    BY <1>1, <1>2
  <2>3. noted[f] <= ver[f] /\ noted[f] \in Int /\ ver[f] \in Int
    BY <1>2 DEF WatchInv, NewsIsNew, Watch!WatchAssumption
  <2> QED
    BY <1>1, <1>3, <2>1, <2>2, <2>3 DEF WatchInv, NewsIsNew
<1> QED
  BY <1>1, <1>8, <1>9 DEF WatchInv, NotesTyped

\* The script between two stats: no file comes into the round.
LEMMA RoundInv ==
  ASSUME Watch!WatchAssumption, WatchInv,
         Watch!List \/ Watch!Sleep \/ Watch!Wake \/ Watch!Again
  PROVE  WatchInv'
<1>1. UNCHANGED <<ver, now, differs, queue, reading, up, noted, shown, due>>
  BY DEF Watch!List, Watch!Sleep, Watch!Wake, Watch!Again, Watch!files, Watch!listener,
     Watch!hist
<1>2. /\ slept' \in BOOLEAN /\ filelist' \subseteq Watch!Files
      /\ remaining' \subseteq filelist' /\ watching' \in {"list", "prev", "sleep", "next"}
  BY DEF Watch!List, Watch!Sleep, Watch!Wake, Watch!Again, WatchInv, Watch!TypeOK
<1>3. \A f \in Watch!Files : Watch!Between(f)' => Watch!Between(f)
  BY DEF Watch!List, Watch!Sleep, Watch!Wake, Watch!Again, Watch!Between
<1>4. Watch!TypeOK'
  BY <1>1, <1>2 DEF WatchInv, Watch!TypeOK
<1> QED
  BY <1>1, <1>3, <1>4 DEF WatchInv, NotesTyped, NewsIsNew

LEMMA StatPrevInv ==
  ASSUME Watch!WatchAssumption, WatchInv, Watch!StatPrev PROVE WatchInv'
<1> DEFINE f == Watch!First
<1>1. f \in remaining /\ f \in Watch!Files
  BY FirstIsLeft DEF Watch!StatPrev
<1>2. /\ watching = "prev" /\ remaining' = remaining \ {f}
      /\ differs' = [differs EXCEPT ![f] = FALSE]
      /\ UNCHANGED <<ver, now, watching, filelist, slept, queue, reading, up, noted, shown,
                     due>>
  BY DEF Watch!StatPrev, Watch!listener, Watch!hist
<1> HIDE DEF f
<1>3. /\ differs' \in [Watch!Files -> BOOLEAN] /\ differs'[f] = FALSE
      /\ \A g \in Watch!Files : g # f => differs'[g] = differs[g]
  BY <1>1, <1>2 DEF WatchInv, Watch!TypeOK
<1>4. Watch!TypeOK'
  BY <1>2, <1>3 DEF WatchInv, Watch!TypeOK
<1>5. \A g \in Watch!Files : g # f /\ Watch!Between(g)' => Watch!Between(g)
  BY <1>2 DEF Watch!Between
<1>6. NewsIsNew'
  BY <1>2, <1>3, <1>5 DEF WatchInv, NewsIsNew
<1> QED
  BY <1>2, <1>4, <1>6 DEF WatchInv, NotesTyped

LEMMA StatNextInv ==
  ASSUME Watch!WatchAssumption, WatchInv, Watch!StatNext PROVE WatchInv'
<1> DEFINE f == Watch!First
<1>1. f \in remaining /\ f \in Watch!Files
  BY FirstIsLeft DEF Watch!StatNext
<1>2. /\ watching = "next" /\ remaining' = remaining \ {f}
      /\ UNCHANGED <<ver, now, differs, watching, filelist, slept, reading, up, shown, due>>
      /\ \/ UNCHANGED <<queue, noted>>
         \/ /\ noted' = [noted EXCEPT ![f] = ver[f]]
            /\ \/ up /\ Len(queue) < Backlog /\ queue' = Append(queue, <<f, ver[f]>>)
               \/ UNCHANGED queue
  BY DEF Watch!StatNext, Watch!Notify, Watch!files
<1> HIDE DEF f
<1>3. /\ ver \in [Watch!Files -> 0..MaxChanges] /\ noted \in [Watch!Files -> 0..MaxChanges]
      /\ queue \in Seq(Notes) /\ Len(queue) <= Backlog /\ (~up => queue = <<>>)
      /\ Backlog \in Nat
  BY DEF WatchInv, NotesTyped, Watch!TypeOK, Watch!WatchAssumption
<1>4. /\ noted' \in [Watch!Files -> 0..MaxChanges]
      /\ \A g \in Watch!Files : noted'[g] \in {noted[g], ver[g]} /\ (g # f => noted'[g] = noted[g])
  BY <1>1, <1>2, <1>3
<1>5. queue' \in Seq(Notes) /\ Len(queue') <= Backlog /\ (~up => queue' = <<>>)
  <2>1. CASE UNCHANGED queue
    BY <1>3, <2>1
  <2>2. CASE up /\ Len(queue) < Backlog /\ queue' = Append(queue, <<f, ver[f]>>)
    <3>1. <<f, ver[f]>> \in Notes
      BY <1>1, <1>3 DEF Notes
    <3> QED
      BY <1>3, <2>2, <3>1
  <2> QED
    BY <1>2, <2>1, <2>2
<1>6. Watch!TypeOK'
  BY <1>2, <1>4, <1>5 DEF WatchInv, Watch!TypeOK
<1>7. \A g \in Watch!Files : Watch!Between(g)' => Watch!Between(g) /\ g # f
  BY <1>2 DEF Watch!Between
<1>8. NewsIsNew'
  <2> SUFFICES ASSUME NEW g \in Watch!Files
               PROVE  /\ noted'[g] <= ver[g]
                      /\ Watch!Between(g)' /\ differs[g] => noted'[g] < ver[g]
    BY <1>2 DEF NewsIsNew
  <2>1. /\ noted[g] <= ver[g] /\ ver[g] \in Int
        /\ Watch!Between(g) /\ differs[g] => noted[g] < ver[g]
    BY <1>3 DEF WatchInv, NewsIsNew, Watch!WatchAssumption
  <2> QED
    BY <1>4, <1>7, <2>1
<1> QED
  BY <1>2, <1>5, <1>6, <1>8 DEF WatchInv, NotesTyped

\* The listener, those who connect to it and the clock change no file's version
\* and no note.
LEMMA ListenInv ==
  ASSUME Watch!WatchAssumption, WatchInv,
         Watch!Accept \/ Watch!Show \/ Watch!Connect \/ Watch!HangUp \/ Watch!Stop \/ Watch!Tick
  PROVE  WatchInv'
<1>1. UNCHANGED <<ver, differs, watching, filelist, remaining, noted, due>>
  BY DEF Watch!Accept, Watch!Show, Watch!Connect, Watch!HangUp, Watch!Stop, Watch!Tick,
     Watch!files, Watch!script, Watch!listener, Watch!hist
<1>2. NewsIsNew'
  BY <1>1 DEF WatchInv, NewsIsNew, Watch!Between
<1>3. /\ queue \in Seq(Notes) /\ Len(queue) <= Backlog /\ reading \in Notes \cup {None}
      /\ up \in BOOLEAN /\ slept \in BOOLEAN /\ now \in [Watch!Files -> BOOLEAN]
      /\ shown \in [Watch!Files -> 0..MaxChanges] /\ Backlog \in Nat
      /\ ~up => queue = <<>> /\ reading = None
  BY DEF WatchInv, NotesTyped, Watch!TypeOK, Watch!WatchAssumption
<1>4. now' \in [Watch!Files -> BOOLEAN] /\ slept' \in BOOLEAN /\ up' \in BOOLEAN
  BY <1>3 DEF Watch!Accept, Watch!Show, Watch!Connect, Watch!HangUp, Watch!Stop, Watch!Tick,
     Watch!files, Watch!script, Watch!listener, Watch!hist, Watch!Never
<1>5. shown' \in [Watch!Files -> 0..MaxChanges]
  <2>1. CASE Watch!Show
    <3>1. reading \in Watch!Files \X (0..MaxChanges)
      BY <1>3, <2>1 DEF Watch!Show, Notes
    <3> QED
      BY <1>3, <2>1, <3>1 DEF Watch!Show
  <2>2. CASE UNCHANGED shown
    BY <1>3, <2>2
  <2> QED
    BY <2>1, <2>2 DEF Watch!Accept, Watch!Connect, Watch!HangUp, Watch!Stop, Watch!Tick,
       Watch!hist
<1>6. /\ queue' \in Seq(Notes) /\ Len(queue') <= Backlog /\ reading' \in Notes \cup {None}
      /\ ~up' => queue' = <<>> /\ reading' = None
  <2>1. CASE Watch!Accept
    <3>1. up' = up /\ up /\ queue # <<>> /\ reading' = Head(queue) /\ queue' = Tail(queue)
      BY <2>1 DEF Watch!Accept
    <3>2. Head(queue) \in Notes /\ Tail(queue) \in Seq(Notes) /\ Len(Tail(queue)) <= Backlog
      BY <1>3, <3>1
    <3> QED
      BY <3>1, <3>2
  <2>2. CASE Watch!Connect
    <3>1. up /\ Len(queue) < Backlog /\ queue' = Append(queue, Watch!Silence)
          /\ UNCHANGED <<reading, up>>
      BY <2>2 DEF Watch!Connect
    <3>2. Watch!Silence \in Notes
      BY DEF Notes
    <3> QED
      BY <1>3, <3>1, <3>2
  <2>3. CASE Watch!Show \/ Watch!HangUp
    BY <1>3, <2>3 DEF Watch!Show, Watch!HangUp
  <2>4. CASE Watch!Stop
    BY <1>3, <2>4 DEF Watch!Stop
  <2>5. CASE Watch!Tick
    BY <1>3, <2>5 DEF Watch!Tick, Watch!listener
  <2> QED
    BY <2>1, <2>2, <2>3, <2>4, <2>5
<1>7. Watch!TypeOK'
  BY <1>1, <1>4, <1>5, <1>6 DEF WatchInv, Watch!TypeOK
<1> QED
  BY <1>2, <1>6, <1>7 DEF WatchInv, NotesTyped

LEMMA WatchNext ==
  ASSUME Watch!WatchAssumption, WatchInv, [Watch!Next]_(Watch!vars) PROVE WatchInv'
<1>1. CASE UNCHANGED Watch!vars
  BY <1>1 DEF Watch!vars, Watch!files, Watch!script, Watch!listener, Watch!hist, WatchInv,
     Watch!TypeOK, NotesTyped, NewsIsNew, Watch!Between
<1> QED
  BY <1>1, ChangeInv, RoundInv, StatPrevInv, StatNextInv, ListenInv
  DEF Watch!Next, Watch!Script, Watch!Listener

\* A note is sent of what is new.
LEMMA NewsStep ==
  ASSUME WatchInv
  PROVE  \A f \in Watch!Files :
           watching = "next" /\ f \in remaining \ remaining' /\ differs[f] => ver[f] > noted[f]
<1> SUFFICES ASSUME NEW f \in Watch!Files, watching = "next", f \in remaining, differs[f]
             PROVE  ver[f] > noted[f]
  OBVIOUS
<1> QED
  BY DEF WatchInv, NewsIsNew, Watch!Between, Watch!TypeOK

-----------------------------------------------------------------------------
(* The run *)

\* A step of the run is a step of one part and leaves the others as they are.
LEMMA PartsSteps ==
  ASSUME [PartsNext]_parts
  PROVE  /\ [Next]_vars
         /\ [Address!Next]_(Address!vars) /\ [Images!Next]_(Images!vars)
         /\ [Rc!Next]_(Rc!vars) /\ [Watch!Next]_(Watch!vars)
<1>1. UNCHANGED address => UNCHANGED Address!vars
  BY DEF address, Address!vars, Address!world, Address!memory, Address!hist
<1>2. UNCHANGED images => UNCHANGED Images!vars
  BY DEF images, Images!vars, Images!config, Images!client, Images!server,
     Images!streams, Images!hist
<1>3. UNCHANGED rc => UNCHANGED Rc!vars
  BY DEF rc, Rc!vars, Rc!procs, Rc!outside, Rc!script
<1>4. UNCHANGED watch => UNCHANGED Watch!vars
  BY DEF watch, Watch!vars, Watch!files, Watch!script, Watch!listener, Watch!hist
<1>5. /\ Next \/ UNCHANGED vars
      /\ Address!Next \/ UNCHANGED address
      /\ Images!Next \/ UNCHANGED images
      /\ Rc!Next \/ UNCHANGED rc
      /\ Watch!Next \/ UNCHANGED watch
  BY DEF PartsNext, parts
<1> QED
  BY <1>1, <1>2, <1>3, <1>4, <1>5

LEMMA PartsStart ==
  ASSUME PartsInit PROVE Init /\ Address!Init /\ Images!Init /\ Rc!Init /\ Watch!Init
  BY DEF PartsInit

\* Each part behaves in the run as its own specification says.
LEMMA PartsBehave ==
  PartsSpec => /\ Init /\ [][Next]_vars
               /\ Address!Init /\ [][Address!Next]_(Address!vars)
               /\ Photos!Spec
               /\ Rc!Init /\ [][Rc!Next]_(Rc!vars)
               /\ Watch!Init /\ [][Watch!Next]_(Watch!vars)
<1>1. PartsInit => Init /\ Address!Init /\ Photos!Init /\ Rc!Init /\ Watch!Init
  BY PartsStart, SamePhotos
<1>2. [PartsNext]_parts =>
        /\ [Next]_vars /\ [Address!Next]_(Address!vars) /\ [Photos!Next]_(Photos!vars)
        /\ [Rc!Next]_(Rc!vars) /\ [Watch!Next]_(Watch!vars)
  BY PartsSteps, SamePhotos
<1> QED
  BY <1>1, <1>2, PTL DEF PartsSpec, Photos!Spec

\* The inductive invariants of the parts hold in every state of the run.
LEMMA PartsSafe == PartsSpec => [](IInv /\ AddressInv /\ ScriptInv /\ WatchInv)
<1>1. /\ Address!ConnectionAssumption /\ Rc!RcAssumption /\ Watch!WatchAssumption
  BY NetworkAssumption
<1>2. Address!Init => AddressInv
  BY <1>1, AddressInit
<1>3. AddressInv /\ [Address!Next]_(Address!vars) => AddressInv'
  BY <1>1, AddressNext
<1>4. Rc!Init => ScriptInv
  BY <1>1, ScriptInit
<1>5. ScriptInv /\ [Rc!Next]_(Rc!vars) => ScriptInv'
  BY <1>1, ScriptNext
<1>6. Watch!Init => WatchInv
  BY <1>1, WatchInit
<1>7. WatchInv /\ [Watch!Next]_(Watch!vars) => WatchInv'
  BY <1>1, WatchNext
<1> QED
  BY LineInit, LineStep, <1>2, <1>3, <1>4, <1>5, <1>6, <1>7, PartsBehave, PTL

-----------------------------------------------------------------------------
(* The theorems *)

\* What accept_binary expects never wraps around, at most two answers are on
\* their way, the pid file holds a pid and the listener's queue has an end, for
\* any number of forms, processes and files.
THEOREM TypeCorrect == PartsSpec => []NetworkTypeOK
<1>1. Photos!ImageAssumption
  BY NetworkAssumption, SamePhotos
<1>2. Photos!Spec => []Photos!TypeOK
  BY <1>1, Photos!TypeCorrect
<1>3. Photos!TypeOK /\ AddressInv /\ ScriptInv /\ WatchInv => NetworkTypeOK
  BY SamePhotos DEF NetworkTypeOK, AddressInv, ScriptInv, WatchInv
<1> QED
  BY <1>2, <1>3, PartsBehave, PartsSafe, PTL

\* my_read never looks outside of rl_buf, which holds no more than MaxLine bytes.
THEOREM LinesTyped == PartsSpec => []TypeOK
<1>1. IInv => TypeOK
  BY DEF IInv
<1> QED
  BY <1>1, PartsSafe, PTL

\* Both ends may take a mixture of raw parts and lines for what was written: the
\* bytes come in order, each once, readline returns the lines that fgets would,
\* and as long as a part is answered before the next is written, nothing of a
\* raw part is in readline's buffer when readn reads it.
THEOREM ReadsAsWritten == PartsSpec => []ReadAsWritten
<1>1. IInv => ReadAsWritten
  BY DEF IInv, ReadAsWritten
<1> QED
  BY <1>1, PartsSafe, PTL

\* A photo that send_photo calls transferred is whole at the server, for any
\* number of forms, sizes of photos and of the buffer (server/eduserver.c:836).
THEOREM PhotosWhole == PartsSpec => []PhotosAreWhole
<1>1. Photos!ImageAssumption
  BY NetworkAssumption, SamePhotos
<1>2. Photos!Spec => []Photos!PhotosAreWhole
  BY <1>1, Photos!PhotosWhole
<1>3. Photos!PhotosAreWhole => PhotosAreWhole
  BY SamePhotos
<1> QED
  BY <1>2, <1>3, PartsBehave, PTL

\* While the connection holds, a form is lost only behind a photo whose bytes
\* the server asked for and gave up; no other photo costs a form
\* (project2/src/myfuncs.c:1604, server/eduserver.c:847).
THEOREM FormsStillGo == PartsSpec => []FormsGoOn
<1>1. Photos!ImageAssumption
  BY NetworkAssumption, SamePhotos
<1>2. Photos!Spec => []Photos!FormsGoOn
  BY <1>1, Photos!FormsStillGo
<1>3. Photos!FormsGoOn => FormsGoOn
  BY SamePhotos
<1> QED
  BY <1>2, <1>3, PartsBehave, PTL

\* The address that init_connection uses without a lookup has worked before or
\* is what website.txt says now, however often the server moves
\* (project2/src/myfuncs.c:1094).
THEOREM AddressKnown == PartsSpec => []AddressIsKnown
<1>1. AddressInv => AddressIsKnown
  BY DEF AddressInv, AddressIsKnown
<1> QED
  BY <1>1, PartsSafe, PTL

\* reload reloads, restart leaves a server unless another one holds the port,
\* and the pid file names the server that runs if start is used after stop
\* only, for any number of processes (server/rc.eduserver).
THEOREM ScriptObeyed == PartsSpec => []ScriptIsObeyed
<1>1. ScriptInv => ScriptIsObeyed
  BY ScriptSafe, NetworkAssumption
<1> QED
  BY <1>1, PartsSafe, PTL

\* A note is sent only of a file that has changed since its last note
\* (server/sync-data.sh).
THEOREM OnlyNews == PartsSpec => Watch!OnlyNews
<1> DEFINE NotesNew == \A f \in Watch!Files :
                         watching = "next" /\ f \in remaining \ remaining' /\ differs[f]
                           => ver[f] > noted[f]
<1>1. WatchInv => [NotesNew]_(Watch!vars)
  BY NewsStep
<1>2. [][NotesNew]_(Watch!vars) => Watch!OnlyNews
  BY DEF Watch!OnlyNews
<1> HIDE DEF NotesNew
<1> QED
  BY <1>1, <1>2, PartsSafe, PTL
=============================================================================
