---------------------------- MODULE Ring_proofs ----------------------------
(***************************************************************************)
(* Proofs that the ring delivers the producer's bytes in order and without *)
(* data races, for every capacity and every length of call, provided no    *)
(* handle attaches to a ring in use.                                       *)
(*                                                                         *)
(* The code computes with %, on which the provers are weak.  The cursors   *)
(* never leave 0..Capacity-1, so each % is one conditional subtraction;    *)
(* the first lemmas say so, and the induction is done on the linear form.  *)
(***************************************************************************)
EXTENDS Ring, SequenceTheorems, TLAPS

Pos(a, i) == IF a + i < Capacity THEN a + i ELSE a + i - Capacity
Used == IF head >= tail THEN head - tail ELSE head + Capacity - tail

(* Stepping i slots from slot a is one conditional subtraction.            *)
LEMMA StepIsPos ==
  ASSUME NEW a \in Slot, NEW i \in 0..Capacity
  PROVE  (a + i) % Capacity = Pos(a, i) /\ Pos(a, i) \in Slot
<1>1. CASE a + i < Capacity
  BY <1>1, RingAssumption DEF Slot, Pos
<1>2. CASE a + i >= Capacity
  BY <1>2, RingAssumption DEF Slot, Pos
<1> QED BY <1>1, <1>2, RingAssumption DEF Slot

(* The two available_* queries split Capacity - 1 bytes between them.      *)
LEMMA QueriesAreLinear ==
  ASSUME head \in Slot, tail \in Slot
  PROVE  /\ AvailableRead = Used /\ Used \in Slot
         /\ AvailableWrite = Capacity - 1 - Used
<1> DEFINE x == head + Capacity - tail
           y == Capacity - 1 + tail - head
<1>1. /\ x \in Nat /\ y \in Nat /\ x < 2 * Capacity /\ y < 2 * Capacity
      /\ Capacity \in Nat \ {0}
  BY RingAssumption DEF Slot
<1>2. \A z \in Nat : z < Capacity => z % Capacity = z
  BY <1>1
<1>3. \A z \in Nat : z >= Capacity /\ z < 2 * Capacity => z % Capacity = z - Capacity
  BY <1>1
<1>4. CASE head >= tail
  <2>1. x >= Capacity /\ y < Capacity
    BY <1>4, RingAssumption DEF Slot
  <2>2. x % Capacity = head - tail
    BY <1>1, <1>3, <2>1, RingAssumption DEF Slot
  <2>3. y % Capacity = y
    BY <1>1, <1>2, <2>1
  <2> QED BY <1>4, <2>2, <2>3, RingAssumption DEF Slot, Used, AvailableRead, AvailableWrite
<1>5. CASE head < tail
  <2>1. x < Capacity /\ y >= Capacity
    BY <1>5, RingAssumption DEF Slot
  <2>2. x % Capacity = x
    BY <1>1, <1>2, <2>1
  <2>3. y % Capacity = y - Capacity
    BY <1>1, <1>3, <2>1
  <2> QED BY <1>5, <2>2, <2>3, RingAssumption DEF Slot, Used, AvailableRead, AvailableWrite
<1> QED BY <1>4, <1>5 DEF Slot

(* The two memcpys of a chunk fill consecutive slots, wrapping once.       *)
LEMMA SlotOfIsPos ==
  ASSUME NEW at \in Slot, NEW chunk \in Slot, NEW i \in 0 .. (chunk - 1)
  PROVE  SlotOf(at, chunk, i) = Pos(at, i) /\ Pos(at, i) \in Slot
BY RingAssumption DEF Slot, SlotOf, Least, Pos

(* Distinct offsets below Capacity are distinct slots.                     *)
LEMMA PosInjective ==
  ASSUME NEW a \in Slot, NEW i \in Slot, NEW j \in Slot, i # j
  PROVE  Pos(a, i) # Pos(a, j)
BY RingAssumption DEF Slot, Pos

(* Counting from head is counting from tail past the bytes in the ring.    *)
LEMMA HeadOffset ==
  ASSUME head \in Slot, tail \in Slot, NEW i \in Nat, Used + i < Capacity
  PROVE  Pos(head, i) = Pos(tail, Used + i)
BY RingAssumption DEF Slot, Pos, Used

-----------------------------------------------------------------------------
USE DEF shared, handles, wcall, wpart, rcall, rpart, writer, reader

(* RingInv with every % and SlotOf in linear form.                         *)
LPublished == \A i \in 0 .. (Used - 1) : data[Pos(tail, i)] = Len(out) + i
LWriterClaim ==
  wpc = "copy" =>
    /\ wat = head /\ wchunk \in 1 .. (Capacity - 1 - Used) /\ wcopied <= wchunk
    /\ \A i \in 0 .. (wcopied - 1) : data[Pos(head, i)] = sent + i
LReaderClaim ==
  rpc = "copy" =>
    /\ rat = tail /\ rchunk \in 1..Used /\ Len(rbuf) <= rchunk
    /\ \A i \in 1..Len(rbuf) : rbuf[i] = Len(out) + i - 1
LInv ==
  /\ TypeOK /\ InOrder /\ Used = sent - Len(out)
  /\ LPublished /\ LWriterClaim /\ LReaderClaim

LEMMA LInvIsRingInv == LInv <=> RingInv
<1> SUFFICES ASSUME TypeOK PROVE LInv <=> RingInv
  BY DEF LInv, RingInv
<1>1. head \in Slot /\ tail \in Slot /\ wat \in Slot /\ wchunk \in Nat /\ wcopied \in Nat
  BY DEF TypeOK
<1>2. AvailableRead = Used /\ Used \in Slot /\ AvailableWrite = Capacity - 1 - Used
  BY <1>1, QueriesAreLinear
<1>3. Published <=> LPublished
  <2>1. \A i \in 0 .. (Used - 1) : (tail + i) % Capacity = Pos(tail, i)
    BY <1>1, <1>2, StepIsPos, RingAssumption DEF Slot
  <2> QED BY <2>1, <1>2 DEF Published, LPublished
<1>4. WriterClaim <=> LWriterClaim
  <2>1. ASSUME wat = head, wchunk \in 1 .. (Capacity - 1 - Used), wcopied <= wchunk,
               NEW i \in 0 .. (wcopied - 1)
        PROVE  SlotOf(wat, wchunk, i) = Pos(head, i)
    <3>1. wchunk \in Slot /\ i \in 0 .. (wchunk - 1)
      BY <2>1, <1>1, <1>2, RingAssumption DEF Slot
    <3> QED BY <3>1, <2>1, <1>1, SlotOfIsPos
  <2> QED BY <2>1, <1>2 DEF WriterClaim, LWriterClaim
<1>5. ReaderClaim <=> LReaderClaim
  BY <1>2 DEF ReaderClaim, LReaderClaim
<1>6. CursorsCountBytes <=> Used = sent - Len(out)
  BY <1>2 DEF CursorsCountBytes
<1> QED BY <1>3, <1>4, <1>5, <1>6 DEF LInv, RingInv

LEMMA InitLInv == Init => LInv
<1> SUFFICES ASSUME Init PROVE LInv
  OBVIOUS
<1>1. 0 \in Slot /\ Used = 0 /\ Len(out) = 0
  BY RingAssumption DEF Init, Slot, Used
<1>2. TypeOK
  BY <1>1, RingAssumption DEF Init, TypeOK, Garbage
<1> QED BY <1>1, <1>2 DEF Init, LInv, InOrder, LPublished, LWriterClaim, LReaderClaim

(* The producer copies one byte: it lands past the published bytes.        *)
LEMMA WCopyLInv == LInv /\ WCopy => LInv'
<1> SUFFICES ASSUME LInv, WCopy PROVE LInv'
  OBVIOUS
<1> DEFINE s == SlotOf(wat, wchunk, wcopied)
<1>1. /\ head \in Slot /\ tail \in Slot /\ Used \in Slot /\ sent \in Nat
      /\ wat = head /\ wchunk \in 1 .. (Capacity - 1 - Used) /\ wchunk \in Slot
      /\ wcopied \in 0 .. (wchunk - 1)
  BY QueriesAreLinear, RingAssumption DEF LInv, TypeOK, LWriterClaim, WCopy, Slot
<1>2. s = Pos(head, wcopied) /\ s \in Slot
  BY <1>1, SlotOfIsPos
<1>3. s = Pos(tail, Used + wcopied)
  <2>1. wcopied \in Nat /\ Used + wcopied < Capacity
    BY <1>1, RingAssumption DEF Slot
  <2> QED BY <1>1, <1>2, <2>1, HeadOffset
<1>4. data' = [data EXCEPT ![s] = sent + wcopied] /\ wcopied' = wcopied + 1
  BY DEF WCopy
<1>5. UNCHANGED <<head, tail, reader, sent, out>> /\ Used' = Used
  BY DEF WCopy, Used
<1>6. TypeOK'
  BY <1>1, <1>2, <1>4, <1>5 DEF LInv, TypeOK, WCopy
<1>7. LPublished'
  <2> SUFFICES ASSUME NEW i \in 0 .. (Used - 1)
               PROVE  data'[Pos(tail, i)] = Len(out) + i
    BY <1>5 DEF LPublished, Pos
  <2>1. i \in Slot /\ Used + wcopied \in Slot /\ i # Used + wcopied
    BY <1>1, RingAssumption DEF Slot
  <2>2. Pos(tail, i) # s
    BY <1>1, <1>3, <2>1, PosInjective
  <2>3. Pos(tail, i) \in Slot
    BY <1>1, <2>1, StepIsPos, RingAssumption DEF Slot
  <2> QED BY <1>4, <2>2, <2>3 DEF LInv, LPublished, TypeOK
<1>8. LWriterClaim'
  <2>1. wat' = wat /\ wchunk' = wchunk /\ wcopied' = wcopied + 1
    BY <1>4 DEF WCopy
  <2> SUFFICES ASSUME NEW i \in 0..wcopied
               PROVE  data'[Pos(head, i)] = sent + i
    BY <1>1, <1>5, <2>1 DEF LWriterClaim, Pos
  <2>2. CASE i = wcopied
    BY <1>2, <1>4, <2>2 DEF LInv, TypeOK
  <2>3. CASE i # wcopied
    <3>1. i \in 0 .. (wcopied - 1) /\ i \in Slot /\ wcopied \in Slot
      BY <1>1, <2>3, RingAssumption DEF Slot
    <3>2. Pos(head, i) # s
      BY <1>1, <1>2, <2>3, <3>1, PosInjective
    <3>3. Pos(head, i) \in Slot
      BY <1>1, <3>1, StepIsPos, RingAssumption DEF Slot
    <3>4. data[Pos(head, i)] = sent + i
      BY <3>1 DEF LInv, LWriterClaim, WCopy
    <3> QED BY <1>4, <3>2, <3>3, <3>4 DEF LInv, TypeOK
  <2> QED BY <2>2, <2>3
<1> QED BY <1>5, <1>6, <1>7, <1>8 DEF LInv, InOrder, LReaderClaim

(* Publishing head hands over exactly the bytes of the chunk.              *)
LEMMA WPublishLInv == LInv /\ WPublish => LInv'
<1> SUFFICES ASSUME LInv, WPublish PROVE LInv'
  OBVIOUS
<1>1. /\ head \in Slot /\ tail \in Slot /\ Used \in Slot /\ sent \in Nat
      /\ wat = head /\ wchunk \in 1 .. (Capacity - 1 - Used) /\ wcopied = wchunk
      /\ Used = sent - Len(out) /\ Len(out) \in Nat
  BY QueriesAreLinear DEF LInv, TypeOK, LWriterClaim, WPublish
<1>2. head' = Pos(head, wchunk) /\ head' \in Slot
  <2>1. wchunk \in 0..Capacity
    BY <1>1, RingAssumption DEF Slot
  <2> QED BY <1>1, <2>1, StepIsPos DEF WPublish
<1>u. UNCHANGED <<tail, data, out, reader>>
  BY DEF WPublish
<1>3. Used' = Used + wchunk
  BY <1>1, <1>2, <1>u, RingAssumption DEF Used, Pos, Slot
<1>4. TypeOK'
  BY <1>1, <1>2 DEF LInv, TypeOK, WPublish
<1>5. LPublished'
  <2>1. ASSUME NEW i \in 0 .. (Used - 1)
        PROVE  data[Pos(tail, i)] = Len(out) + i
    BY <2>1 DEF LInv, LPublished
  <2>2. ASSUME NEW j \in 0 .. (wchunk - 1)
        PROVE  data[Pos(tail, Used + j)] = Len(out) + (Used + j)
    <3>1. j \in Nat /\ Used + j < Capacity
      BY <1>1, RingAssumption DEF Slot
    <3>2. Pos(head, j) = Pos(tail, Used + j)
      BY <1>1, <3>1, HeadOffset
    <3>3. data[Pos(head, j)] = sent + j
      BY <1>1, <2>2 DEF LInv, LWriterClaim, WPublish
    <3> QED BY <1>1, <3>1, <3>2, <3>3 DEF Slot
  <2>3. ASSUME NEW i \in 0 .. (Used' - 1)
        PROVE  data[Pos(tail, i)] = Len(out) + i
    <3>1. CASE i < Used
      BY <1>1, <1>3, <2>1, <2>3, <3>1 DEF Slot
    <3>2. CASE i >= Used
      <4>1. i - Used \in 0 .. (wchunk - 1) /\ Used + (i - Used) = i
        BY <1>1, <1>3, <2>3, <3>2 DEF Slot
      <4> QED BY <2>2, <4>1
    <3> QED BY <1>1, <1>3, <2>3, <3>1, <3>2 DEF Slot
  <2> QED BY <2>3, <1>u DEF LPublished, Pos
<1>6. wpc' = "loop" /\ sent' = sent + wchunk
  BY DEF WPublish, LInv, TypeOK
<1>7. LReaderClaim'
  BY <1>1, <1>3, <1>u DEF LInv, LReaderClaim, Slot
<1>8. Used' = sent' - Len(out')
  BY <1>1, <1>3, <1>6 DEF WPublish, Slot
<1> QED BY <1>4, <1>5, <1>6, <1>7, <1>8 DEF LInv, InOrder, LWriterClaim, WPublish

(* The consumer copies one byte, which is the stream's next one.           *)
LEMMA RCopyLInv == LInv /\ RCopy => LInv'
<1> SUFFICES ASSUME LInv, RCopy PROVE LInv'
  OBVIOUS
<1> DEFINE k == Len(rbuf)
           s == SlotOf(rat, rchunk, k)
<1>1. /\ head \in Slot /\ tail \in Slot /\ Used \in Slot /\ rbuf \in Seq(Int)
      /\ rat = tail /\ rchunk \in 1..Used /\ rchunk \in Slot /\ k \in 0 .. (rchunk - 1)
  <2>1. head \in Slot /\ tail \in Slot /\ rbuf \in Seq(Int) /\ k \in Nat
    BY DEF LInv, TypeOK
  <2>2. Used \in Slot
    BY <2>1, QueriesAreLinear
  <2>3. rat = tail /\ rchunk \in 1..Used /\ k < rchunk
    BY DEF LInv, LReaderClaim, RCopy
  <2>4. rchunk \in Slot /\ k \in 0 .. (rchunk - 1)
    BY <2>1, <2>2, <2>3, RingAssumption DEF Slot
  <2> QED BY <2>1, <2>2, <2>3, <2>4
<1>2. s = Pos(tail, k) /\ s \in Slot
  BY <1>1, SlotOfIsPos
<1>3. data[s] = Len(out) + k /\ data[s] \in Int
  <2>1. k \in 0 .. (Used - 1)
    BY <1>1 DEF Slot
  <2> QED BY <1>2, <2>1 DEF LInv, LPublished, TypeOK
<1>4. rbuf' = Append(rbuf, data[s])
  BY DEF RCopy
<1>5. rbuf' = Append(rbuf, data[s]) /\ rat' = rat /\ rchunk' = rchunk /\ rpc' = rpc
  BY <1>4 DEF RCopy
<1>6. UNCHANGED <<head, tail, data, writer, sent, out>> /\ Used' = Used
  BY DEF RCopy, Used
<1>7. TypeOK'
  BY <1>1, <1>3, <1>4, <1>6 DEF LInv, TypeOK, RCopy
<1>8. LReaderClaim'
  <2>1. Len(rbuf') = k + 1
    BY <1>1, <1>3, <1>5
  <2> SUFFICES ASSUME NEW i \in 1 .. (k + 1)
               PROVE  rbuf'[i] = Len(out) + i - 1
    BY <1>1, <1>5, <1>6, <2>1 DEF LReaderClaim
  <2>2. CASE i = k + 1
    BY <1>1, <1>3, <1>5, <2>2 DEF LInv, TypeOK
  <2>3. CASE i # k + 1
    <3>1. i \in 1..k
      BY <1>1, <2>3
    <3>2. rbuf[i] = Len(out) + i - 1
      BY <3>1 DEF LInv, LReaderClaim, RCopy
    <3> QED BY <1>1, <1>3, <1>5, <3>1, <3>2
  <2> QED BY <2>2, <2>3
<1> QED BY <1>6, <1>7, <1>8 DEF LInv, InOrder, LPublished, LWriterClaim, Pos

(* Publishing tail frees exactly the bytes that were delivered.            *)
LEMMA RPublishLInv == LInv /\ RPublish => LInv'
<1> SUFFICES ASSUME LInv, RPublish PROVE LInv'
  OBVIOUS
<1>1. /\ head \in Slot /\ tail \in Slot /\ Used \in Slot /\ sent \in Nat
      /\ rat = tail /\ rchunk \in 1..Used /\ Len(rbuf) = rchunk
      /\ Used = sent - Len(out) /\ Len(out) \in Nat /\ rbuf \in Seq(Int) /\ out \in Seq(Int)
  BY QueriesAreLinear DEF LInv, TypeOK, LReaderClaim, RPublish
<1>2. tail' = Pos(tail, rchunk) /\ tail' \in Slot
  <2>1. rchunk \in 0..Capacity
    BY <1>1, RingAssumption DEF Slot
  <2> QED BY <1>1, <2>1, StepIsPos DEF RPublish
<1>u. UNCHANGED <<head, data, sent, writer>>
  BY DEF RPublish
<1>3. Used' = Used - rchunk
  BY <1>1, <1>2, <1>u, RingAssumption DEF Used, Pos, Slot
<1>4. out' = out \o rbuf /\ out' \in Seq(Int) /\ Len(out') = Len(out) + rchunk
  <2>1. out' = out \o rbuf
    BY DEF RPublish
  <2> QED BY <1>1, <2>1, ConcatProperties
<1>5. TypeOK'
  BY <1>1, <1>2, <1>4 DEF LInv, TypeOK, RPublish
<1>6. InOrder'
  <2> SUFFICES ASSUME NEW i \in 1 .. (Len(out) + rchunk)
               PROVE  out'[i] = i - 1
    BY <1>4 DEF InOrder
  <2>1. CASE i <= Len(out)
    BY <1>1, <1>4, <2>1 DEF LInv, InOrder
  <2>2. CASE i > Len(out)
    <3>1. i - Len(out) \in 1..Len(rbuf) /\ out'[i] = rbuf[i - Len(out)]
      BY <1>1, <1>4, <2>2
    <3>2. rbuf[i - Len(out)] = Len(out) + (i - Len(out)) - 1
      BY <3>1 DEF LInv, LReaderClaim, RPublish
    <3> QED BY <1>1, <3>1, <3>2
  <2> QED BY <1>1, <2>1, <2>2
<1>7. LPublished'
  <2> SUFFICES ASSUME NEW i \in 0 .. (Used - rchunk - 1)
               PROVE  data[Pos(tail', i)] = Len(out) + rchunk + i
    BY <1>3, <1>4, <1>u DEF LPublished, Pos
  <2>1. rchunk + i \in 0 .. (Used - 1)
    BY <1>1 DEF Slot
  <2>2. Pos(tail', i) = Pos(tail, rchunk + i)
    BY <1>1, <1>2, <2>1, RingAssumption DEF Pos, Slot
  <2>3. data[Pos(tail, rchunk + i)] = Len(out) + (rchunk + i)
    BY <2>1 DEF LInv, LPublished
  <2> QED BY <1>1, <2>2, <2>3
<1>8. LWriterClaim'
  BY <1>1, <1>3, <1>u, RingAssumption DEF LInv, LWriterClaim, Slot, Pos
<1>9. rpc' = "loop"
  BY DEF RPublish, LInv, TypeOK
<1>10. Used' = sent' - Len(out')
  BY <1>1, <1>3, <1>4 DEF RPublish, Slot
<1> QED BY <1>5, <1>6, <1>7, <1>8, <1>9, <1>10 DEF LInv, LReaderClaim

(* Starting a call, giving up, spinning and returning touch locals only.   *)
LEMMA CallStepsLInv ==
  ASSUME LInv,
         \/ \E n \in 0..MaxCall : WCall(n)
         \/ \E n \in 0..MaxCall : RCall(n)
         \/ WReturn \/ WGiveUp \/ WSpin \/ RReturn \/ RGiveUp \/ RSpin
  PROVE  LInv'
<1> USE RingAssumption
<1>0. 0 \in Slot
  BY DEF Slot
<1>1. ASSUME NEW n \in 0..MaxCall, WCall(n) PROVE LInv'
  BY <1>1 DEF WCall, LInv, TypeOK, InOrder, Used, LPublished, Pos, LWriterClaim, LReaderClaim
<1>2. ASSUME NEW n \in 0..MaxCall, RCall(n) PROVE LInv'
  BY <1>2 DEF RCall, LInv, TypeOK, InOrder, Used, LPublished, Pos, LWriterClaim, LReaderClaim
<1>3. CASE WReturn \/ WGiveUp
  <2>1. WEnd
    BY <1>3 DEF WReturn, WGiveUp
  <2>2. TypeOK'
    BY <1>0, <2>1 DEF WEnd, LInv, TypeOK
  <2>3. wpc' = "idle" /\ UNCHANGED <<shared, reader, sent, out>> /\ Used' = Used
    BY <2>1 DEF WEnd, Used
  <2> QED BY <2>2, <2>3 DEF LInv, InOrder, LPublished, Pos, LWriterClaim, LReaderClaim
<1>4. CASE WSpin
  BY <1>4 DEF WSpin, LInv, TypeOK, InOrder, Used, LPublished, Pos, LWriterClaim, LReaderClaim
<1>5. CASE RReturn \/ RGiveUp
  <2>1. REnd
    BY <1>5 DEF RReturn, RGiveUp
  <2>2. TypeOK'
    BY <1>0, <2>1 DEF REnd, LInv, TypeOK
  <2>3. rpc' = "idle" /\ UNCHANGED <<shared, writer, sent, out>> /\ Used' = Used
    BY <2>1 DEF REnd, Used
  <2> QED BY <2>2, <2>3 DEF LInv, InOrder, LPublished, Pos, LWriterClaim, LReaderClaim
<1>6. CASE RSpin
  BY <1>6 DEF RSpin, LInv, TypeOK, InOrder, Used, LPublished, Pos, LWriterClaim, LReaderClaim
<1> QED BY <1>1, <1>2, <1>3, <1>4, <1>5, <1>6

(* A chunk is sized by what the cursors allow at that moment.              *)
LEMMA ClaimsLInv == LInv /\ (WClaim \/ RClaim) => LInv'
<1> SUFFICES ASSUME LInv, WClaim \/ RClaim PROVE LInv'
  OBVIOUS
<1>1. /\ head \in Slot /\ tail \in Slot /\ Used \in Slot
      /\ AvailableRead = Used /\ AvailableWrite = Capacity - 1 - Used
      /\ wn \in Nat /\ wdone \in Nat /\ rn \in Nat /\ rdone \in Nat
  BY QueriesAreLinear DEF LInv, TypeOK
<1>2. CASE WClaim
  <2>1. wchunk' \in 1 .. (Capacity - 1 - Used)
    BY <1>1, <1>2, RingAssumption DEF WClaim, Least, Slot
  <2>2. wpc' = "copy" /\ wat' = head /\ wcopied' = 0
    BY <1>2 DEF WClaim
  <2>3. UNCHANGED <<shared, handles, wcall, reader, sent, out>> /\ Used' = Used
    BY <1>2 DEF WClaim, Used
  <2>4. TypeOK'
    BY <1>1, <2>1, <2>2, <2>3 DEF LInv, TypeOK
  <2> QED BY <2>1, <2>2, <2>3, <2>4 DEF LInv, InOrder, LPublished, LWriterClaim, LReaderClaim, Pos
<1>3. CASE RClaim
  <2>1. rchunk' \in 1..Used
    BY <1>1, <1>3, RingAssumption DEF RClaim, Least, Slot
  <2>2. rpc' = "copy" /\ rat' = tail /\ rbuf' = << >>
    BY <1>3 DEF RClaim
  <2>3. UNCHANGED <<shared, handles, rcall, writer, sent, out>> /\ Used' = Used
    BY <1>3 DEF RClaim, Used
  <2>4. TypeOK'
    BY <1>1, <2>1, <2>2, <2>3 DEF LInv, TypeOK
  <2> QED BY <2>1, <2>2, <2>3, <2>4 DEF LInv, InOrder, LPublished, LWriterClaim, LReaderClaim, Pos
<1> QED BY <1>2, <1>3

(* Attaching before the ring is used stores the zeros that are there.      *)
LEMMA AttachLInv == LInv /\ Attach => LInv'
<1> SUFFICES ASSUME LInv, Attach PROVE LInv'
  OBVIOUS
<1>1. wpc = "idle" /\ rpc = "idle" /\ sent = 0 /\ sent' = 0
  BY DEF Attach
<1>2. Used \in Nat /\ Len(out) \in Nat
  BY QueriesAreLinear DEF LInv, TypeOK, Slot
<1>3. Len(out) = 0
  BY <1>1, <1>2 DEF LInv
<1>4. head' = 0 /\ tail' = 0 /\ 0 \in Slot /\ Used' = 0
  BY RingAssumption DEF Attach, Slot, Used
<1>5. TypeOK'
  BY <1>4 DEF LInv, TypeOK, Attach
<1> QED BY <1>1, <1>3, <1>4, <1>5 DEF LInv, InOrder, LPublished, LWriterClaim, LReaderClaim, Attach

(* RingInv is inductive.                                                   *)
LEMMA LInvStep ==
  ASSUME LInv, [Next]_vars
  PROVE  LInv'
<1>1. CASE UNCHANGED vars
  BY <1>1 DEF vars, LInv, TypeOK, InOrder, Used, LPublished, LWriterClaim, LReaderClaim, Pos
<1>2. CASE Next
  BY <1>2, AttachLInv, CallStepsLInv, ClaimsLInv, WCopyLInv, WPublishLInv, RCopyLInv,
     RPublishLInv DEF Next, WStep, RStep
<1> QED BY <1>1, <1>2

(* The ring's inductive invariant holds in every reachable state.          *)
THEOREM RingInvariant == Spec => []RingInv
<1>1. Init => LInv
  BY InitLInv
<1>2. LInv /\ [Next]_vars => LInv'
  BY LInvStep
<1>3. LInv => RingInv
  BY LInvIsRingInv
<1> QED BY <1>1, <1>2, <1>3, PTL DEF Spec

(* The consumer gets the producer's bytes, each once and in order, for     *)
(* every capacity, call length and spin limit (zcio_ring_read/write).      *)
THEOREM BytesInOrder == Spec => []InOrder
<1>1. RingInv => InOrder
  BY DEF RingInv
<1> QED BY <1>1, RingInvariant, PTL

(* head and tail alone always count the bytes in the ring.                 *)
THEOREM CursorsCount == Spec => []CursorsCountBytes
<1>1. RingInv => CursorsCountBytes
  BY DEF RingInv
<1> QED BY <1>1, RingInvariant, PTL

(* Producer and consumer never touch the same slot of the data block at    *)
(* the same time, although each works from a stale copy of the other's     *)
(* cursor.                                                                 *)
THEOREM RaceFree == Spec => []NoDataRace
<1>1. LInv => NoDataRace
  <2> SUFFICES ASSUME LInv, wpc = "copy", rpc = "copy",
                      NEW i \in wcopied .. (wchunk - 1), NEW j \in Len(rbuf) .. (rchunk - 1)
               PROVE  SlotOf(wat, wchunk, i) # SlotOf(rat, rchunk, j)
    BY DEF NoDataRace, WriteSlots, ReadSlots
  <2>1. /\ head \in Slot /\ tail \in Slot /\ Used \in Slot /\ wat = head /\ rat = tail
        /\ wchunk \in 1 .. (Capacity - 1 - Used) /\ rchunk \in 1..Used
        /\ wcopied \in Nat /\ Len(rbuf) \in Nat
    BY QueriesAreLinear DEF LInv, TypeOK, LWriterClaim, LReaderClaim
  <2>2. /\ wchunk \in Slot /\ rchunk \in Slot /\ i \in 0 .. (wchunk - 1) /\ j \in 0 .. (rchunk - 1)
        /\ i \in Nat /\ Used + i \in Slot /\ j \in Slot /\ j # Used + i /\ Used + i < Capacity
    BY <2>1, RingAssumption DEF Slot
  <2>3. SlotOf(wat, wchunk, i) = Pos(tail, Used + i)
    BY <2>1, <2>2, SlotOfIsPos, HeadOffset
  <2>4. SlotOf(rat, rchunk, j) = Pos(tail, j)
    BY <2>1, <2>2, SlotOfIsPos
  <2> QED BY <2>1, <2>2, <2>3, <2>4, PosInjective
<1>2. RingInv => NoDataRace
  BY <1>1, LInvIsRingInv
<1> QED BY <1>2, RingInvariant, PTL

(* Every variable keeps its type: the cursors never leave the block.       *)
THEOREM RingTypes == Spec => []TypeOK
<1>1. RingInv => TypeOK
  BY DEF RingInv
<1> QED BY <1>1, RingInvariant, PTL

-----------------------------------------------------------------------------
(***************************************************************************)
(* The ring implements the FIFO channel.  In a state that satisfies LInv   *)
(* the bytes between the cursors are a run of consecutive numbers, so the  *)
(* mapped channel depends on Used and Len(out) alone: the steps that move  *)
(* no cursor stutter, whatever they write into the block.                  *)
(***************************************************************************)
Run(a, n) == [i \in 1..n |-> a + i - 1]
Chan == [i \in 1..AvailableRead |-> data[(tail + i - 1) % Capacity]]

LEMMA RunType ==
  ASSUME NEW a \in Nat, NEW n \in Nat
  PROVE  /\ Run(a, n) \in Seq(Int) /\ Len(Run(a, n)) = n
         /\ \A i \in 1..n : Run(a, n)[i] = a + i - 1
BY DEF Run

(* Consecutive runs join.                                                  *)
LEMMA RunConcat ==
  ASSUME NEW a \in Nat, NEW n \in Nat, NEW m \in Nat
  PROVE  Run(a, n) \o Run(a + n, m) = Run(a, n + m)
<1> DEFINE s == Run(a, n)
           t == Run(a + n, m)
           u == Run(a, n + m)
<1>1. s \in Seq(Int) /\ Len(s) = n /\ \A i \in 1..n : s[i] = a + i - 1
  BY RunType
<1>2. t \in Seq(Int) /\ Len(t) = m /\ \A i \in 1..m : t[i] = (a + n) + i - 1
  <2>1. a + n \in Nat
    OBVIOUS
  <2> QED BY <2>1, RunType
<1>3. u \in Seq(Int) /\ Len(u) = n + m /\ \A i \in 1 .. (n + m) : u[i] = a + i - 1
  <2>1. n + m \in Nat
    OBVIOUS
  <2> QED BY <2>1, RunType
<1> HIDE DEF s, t, u
<1>4. /\ s \o t \in Seq(Int) /\ Len(s \o t) = n + m
      /\ \A i \in 1 .. (n + m) : (s \o t)[i] = IF i <= n THEN s[i] ELSE t[i - n]
  BY <1>1, <1>2, ConcatProperties
<1>5. ASSUME NEW i \in 1 .. (n + m) PROVE (s \o t)[i] = u[i]
  <2>1. u[i] = a + i - 1
    BY <1>3
  <2>2. CASE i <= n
    <3>1. i \in 1..n
      BY <2>2
    <3>2. s[i] = a + i - 1
      BY <1>1, <3>1
    <3> QED BY <1>4, <2>1, <2>2, <3>2
  <2>3. CASE i > n
    <3>1. i - n \in 1..m
      BY <2>3
    <3>2. t[i - n] = (a + n) + (i - n) - 1
      BY <1>2, <3>1
    <3>3. (s \o t)[i] = t[i - n]
      BY <1>4, <2>3
    <3> QED BY <2>1, <3>2, <3>3
  <2>4. i <= n \/ i > n
    OBVIOUS
  <2> QED BY <2>2, <2>3, <2>4
<1>6. s \o t = u
  BY <1>3, <1>4, <1>5, SeqEqual
<1> QED BY <1>6 DEF s, t, u

(* A run is cut into two runs.                                             *)
LEMMA RunCut ==
  ASSUME NEW a \in Nat, NEW n \in Nat, NEW k \in 1..n
  PROVE  /\ SubSeq(Run(a, n), 1, k) = Run(a, k)
         /\ SubSeq(Run(a, n), k + 1, n) = Run(a + k, n - k)
<1> DEFINE s == Run(a, n)
<1>0. k \in Nat /\ n - k \in Nat /\ a + k \in Nat
  OBVIOUS
<1>1. s \in Seq(Int) /\ Len(s) = n /\ \A i \in 1..n : s[i] = a + i - 1
  BY RunType
<1>2. /\ Run(a, k) \in Seq(Int) /\ Len(Run(a, k)) = k
      /\ \A i \in 1..k : Run(a, k)[i] = a + i - 1
  BY <1>0, RunType
<1>3. /\ Run(a + k, n - k) \in Seq(Int) /\ Len(Run(a + k, n - k)) = n - k
      /\ \A i \in 1 .. (n - k) : Run(a + k, n - k)[i] = (a + k) + i - 1
  BY <1>0, RunType
<1> HIDE DEF s
<1>4. /\ SubSeq(s, 1, k) \in Seq(Int) /\ Len(SubSeq(s, 1, k)) = k
      /\ \A i \in 1..k : SubSeq(s, 1, k)[i] = s[i]
  BY <1>0, <1>1
<1>5. /\ SubSeq(s, k + 1, n) \in Seq(Int) /\ Len(SubSeq(s, k + 1, n)) = n - k
      /\ \A i \in 1 .. (n - k) : SubSeq(s, k + 1, n)[i] = s[k + i]
  BY <1>0, <1>1
<1>6. \A i \in 1..k : SubSeq(s, 1, k)[i] = Run(a, k)[i]
  BY <1>0, <1>1, <1>2, <1>4
<1>7. \A i \in 1 .. (n - k) : SubSeq(s, k + 1, n)[i] = Run(a + k, n - k)[i]
  BY <1>0, <1>1, <1>3, <1>5
<1>8. SubSeq(s, 1, k) = Run(a, k)
  BY <1>2, <1>4, <1>6, SeqEqual
<1>9. SubSeq(s, k + 1, n) = Run(a + k, n - k)
  BY <1>3, <1>5, <1>7, SeqEqual
<1> QED BY <1>8, <1>9 DEF s

ChanRun ==
  /\ Used \in Nat /\ Len(out) \in Nat /\ Used = sent - Len(out)
  /\ Chan = Run(Len(out), Used)

(* The bytes in the ring are the stream's next ones.                       *)
LEMMA ChanIsRun == LInv => ChanRun
<1> SUFFICES ASSUME LInv PROVE ChanRun
  OBVIOUS
<1>1. head \in Slot /\ tail \in Slot /\ Len(out) \in Nat
  BY DEF LInv, TypeOK
<1>2. Used \in Slot /\ Used \in Nat /\ AvailableRead = Used
  BY <1>1, QueriesAreLinear DEF Slot
<1>3. ASSUME NEW i \in 1..Used
      PROVE  data[(tail + i - 1) % Capacity] = Len(out) + i - 1
  <2>1. i - 1 \in 0 .. (Used - 1) /\ i - 1 \in 0..Capacity /\ tail + i - 1 = tail + (i - 1)
    BY <1>1, <1>2, <1>3, RingAssumption DEF Slot
  <2>2. (tail + (i - 1)) % Capacity = Pos(tail, i - 1)
    BY <1>1, <2>1, StepIsPos
  <2>3. data[Pos(tail, i - 1)] = Len(out) + (i - 1)
    BY <2>1 DEF LInv, LPublished
  <2> QED BY <1>1, <1>2, <2>1, <2>2, <2>3
<1> QED BY <1>1, <1>2, <1>3 DEF Chan, Run, ChanRun, LInv

(* A write call never has more left to send than the stream's bound allows,
   nor a chunk that is larger than that rest. *)
OfferInv ==
  /\ wpc # "idle" => sent + wn - wdone <= MaxBytes
  /\ wpc = "copy" => wdone + wchunk <= wn

LEMMA OfferStep ==
  ASSUME LInv, OfferInv, [Next]_vars
  PROVE  OfferInv'
<1>1. /\ wn \in Nat /\ wdone \in Nat /\ wchunk \in Nat /\ sent \in Nat
      /\ head \in Slot /\ tail \in Slot
  BY DEF LInv, TypeOK
<1>2. AvailableWrite \in Int
  BY <1>1, QueriesAreLinear, RingAssumption DEF Slot
<1>3. CASE UNCHANGED vars
  BY <1>3 DEF vars, OfferInv
<1>4. CASE Attach
  BY <1>4 DEF Attach, OfferInv
<1>5. ASSUME NEW n \in 0..MaxCall, WCall(n) PROVE OfferInv'
  BY <1>1, <1>5, RingAssumption DEF WCall, OfferInv
<1>6. CASE WReturn \/ WGiveUp
  <2>1. wpc' = "idle"
    BY <1>6 DEF WReturn, WGiveUp, WEnd
  <2> QED BY <2>1 DEF OfferInv
<1>7. CASE WSpin
  BY <1>7 DEF WSpin, OfferInv
<1>8. CASE WClaim
  <2>1. /\ wpc = "loop" /\ wdone < wn /\ UNCHANGED <<sent, wn, wdone>>
        /\ wchunk' = Least(AvailableWrite, wn - wdone)
    BY <1>8 DEF WClaim
  <2>2. wchunk' <= wn - wdone /\ wchunk' \in Int
    BY <1>1, <1>2, <2>1 DEF Least
  <2> QED BY <1>1, <2>1, <2>2 DEF OfferInv
<1>9. CASE WCopy
  BY <1>9 DEF WCopy, OfferInv
<1>10. CASE WPublish
  BY <1>1, <1>10 DEF WPublish, OfferInv
<1>11. CASE (\E n \in 0..MaxCall : RCall(n)) \/ RStep
  <2>1. UNCHANGED <<wpc, sent, wn, wdone, wchunk>>
    BY <1>11 DEF RCall, RStep, RReturn, RGiveUp, REnd, RSpin, RClaim, RCopy, RPublish
  <2> QED BY <2>1 DEF OfferInv
<1> QED BY <1>3, <1>4, <1>5, <1>6, <1>7, <1>8, <1>9, <1>10, <1>11 DEF Next, WStep

(* Publishing head sends the chunk.                                        *)
LEMMA WPublishSends ==
  ASSUME LInv, ChanRun, ChanRun', OfferInv, WPublish
  PROVE  \E k \in 1 .. (Capacity - 1) : Channel!Send(k)
<1>1. Used \in Nat /\ Len(out) \in Nat /\ Len(Chan) = Used /\ Used = sent - Len(out)
  BY RunType DEF ChanRun
<1>2. head \in Slot /\ tail \in Slot /\ sent \in Nat /\ wn \in Nat /\ wdone \in Nat
  BY DEF LInv, TypeOK
<1>3. wchunk \in 1 .. (Capacity - 1 - Used)
  BY DEF LInv, LWriterClaim, WPublish
<1>4. wchunk \in 1 .. (Capacity - 1) /\ wchunk \in Nat /\ Used + wchunk <= Capacity - 1
  BY <1>1, <1>3, RingAssumption
<1>5. out' = out /\ sent' = sent + wchunk
  BY DEF WPublish
<1>6. Used' = Used + wchunk
  <2>1. Used' = sent' - Len(out')
    BY DEF ChanRun
  <2> QED BY <1>1, <1>2, <1>4, <1>5, <2>1
<1>7. Chan' = Run(Len(out), Used + wchunk)
  BY <1>5, <1>6 DEF ChanRun
<1>8. Chan' = Chan \o Run(Len(out) + Used, wchunk)
  BY <1>1, <1>4, <1>7, RunConcat DEF ChanRun
<1>9. Len(out) + Used + wchunk <= MaxBytes
  BY <1>1, <1>2, <1>4, RingAssumption DEF OfferInv, WPublish
<1>10. Len(Chan) + wchunk <= Capacity - 1 /\ Len(out) + Len(Chan) + wchunk <= MaxBytes
  BY <1>1, <1>4, <1>9
<1>11. Chan' = Chan \o Run(Len(out) + Len(Chan), wchunk)
  BY <1>1, <1>8
<1>12. PICK k \in 1 .. (Capacity - 1) : k = wchunk
  BY <1>4
<1>13. Channel!Send(k)
  BY <1>5, <1>10, <1>11, <1>12, Zenon DEF Channel!Send, Chan, Run
<1> QED BY <1>13

(* Publishing tail receives the chunk.                                     *)
LEMMA RPublishReceives ==
  ASSUME LInv, ChanRun, ChanRun', RPublish
  PROVE  \E k \in 1 .. (Capacity - 1) : Channel!Receive(k)
<1>1. Used \in Nat /\ Len(out) \in Nat /\ Len(Chan) = Used /\ Used = sent - Len(out)
  BY RunType DEF ChanRun
<1>2. /\ head \in Slot /\ tail \in Slot /\ sent \in Nat /\ rbuf \in Seq(Int)
      /\ out \in Seq(Int)
  BY DEF LInv, TypeOK
<1>3. /\ rchunk \in 1..Used /\ Len(rbuf) = rchunk
      /\ \A i \in 1..rchunk : rbuf[i] = Len(out) + i - 1
  BY DEF LInv, LReaderClaim, RPublish
<1>4. rchunk \in 1 .. (Capacity - 1) /\ rchunk \in Nat
  BY <1>1, <1>2, <1>3, QueriesAreLinear, RingAssumption DEF Slot
<1>5. out' = out \o rbuf /\ sent' = sent /\ Len(out') = Len(out) + rchunk
  BY <1>2, <1>3, ConcatProperties DEF RPublish
<1>6. rbuf = Run(Len(out), rchunk)
  <2>1. /\ Run(Len(out), rchunk) \in Seq(Int) /\ Len(Run(Len(out), rchunk)) = rchunk
        /\ \A i \in 1..rchunk : Run(Len(out), rchunk)[i] = Len(out) + i - 1
    BY <1>1, <1>4, RunType
  <2>2. \A i \in 1..rchunk : rbuf[i] = Run(Len(out), rchunk)[i]
    BY <1>3, <2>1
  <2> QED BY <1>2, <1>3, <2>1, <2>2, SeqEqual
<1>7. Used' = Used - rchunk
  <2>1. Used' = sent' - Len(out')
    BY DEF ChanRun
  <2> QED BY <1>1, <1>2, <1>4, <1>5, <2>1
<1>8. SubSeq(Chan, 1, rchunk) = rbuf /\ SubSeq(Chan, rchunk + 1, Used) = Chan'
  <2>1. Chan' = Run(Len(out) + rchunk, Used - rchunk)
    BY <1>5, <1>7 DEF ChanRun
  <2> QED BY <1>1, <1>3, <1>6, <2>1, RunCut DEF ChanRun
<1>9. rchunk <= Len(Chan) /\ SubSeq(Chan, rchunk + 1, Len(Chan)) = Chan'
  BY <1>1, <1>3, <1>8
<1>10. PICK k \in 1 .. (Capacity - 1) : k = rchunk
  BY <1>4
<1>11. Channel!Receive(k)
  BY <1>5, <1>8, <1>9, <1>10, Zenon DEF Channel!Receive, Chan
<1> QED BY <1>11

(* A step of the ring is a step of the channel or leaves it alone.         *)
LEMMA ChannelStep ==
  ASSUME LInv, ChanRun, ChanRun', OfferInv, [Next]_vars
  PROVE  [Channel!ChannelNext]_(Channel!channelVars)
<1>1. CASE WPublish
  BY <1>1, WPublishSends DEF Channel!ChannelNext
<1>2. CASE RPublish
  BY <1>2, RPublishReceives DEF Channel!ChannelNext
<1>3. CASE UNCHANGED <<sent, out>>
  <2>1. Used' = Used
    BY <1>3 DEF ChanRun
  <2>2. Chan' = Chan
    BY <1>3, <2>1 DEF ChanRun
  <2> QED BY <1>3, <2>2 DEF Channel!channelVars, Chan
<1>4. CASE Next /\ ~WPublish /\ ~RPublish
  <2>1. UNCHANGED <<sent, out>>
    BY <1>4 DEF Next, Attach, WCall, RCall, WStep, WReturn, WGiveUp, WEnd, WSpin, WClaim,
       WCopy, RStep, RReturn, RGiveUp, REnd, RSpin, RClaim, RCopy
  <2> QED BY <1>3, <2>1
<1>5. CASE UNCHANGED vars
  BY <1>3, <1>5 DEF vars
<1> QED BY <1>1, <1>2, <1>4, <1>5

(* The ring implements the bounded FIFO channel: whatever the two threads  *)
(* interleave, its users see whole chunks enter in stream order, at most   *)
(* Capacity - 1 bytes in flight, and leave in the same order.              *)
THEOREM RefinesChannel == Spec => ImplementsChannel
<1>1. Init => LInv /\ OfferInv
  BY InitLInv DEF Init, OfferInv
<1>2. LInv /\ OfferInv /\ [Next]_vars => (LInv /\ OfferInv)'
  BY LInvStep, OfferStep
<1>3. Init => Channel!ChannelInit
  <2> SUFFICES ASSUME Init PROVE Channel!ChannelInit
    OBVIOUS
  <2>1. ChanRun
    BY InitLInv, ChanIsRun
  <2>2. out = << >> /\ Used = 0
    BY RingAssumption DEF Init, Used
  <2>3. Chan = << >>
    BY <2>1, <2>2 DEF ChanRun, Run
  <2> QED BY <2>2, <2>3, Zenon DEF Channel!ChannelInit, Chan
<1>4. LInv /\ ChanRun /\ ChanRun' /\ OfferInv /\ [Next]_vars
        => [Channel!ChannelNext]_(Channel!channelVars)
  BY ChannelStep
<1>5. LInv => ChanRun
  BY ChanIsRun
<1> QED BY <1>1, <1>2, <1>3, <1>4, <1>5, PTL DEF Spec, ImplementsChannel, Channel!ChannelSpec
=============================================================================
