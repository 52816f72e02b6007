-------------------------------- MODULE Ring --------------------------------
(***************************************************************************)
(* The lock-free single-producer/single-consumer ring buffer of            *)
(* src/ring.c.  One thread runs zcio_ring_write, another zcio_ring_read,   *)
(* over a shared header (head, tail) and a shared data block.  The         *)
(* interleaving is that of the C code: each side loads the other's cursor  *)
(* once, copies a chunk byte by byte (the two memcpys around the wrap      *)
(* point), and then publishes its own cursor with a release store, so the  *)
(* peer's cursor may be arbitrarily stale while the bytes are copied.      *)
(*                                                                         *)
(* A byte is its position in the producer's stream; the caller of a short  *)
(* write resubmits from the first byte that was not accepted.              *)
(***************************************************************************)
EXTENDS Integers, Sequences

CONSTANTS
  Capacity,    \* bytes of the data block, the reserved slot included
  MaxCall,     \* bound on the n of one read or write call
  MaxBytes,    \* bound on the bytes the producer ever offers
  FullSpins,   \* 100 in zcio_ring_write
  EmptySpins,  \* 1000000 in zcio_ring_read
  MaxAttach    \* bound on the zcio_ring_attach calls after the first

ASSUME RingAssumption ==
  /\ Capacity \in Nat \ {0}
  /\ MaxCall \in Nat /\ MaxBytes \in Nat
  /\ FullSpins \in Nat /\ EmptySpins \in Nat /\ MaxAttach \in Nat

VARIABLES
  head, tail,  \* ring_header: next slot to write, next slot to read
  data,        \* the data block
  wnb, rnb,    \* non_blocking of the producer's and the consumer's handle
  wpc, wn, wdone, wspins, wat, wchunk, wcopied,    \* locals of a write call
  rpc, rn, rdone, rspins, rat, rchunk, rbuf,       \* locals of a read call
  sent,        \* bytes published so far (the producer's stream position)
  out,         \* bytes the read calls have delivered
  attaches     \* zcio_ring_attach calls made after the first handle

shared == <<head, tail, data>>
handles == <<wnb, rnb, attaches>>
wcall == <<wn, wdone, wspins>>           \* what lasts for the whole call
wpart == <<wat, wchunk, wcopied>>        \* what belongs to one chunk
rcall == <<rn, rdone, rspins>>
rpart == <<rat, rchunk, rbuf>>
writer == <<wpc, wcall, wpart>>
reader == <<rpc, rcall, rpart>>
vars == <<shared, handles, writer, reader, sent, out>>

Slot == 0 .. (Capacity - 1)
Garbage == -1                            \* a byte nobody wrote

(* Mutant: every slot is usable, so a full ring looks like an empty one. *)
AvailableWrite_NoReservedSlot ==
  Capacity - ((head + Capacity - tail) % Capacity)

AvailableRead == (head + Capacity - tail) % Capacity
AvailableWrite == (Capacity - 1 + tail - head) % Capacity

Least(a, b) == IF a < b THEN a ELSE b

(* Mutant: the second memcpy starts at the wrong slot. *)
SlotOf_ForgetsWrap(at, chunk, i) ==
  IF i < Capacity - at THEN at + i ELSE i

(* The slot of the i-th byte of a chunk that starts at slot `at': the      *)
(* first `end' bytes go up to the end of the block, the rest to its start. *)
SlotOf(at, chunk, i) ==
  LET end == Least(chunk, Capacity - at)
  IN  IF i < end THEN at + i ELSE i - end

(* ring_init: the cursors start at zero, the block's contents are junk.    *)
Init ==
  /\ head = 0 /\ tail = 0
  /\ data = [s \in Slot |-> Garbage]
  /\ wnb \in BOOLEAN /\ rnb \in BOOLEAN
  /\ wpc = "idle" /\ wn = 0 /\ wdone = 0 /\ wspins = 0
  /\ wat = 0 /\ wchunk = 0 /\ wcopied = 0
  /\ rpc = "idle" /\ rn = 0 /\ rdone = 0 /\ rspins = 0
  /\ rat = 0 /\ rchunk = 0 /\ rbuf = << >>
  /\ sent = 0 /\ out = << >> /\ attaches = 0

(* A further handle over the same block also runs ring_init, which stores  *)
(* zero in both shared cursors: a "single-threaded setup before either     *)
(* side runs".                                                             *)
Attach ==
  /\ attaches < MaxAttach
  /\ wpc = "idle" /\ rpc = "idle" /\ sent = 0
  /\ attaches' = attaches + 1
  /\ head' = 0 /\ tail' = 0
  /\ UNCHANGED <<data, wnb, rnb, writer, reader, sent, out>>

(***************************************************************************)
(* zcio_ring_write                                                         *)
(***************************************************************************)
WCall(n) ==
  /\ wpc = "idle"
  /\ sent + n <= MaxBytes
  /\ wpc' = "loop" /\ wn' = n /\ wdone' = 0 /\ wspins' = 0
  /\ UNCHANGED <<shared, handles, wpart, reader, sent, out>>

WEnd ==                                  \* leave the loop, return wdone
  /\ wpc' = "idle" /\ wn' = 0 /\ wdone' = 0 /\ wspins' = 0
  /\ wat' = 0 /\ wchunk' = 0 /\ wcopied' = 0
  /\ UNCHANGED <<shared, handles, reader, sent, out>>

WReturn == wpc = "loop" /\ wdone >= wn /\ WEnd

WFull == wpc = "loop" /\ wdone < wn /\ AvailableWrite = 0

WGiveUp ==                               \* full: return the short count
  /\ WFull /\ wnb
  /\ wdone > 0 \/ wspins > FullSpins
  /\ WEnd

(* Mutant: the spin counter is never incremented. *)
WSpin_NotCounted == FALSE

WSpin ==            \* full: yield and retry (a blocking retry changes nothing)
  /\ WFull /\ wnb
  /\ wdone = 0 /\ wspins <= FullSpins
  /\ wspins' = wspins + 1
  /\ UNCHANGED <<shared, handles, wpc, wn, wdone, wpart, reader, sent, out>>

WClaim ==           \* size the chunk by the tail loaded now
  /\ wpc = "loop" /\ wdone < wn /\ AvailableWrite > 0
  /\ wpc' = "copy" /\ wat' = head /\ wcopied' = 0
  /\ wchunk' = Least(AvailableWrite, wn - wdone)
  /\ UNCHANGED <<shared, handles, wcall, reader, sent, out>>

WCopy ==            \* one byte of the memcpys
  /\ wpc = "copy" /\ wcopied < wchunk
  /\ data' = [data EXCEPT ![SlotOf(wat, wchunk, wcopied)] = sent + wcopied]
  /\ wcopied' = wcopied + 1
  /\ UNCHANGED <<head, tail, handles, wpc, wcall, wat, wchunk, reader, sent, out>>

(* Mutant: the published head is not wrapped. *)
WPublish_NoWrap ==
  /\ wpc = "copy" /\ wcopied = wchunk
  /\ head' = wat + wchunk
  /\ sent' = sent + wchunk
  /\ wpc' = "loop" /\ wdone' = wdone + wchunk
  /\ UNCHANGED <<tail, data, handles, wn, wspins, wpart, reader, out>>

WPublish ==         \* release store of head
  /\ wpc = "copy" /\ wcopied = wchunk
  /\ head' = (wat + wchunk) % Capacity
  /\ sent' = sent + wchunk
  /\ wpc' = "loop" /\ wdone' = wdone + wchunk
  /\ UNCHANGED <<tail, data, handles, wn, wspins, wpart, reader, out>>

(***************************************************************************)
(* zcio_ring_read                                                          *)
(***************************************************************************)
RCall(n) ==
  /\ rpc = "idle"
  /\ rpc' = "loop" /\ rn' = n /\ rdone' = 0 /\ rspins' = 0
  /\ UNCHANGED <<shared, handles, rpart, writer, sent, out>>

REnd ==
  /\ rpc' = "idle" /\ rn' = 0 /\ rdone' = 0 /\ rspins' = 0
  /\ rat' = 0 /\ rchunk' = 0 /\ rbuf' = << >>
  /\ UNCHANGED <<shared, handles, writer, sent, out>>

RReturn == rpc = "loop" /\ rdone >= rn /\ REnd

REmpty == rpc = "loop" /\ rdone < rn /\ AvailableRead = 0

RGiveUp ==
  /\ REmpty /\ rnb
  /\ rdone > 0 \/ rspins > EmptySpins
  /\ REnd

RSpin ==
  /\ REmpty /\ rnb
  /\ rdone = 0 /\ rspins <= EmptySpins
  /\ rspins' = rspins + 1
  /\ UNCHANGED <<shared, handles, rpc, rn, rdone, rpart, writer, sent, out>>

(* Mutant: the slots are released before the bytes are copied out. *)
RClaim_ReleasesFirst ==
  /\ rpc = "loop" /\ rdone < rn /\ AvailableRead > 0
  /\ rpc' = "copy" /\ rat' = tail /\ rbuf' = << >>
  /\ rchunk' = Least(AvailableRead, rn - rdone)
  /\ tail' = (tail + rchunk') % Capacity
  /\ UNCHANGED <<head, data, handles, rcall, writer, sent, out>>

(* Mutant: the read waits until everything it asked for is there. *)
RClaim_AllOrNothing ==
  /\ rpc = "loop" /\ rdone < rn /\ AvailableRead >= rn - rdone
  /\ rpc' = "copy" /\ rat' = tail /\ rbuf' = << >>
  /\ rchunk' = rn - rdone
  /\ UNCHANGED <<shared, handles, rcall, writer, sent, out>>

RClaim ==
  /\ rpc = "loop" /\ rdone < rn /\ AvailableRead > 0
  /\ rpc' = "copy" /\ rat' = tail /\ rbuf' = << >>
  /\ rchunk' = Least(AvailableRead, rn - rdone)
  /\ UNCHANGED <<shared, handles, rcall, writer, sent, out>>

RCopy ==
  /\ rpc = "copy" /\ Len(rbuf) < rchunk
  /\ rbuf' = Append(rbuf, data[SlotOf(rat, rchunk, Len(rbuf))])
  /\ UNCHANGED <<shared, handles, rpc, rcall, rat, rchunk, writer, sent, out>>

RPublish ==         \* release store of tail
  /\ rpc = "copy" /\ Len(rbuf) = rchunk
  /\ tail' = (rat + rchunk) % Capacity
  /\ out' = out \o rbuf
  /\ rpc' = "loop" /\ rdone' = rdone + rchunk /\ rbuf' = << >>
  /\ UNCHANGED <<head, data, handles, rn, rspins, rat, rchunk, writer, sent>>

-----------------------------------------------------------------------------
(* What each call does once it has started; the calls themselves are the   *)
(* users' choice.                                                          *)
WStep == WReturn \/ WGiveUp \/ WSpin \/ WClaim \/ WCopy \/ WPublish
RStep == RReturn \/ RGiveUp \/ RSpin \/ RClaim \/ RCopy \/ RPublish

Next ==
  \/ Attach
  \/ \E n \in 0..MaxCall : WCall(n)
  \/ \E n \in 0..MaxCall : RCall(n)
  \/ WStep
  \/ RStep

Spec == Init /\ [][Next]_vars

(* Both threads are scheduled; the producer need not call write again.     *)
ScheduledSpec == Spec /\ WF_vars(WStep) /\ WF_vars(RStep)

(* A consumer that keeps coming back to ask for at least a byte.           *)
ReadLoop == SF_vars(\E n \in 1..MaxCall : RCall(n))

-----------------------------------------------------------------------------
TypeOK ==
  /\ head \in Slot /\ tail \in Slot
  /\ data \in [Slot -> Int]
  /\ wnb \in BOOLEAN /\ rnb \in BOOLEAN
  /\ wpc \in {"idle", "loop", "copy"} /\ rpc \in {"idle", "loop", "copy"}
  /\ wn \in Nat /\ wdone \in Nat /\ wspins \in Nat
  /\ wat \in Slot /\ wchunk \in Nat /\ wcopied \in Nat
  /\ rn \in Nat /\ rdone \in Nat /\ rspins \in Nat
  /\ rat \in Slot /\ rchunk \in Nat /\ rbuf \in Seq(Int)
  /\ sent \in Nat /\ out \in Seq(Int) /\ attaches \in Nat

(* The consumer gets the producer's bytes, every one once and in order,    *)
(* whatever chunks, wraps and stale cursors the two calls went through.    *)
InOrder == \A i \in 1..Len(out) : out[i] = i - 1

(* The two cursors alone always tell how many bytes are in the ring: a     *)
(* full ring is never taken for an empty one, and no byte leaks when the   *)
(* ring wraps.                                                             *)
CursorsCountBytes == AvailableRead = sent - Len(out)

WriteSlots == IF wpc = "copy"
              THEN {SlotOf(wat, wchunk, i) : i \in wcopied .. (wchunk - 1)}
              ELSE {}
ReadSlots == IF rpc = "copy"
             THEN {SlotOf(rat, rchunk, i) : i \in Len(rbuf) .. (rchunk - 1)}
             ELSE {}

(* While both sides are inside their memcpys they touch disjoint slots:    *)
(* the data block, which is not atomic, is free of data races.             *)
NoDataRace == WriteSlots \cap ReadSlots = {}

(* Why the above hold: the bytes between the cursors are the stream's next *)
(* bytes, and a chunk sized from a stale cursor still fits what the cursor *)
(* now allows, because the peer can only have made more room.              *)
Published ==
  \A i \in 0 .. (AvailableRead - 1) :
    data[(tail + i) % Capacity] = Len(out) + i
WriterClaim ==
  wpc = "copy" =>
    /\ wat = head /\ wchunk \in 1..AvailableWrite /\ wcopied <= wchunk
    /\ \A i \in 0 .. (wcopied - 1) : data[SlotOf(wat, wchunk, i)] = sent + i
ReaderClaim ==
  rpc = "copy" =>
    /\ rat = tail /\ rchunk \in 1..AvailableRead /\ Len(rbuf) <= rchunk
    /\ \A i \in 1..Len(rbuf) : rbuf[i] = Len(out) + i - 1
RingInv ==
  TypeOK /\ InOrder /\ CursorsCountBytes /\ Published /\ WriterClaim /\ ReaderClaim

(* A consumer that keeps reading gets every byte a write call published.   *)
EveryByteArrives ==
  ReadLoop => \A k \in 1..MaxBytes : (sent >= k) ~> (Len(out) >= k)

(* A non-blocking write or read returns even if the other side never makes *)
(* another call: the spin counters bound the wait.                         *)
NonBlockingReturns ==
  /\ (wnb /\ wpc = "loop") ~> (wpc = "idle")
  /\ (rnb /\ rpc = "loop") ~> (rpc = "idle")

(* The ring implements the FIFO channel of capacity Capacity - 1: a chunk  *)
(* enters when head is published and leaves when tail is.                  *)
Channel == INSTANCE ByteChannel WITH
  Bound <- Capacity - 1,
  chan <- [i \in 1..AvailableRead |-> data[(tail + i - 1) % Capacity]],
  delivered <- out

ImplementsChannel == Channel!ChannelSpec
=============================================================================
