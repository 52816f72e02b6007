---------------------------- MODULE ByteChannel ----------------------------
(***************************************************************************)
(* What the single-producer/single-consumer ring promises its two users:   *)
(* a bounded FIFO channel of bytes.  A byte is named by its position in    *)
(* the stream the producer wrote (0, 1, 2, ...), so losing, repeating or   *)
(* reordering a byte is visible in `delivered'.                            *)
(***************************************************************************)
EXTENDS Naturals, Sequences

CONSTANTS
  Bound,       \* bytes the channel can hold
  MaxBytes     \* bound on the length of the producer's stream

VARIABLES
  chan,        \* bytes sent and not yet received, oldest first
  delivered    \* bytes handed to the consumer, in the order it got them

channelVars == <<chan, delivered>>

ChannelInit == chan = << >> /\ delivered = << >>

(* The producer's next k bytes enter the channel together. *)
Send(k) ==
  LET total == Len(delivered) + Len(chan)
  IN  /\ Len(chan) + k <= Bound
      /\ total + k <= MaxBytes
      /\ chan' = chan \o [i \in 1..k |-> total + i - 1]
      /\ UNCHANGED delivered

(* The oldest k bytes leave the channel together. *)
Receive(k) ==
  /\ k <= Len(chan)
  /\ delivered' = delivered \o SubSeq(chan, 1, k)
  /\ chan' = SubSeq(chan, k + 1, Len(chan))

ChannelNext ==
  \/ \E k \in 1..Bound : Send(k)
  \/ \E k \in 1..Bound : Receive(k)

ChannelSpec == ChannelInit /\ [][ChannelNext]_channelVars
=============================================================================
