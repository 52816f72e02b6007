--------------------------- MODULE H2Conn_proofs ---------------------------
(***************************************************************************)
(* Proofs of the safety properties of the HTTP/2 connection, for every set *)
(* of streams, every limit, every window and frame size and any number of  *)
(* frames of the client.                                                   *)
(***************************************************************************)
EXTENDS H2Conn, FiniteSetTheorems, TLAPS

USE DEF goawayVars, table, block, streamIn, streamOut, recvVars, grants, sends, loop

(* A header block in progress belongs to a stream that is not yet complete, or to
   one that is refused; what is handed to the handler is complete and unanswered. *)
Block ==
  /\ pc = "headers" => hdrId # 0
  /\ pc = "dispatch" => cur \in (live \cap endRecv) \ responded
  /\ hdrId # 0 /\ ~hdrRefuse => hdrId \in live \ endRecv
  /\ hdrId # 0 /\ hdrRefuse =>
       hdrId <= lastId /\ hdrId \notin live /\ wire[hdrId] = "none"

(* Nothing has happened on a stream that the client has not opened. *)
Fresh ==
  \A s \in Streams : s > lastId =>
    /\ s \notin live \cup endRecv \cup dispatched
    /\ wire[s] = "none" /\ sGranted[s] = 0 /\ sSent[s] = 0

(* A stream of the table is unanswered or in the middle of its response. *)
Wire ==
  /\ StreamLifecycle
  /\ responded \subseteq endRecv
  /\ \A s \in live : wire[s] = IF s \in responded THEN "open" ELSE "none"

(* What the handler has seen is in the table until its response has ended. *)
Answered == \A s \in dispatched : s \in live \/ wire[s] \in {"ended", "reset"}

(* Every stream that was ever in the table was counted when it was opened. *)
Counted ==
  /\ Cardinality(live) <= maxStreams
  /\ Cardinality(live \cup dispatched) <= total
  /\ Cardinality(live \cup dispatched) <= MaxRequests

(* After the GOAWAY no stream is added. *)
Promise ==
  goaway # NoGoaway => closing /\ \A s \in live \cup dispatched : s <= goaway

(* The send windows are what the peer has granted less what was sent. *)
SendCredit ==
  /\ sendWindow = Window + granted - sent
  /\ ~gotError => \A s \in live : sSendWindow[s] = peerInit + sGranted[s] - sSent[s]

(* The inductive invariant. *)
H2Inv ==
  /\ TypeOK /\ Block /\ Fresh /\ Wire /\ Answered /\ Counted /\ Promise
  /\ CreditKept /\ SendCredit

-----------------------------------------------------------------------------
LEMMA LeastOfTwo ==
  ASSUME NEW a \in Int, NEW b \in Int
  PROVE  LeastOf({a, b}) \in {a, b} /\ LeastOf({a, b}) <= a /\ LeastOf({a, b}) <= b
<1> DEFINE S == {a, b}
<1>1. \E n \in S : \A m \in S : n <= m
  OBVIOUS
<1>2. LeastOf(S) \in S /\ \A m \in S : LeastOf(S) <= m
  BY <1>1 DEF LeastOf
<1> QED BY <1>2

(* The next DATA frame fits what is left, both windows and the largest frame. *)
LEMMA ChunkFits ==
  ASSUME TypeOK, NEW s \in Streams
  PROVE  /\ ChunkOf(s) \in Int /\ ChunkOf(s) <= unsent[s]
         /\ ChunkOf(s) <= sSendWindow[s] /\ ChunkOf(s) <= sendWindow
<1> DEFINE a == unsent[s]
           b == sSendWindow[s]
           c == sendWindow
           d == MaxFrame
           e == MaxOut - outUsed - FrameHdr
           S == {a, b, c, d, e}
<1>1. a \in Int /\ b \in Int /\ c \in Int /\ d \in Int /\ e \in Int
  BY H2Assumption DEF TypeOK, FrameHdr
<1> HIDE DEF a, b, c, d, e
<1>2. \E n \in S : \A m \in S : n <= m
  BY <1>1
<1> HIDE DEF S
<1>3. LeastOf(S) \in S /\ \A m \in S : LeastOf(S) <= m
  BY <1>2 DEF LeastOf
<1>4. LeastOf(S) \in Int /\ LeastOf(S) <= a /\ LeastOf(S) <= b /\ LeastOf(S) <= c
  BY <1>1, <1>3 DEF S
<1> QED BY <1>4 DEF ChunkOf, S, a, b, c, d, e

LEMMA QueueNat ==
  ASSUME TypeOK, NEW n \in Nat, Queue(n)
  PROVE  outUsed' \in Nat
<1>1. outUsed + n \in Nat /\ MaxOut + 1 \in Nat
  BY H2Assumption DEF TypeOK
<1>2. LeastOf({outUsed + n, MaxOut + 1}) \in {outUsed + n, MaxOut + 1}
  BY <1>1, LeastOfTwo
<1> QED BY <1>1, <1>2 DEF Queue

(* What recv_consume keeps and gives back. *)
LEMMA ConsumeBounds ==
  ASSUME NEW w \in 0..Window, NEW len \in 0..MaxFrame, len <= w
  PROVE  /\ Consumed(w, len) \in 0..Window /\ Consumed(w, len) >= MaxFrame
         /\ Increment(w, len) \in Nat
         /\ Consumed(w, len) = w - len + Increment(w, len)
         /\ UpdateFrames(w, len) \in Nat
BY H2Assumption DEF Consumed, Increment, UpdateFrames, FrameHdr

-----------------------------------------------------------------------------
(* The steps that touch no stream, no window and no header block in progress. *)
Quiet ==
  \/ UNCHANGED vars
  \/ BadFrame \/ Ignored \/ OnContinuation \/ OnPing \/ OnGoaway \/ HeadersTooLong
  \/ \E s \in Streams : OnHeadersClosed(s) \/ \E len \in 0..MaxFrame : OnDataError(s, len)
  \/ BeginStop \/ Poll \/ FeedReturn \/ Flush \/ Abort

LEMMA ConnErrorTypes ==
  ASSUME TypeOK, NEW n \in Nat, ConnErrorAfter(n)
  PROVE  /\ goaway' \in Nat \cup {NoGoaway} /\ outUsed' \in Nat
         /\ gotError' = TRUE /\ closing' = TRUE /\ peerGoaway' = peerGoaway
         /\ goaway' = goaway \/ goaway' = lastId
<1>1. goaway \in Nat \cup {NoGoaway} /\ lastId \in Nat
  BY H2Assumption DEF TypeOK
<1>2. n + (IF goaway = NoGoaway THEN FrameHdr ELSE 0) \in Nat
  BY DEF FrameHdr
<1>3. outUsed' \in Nat
  BY <1>2, QueueNat DEF ConnErrorAfter, QueueGoaway
<1> QED BY <1>1, <1>3 DEF ConnErrorAfter, QueueGoaway

(* ... what they leave alone, and what they may do to the flags. *)
Kept ==
  /\ UNCHANGED <<maxStreams, live, lastId, total, hdrId, hdrRefuse, hdrTrailer, hdrEnd,
                 streamIn, streamOut, recvVars, grants, sends, wire, dispatched, cur>>
  /\ pc' = "headers" => hdrId # 0
  /\ pc' = "dispatch" => pc = "dispatch"
  /\ gotError => gotError'
  /\ closing => closing'
  /\ goaway' = goaway \/ (goaway' = lastId /\ closing')

LEMMA QuietKeeps ==
  ASSUME TypeOK, Block, Quiet
  PROVE  Kept /\ TypeOK'
<1> USE DEF Frame, AnyFrame, InSession, Ordinary
<1>0. 0 \in Nat /\ lastId \in Nat /\ goaway \in Nat \cup {NoGoaway}
  BY H2Assumption DEF TypeOK
<1>e. ASSUME ConnError
      PROVE  /\ goaway' \in Nat \cup {NoGoaway} /\ outUsed' \in Nat
             /\ gotError' = TRUE /\ closing' = TRUE /\ peerGoaway' = peerGoaway
             /\ goaway' = goaway \/ goaway' = lastId
  BY <1>0, <1>e, ConnErrorTypes DEF ConnError
<1>1. CASE UNCHANGED vars
  BY <1>1 DEF vars, Block, Kept, TypeOK
<1>2. CASE BadFrame
  BY <1>2, <1>e DEF BadFrame, Kept, TypeOK
<1>3. CASE Ignored
  <2>1. Kept
    BY <1>3 DEF Ignored, Kept
  <2>2. needSettings' \in BOOLEAN
    BY <1>3 DEF Ignored
  <2>3. UNCHANGED <<loop, goawayVars, rapidReset, contCount, outUsed, pc, budget>>
    BY <1>3 DEF Ignored
  <2>4. TypeOK'
    BY <2>1, <2>2, <2>3 DEF Kept, TypeOK
  <2> QED BY <2>1, <2>4
<1>4. CASE OnContinuation
  <2>1. CASE ConnError /\ pc' = pc
    BY <1>4, <1>e, <2>1 DEF OnContinuation, Kept, TypeOK
  <2>2. CASE pc' \in {"feed", "headers"} /\ UNCHANGED <<goawayVars, outUsed>>
    BY <1>4, <2>2 DEF OnContinuation, Kept, TypeOK
  <2> QED BY <1>4, <2>1, <2>2 DEF OnContinuation
<1>5. CASE OnPing
  <2>1. CASE ConnError
    BY <1>5, <1>e, <2>1 DEF OnPing, Kept, TypeOK
  <2>2. CASE Queue(FrameHdr) /\ UNCHANGED goawayVars
    <3>1. outUsed' \in Nat
      BY <2>2, QueueNat DEF FrameHdr
    <3> QED BY <1>5, <2>2, <3>1 DEF OnPing, Kept, TypeOK
  <2> QED BY <1>5, <2>1, <2>2 DEF OnPing
<1>6. CASE OnGoaway
  BY <1>6 DEF OnGoaway, Kept, TypeOK
<1>7. CASE HeadersTooLong
  BY <1>7, <1>e DEF HeadersTooLong, Kept, TypeOK
<1>8. ASSUME NEW s \in Streams, OnHeadersClosed(s) PROVE Kept /\ TypeOK'
  BY <1>8, <1>e DEF OnHeadersClosed, Kept, TypeOK
<1>9. ASSUME NEW s \in Streams, NEW len \in 0..MaxFrame, OnDataError(s, len)
      PROVE  Kept /\ TypeOK'
  BY <1>9, <1>e DEF OnDataError, Kept, TypeOK
<1>10. CASE BeginStop
  <2>1. FrameHdr \in Nat
    BY DEF FrameHdr
  <2>2. /\ goaway' = IF goaway = NoGoaway THEN lastId ELSE goaway
        /\ Queue(0 + IF goaway = NoGoaway THEN FrameHdr ELSE 0)
    BY <1>10 DEF BeginStop, QueueGoaway
  <2>3. outUsed' \in Nat
    BY <2>1, <2>2, QueueNat
  <2>4. goaway' \in Nat \cup {NoGoaway} /\ (goaway' = goaway \/ goaway' = lastId)
    BY <1>0, <2>2
  <2> QED BY <1>10, <2>3, <2>4 DEF BeginStop, Kept, TypeOK
<1>11. CASE Poll
  <2>1. wantClose' \in BOOLEAN /\ peerEof' \in BOOLEAN /\ pc' \in {"feed", "pump"}
    BY <1>11 DEF Poll, Fed, TypeOK
  <2>2. UNCHANGED <<feedVars, dead, stopping, cut, budget>>
    BY <1>11 DEF Poll
  <2> QED BY <2>1, <2>2 DEF feedVars, Kept, TypeOK
<1>12. CASE FeedReturn
  BY <1>12 DEF FeedReturn, Fed, feedVars, Kept, TypeOK
<1>13. CASE Flush
  <2>1. outUsed' \in Nat
    BY <1>13 DEF Flush, TypeOK
  <2>2. dead' \in BOOLEAN /\ wantClose' \in BOOLEAN
    BY <1>13 DEF Flush, TypeOK
  <2>3. cut' \subseteq Streams
    BY <1>13 DEF Flush, TypeOK
  <2>4. pc' \in {"end", "poll"}
    BY <1>13 DEF Flush
  <2> QED BY <1>13, <2>1, <2>2, <2>3, <2>4 DEF Flush, Kept, TypeOK
<1>14. CASE Abort
  BY <1>14 DEF Abort, feedVars, Kept, TypeOK
<1> QED
  BY <1>1, <1>2, <1>3, <1>4, <1>5, <1>6, <1>7, <1>8, <1>9, <1>10, <1>11, <1>12, <1>13,
     <1>14 DEF Quiet

-----------------------------------------------------------------------------
(* One lemma for the types under each action that works on a stream. *)
LEMMA QueueRstTypes ==
  ASSUME TypeOK, NEW s \in Streams, QueueRst(s)
  PROVE  /\ wire' \in [Streams -> {"none", "open", "ended", "reset", "illegal"}]
         /\ outUsed' \in Nat
<1>1. outUsed' \in Nat
  BY QueueNat DEF QueueRst, FrameHdr
<1> QED BY <1>1 DEF QueueRst, OnWire, TypeOK

LEMMA OnHeadersNewTypes ==
  ASSUME TypeOK, NEW s \in Streams, OnHeadersNew(s)
  PROVE  TypeOK'
<1> USE DEF Frame, AnyFrame, InSession, Ordinary
<1>1. s \in Nat /\ 0 \in Nat /\ FrameHdr \in Nat /\ Window \in Nat
  BY H2Assumption DEF FrameHdr
<1>2. goaway' \in Nat \cup {NoGoaway} /\ outUsed' \in Nat /\ closing' \in BOOLEAN
  <2>1. CASE QueueGoaway(s, 0) /\ closing' = TRUE
    <3>1. Queue(0 + IF goaway = NoGoaway THEN FrameHdr ELSE 0)
      BY <2>1 DEF QueueGoaway
    <3>2. outUsed' \in Nat
      BY <1>1, <3>1, QueueNat
    <3> QED BY <1>1, <2>1, <3>2 DEF QueueGoaway, TypeOK
  <2>2. CASE UNCHANGED <<goaway, outUsed, closing>>
    BY <2>2 DEF TypeOK
  <2> QED BY <2>1, <2>2 DEF OnHeadersNew
<1>3. live' \subseteq Streams
  BY DEF OnHeadersNew, TypeOK
<1>4. sSendWindow' \in [Streams -> Int] /\ sRecvWindow' \in [Streams -> 0..Window]
  BY <1>1 DEF OnHeadersNew, TypeOK
<1>5. sCredit' \in [Streams -> Int]
  BY <1>1 DEF OnHeadersNew, TypeOK
<1>6. hdrRefuse' \in BOOLEAN /\ hdrTrailer' \in BOOLEAN
  BY DEF OnHeadersNew, BeginBlock, Refused
<1>7. /\ hdrId' = s /\ hdrEnd' \in BOOLEAN /\ contCount' = 0
      /\ pc' \in {"feed", "headers"} /\ lastId' = s /\ total' = total + 1
      /\ budget > 0 /\ budget' = budget - 1
  BY DEF OnHeadersNew, BeginBlock
<1>8. UNCHANGED <<maxStreams, needSettings, loop, sends, peerGoaway, gotError, rapidReset,
                  streamIn, streamOut, recvWindow, credit, sendWindow, peerInit, granted,
                  sGranted, wire, dispatched, cur>>
  BY DEF OnHeadersNew
<1> QED BY <1>1, <1>2, <1>3, <1>4, <1>5, <1>6, <1>7, <1>8 DEF TypeOK

LEMMA DataTypes ==
  ASSUME TypeOK, NEW s \in Streams, NEW len \in 0..MaxFrame,
         \/ OnDataClosed(s, len) \/ OnDataRefused(s, len)
         \/ \E end \in BOOLEAN : OnData(s, len, end)
  PROVE  TypeOK'
<1> USE DEF Frame, AnyFrame, InSession, Ordinary
<1>0. recvWindow \in 0..Window /\ sRecvWindow[s] \in 0..Window /\ FrameHdr \in Nat
  BY DEF TypeOK, FrameHdr
<1>1. /\ len <= recvWindow /\ ConsumeConn(len)
      /\ UNCHANGED <<needSettings, maxStreams, loop, sends, lastId, total, rapidReset, block,
                     gotHeaders, streamOut, grants, dispatched>>
      /\ budget > 0 /\ budget' = budget - 1
  BY DEF OnDataClosed, OnDataRefused, OnData
<1>2. /\ Consumed(recvWindow, len) \in 0..Window /\ Increment(recvWindow, len) \in Nat
      /\ UpdateFrames(recvWindow, len) \in Nat
  BY <1>0, <1>1, ConsumeBounds
<1>3. recvWindow' \in 0..Window /\ credit' \in Int
  BY <1>1, <1>2 DEF ConsumeConn, TypeOK
<1>4. CASE OnDataClosed(s, len)
  <2>1. /\ goaway' \in Nat \cup {NoGoaway} /\ outUsed' \in Nat
        /\ gotError' \in BOOLEAN /\ closing' \in BOOLEAN /\ peerGoaway' \in BOOLEAN
    <3>1. CASE Queue(UpdateFrames(recvWindow, len)) /\ UNCHANGED goawayVars
      <4>1. outUsed' \in Nat
        BY <1>2, <3>1, QueueNat
      <4> QED BY <3>1, <4>1 DEF TypeOK
    <3>2. CASE ConnErrorAfter(UpdateFrames(recvWindow, len))
      <4>1. /\ goaway' \in Nat \cup {NoGoaway} /\ outUsed' \in Nat
            /\ gotError' = TRUE /\ closing' = TRUE /\ peerGoaway' = peerGoaway
        BY <1>2, <3>2, ConnErrorTypes
      <4> QED BY <4>1 DEF TypeOK
    <3> QED BY <1>4, <3>1, <3>2 DEF OnDataClosed
  <2>2. UNCHANGED <<live, endRecv, sRecvWindow, sCredit, wire, pc, cur>>
    BY <1>4 DEF OnDataClosed
  <2> QED BY <1>1, <1>3, <2>1, <2>2 DEF TypeOK
<1>5. CASE OnDataRefused(s, len)
  <2>1. outUsed' \in Nat
    <3>1. FrameHdr + UpdateFrames(recvWindow, len) \in Nat
      BY <1>0, <1>2
    <3> QED BY <1>5, <3>1, QueueNat DEF OnDataRefused
  <2>2. /\ live' = live \ {s}
        /\ wire' = [wire EXCEPT ![s] = IF @ \in {"none"} THEN "reset" ELSE "illegal"]
        /\ UNCHANGED <<goawayVars, endRecv, sRecvWindow, sCredit, pc, cur>>
    BY <1>5 DEF OnDataRefused, OnWire
  <2>3. wire' \in [Streams -> {"none", "open", "ended", "reset", "illegal"}]
    BY <2>2 DEF TypeOK
  <2> QED BY <1>1, <1>3, <2>1, <2>2, <2>3 DEF TypeOK
<1>6. ASSUME NEW end \in BOOLEAN, OnData(s, len, end) PROVE TypeOK'
  <2>1. /\ Consumed(sRecvWindow[s], len) \in 0..Window
        /\ Increment(sRecvWindow[s], len) \in Nat /\ UpdateFrames(sRecvWindow[s], len) \in Nat
    BY <1>0, <1>6, ConsumeBounds DEF OnData
  <2>2. outUsed' \in Nat
    <3>1. UpdateFrames(recvWindow, len)
            + (IF end THEN 0 ELSE UpdateFrames(sRecvWindow[s], len)) \in Nat
      BY <1>2, <2>1
    <3> QED BY <1>6, <3>1, QueueNat DEF OnData
  <2>3. /\ endRecv' \subseteq Streams /\ pc' \in {"feed", "dispatch"}
        /\ cur' \in Streams \cup {0}
    BY <1>6 DEF OnData, TypeOK
  <2>4. sRecvWindow' \in [Streams -> 0..Window] /\ sCredit' \in [Streams -> Int]
    BY <1>6, <2>1 DEF OnData, TypeOK
  <2>5. UNCHANGED <<goawayVars, live, wire>>
    BY <1>6 DEF OnData
  <2> QED BY <1>1, <1>3, <2>2, <2>3, <2>4, <2>5 DEF TypeOK
<1> QED BY <1>4, <1>5, <1>6

LEMMA FrameTypes ==
  ASSUME TypeOK,
         \/ \E s \in Streams :
              OnTrailers(s) \/ OnRst(s) \/ \E n \in {0, 1, MaxWindow} : OnWindowUpdate(s, n)
         \/ \E n \in {1, MaxWindow} : OnWindowUpdateConn(n)
         \/ \E v \in InitWindows : OnSettings(v)
  PROVE  TypeOK'
<1> USE DEF Frame, AnyFrame, InSession, Ordinary
<1>0. 0 \in Nat /\ FrameHdr \in Nat /\ MaxWindow \in Nat /\ InitWindows \subseteq 0..MaxWindow
  BY H2Assumption DEF FrameHdr
<1>e. ASSUME ConnError \/ UNCHANGED <<goawayVars, outUsed>>
      PROVE  /\ goaway' \in Nat \cup {NoGoaway} /\ outUsed' \in Nat
             /\ gotError' \in BOOLEAN /\ closing' \in BOOLEAN /\ peerGoaway' \in BOOLEAN
  <2>1. CASE ConnError
    <3>1. /\ goaway' \in Nat \cup {NoGoaway} /\ outUsed' \in Nat
          /\ gotError' = TRUE /\ closing' = TRUE /\ peerGoaway' = peerGoaway
      BY <1>0, <2>1, ConnErrorTypes DEF ConnError
    <3> QED BY <3>1 DEF TypeOK
  <2>2. CASE UNCHANGED <<goawayVars, outUsed>>
    BY <2>2 DEF TypeOK
  <2> QED BY <1>e, <2>1, <2>2
<1>1. ASSUME NEW s \in Streams, OnTrailers(s) PROVE TypeOK'
  <2>1. ConnError \/ UNCHANGED <<goawayVars, outUsed>>
    BY <1>1 DEF OnTrailers
  <2>2. /\ hdrId' \in Streams \cup {0} /\ hdrRefuse' \in BOOLEAN /\ hdrTrailer' \in BOOLEAN
        /\ hdrEnd' \in BOOLEAN /\ contCount' \in Nat
        /\ pc' \in {"poll", "feed", "headers", "dispatch", "pump", "end"}
    <3>1. CASE BeginBlock(s, FALSE, TRUE)
      BY <3>1 DEF BeginBlock
    <3>2. CASE UNCHANGED <<block, pc>>
      BY <3>2 DEF TypeOK
    <3> QED BY <1>1, <3>1, <3>2 DEF OnTrailers
  <2>3. /\ budget > 0 /\ budget' = budget - 1
        /\ UNCHANGED <<needSettings, loop, sends, table, streamIn, streamOut, recvVars,
                       grants, wire, dispatched, cur>>
    BY <1>1 DEF OnTrailers
  <2> QED BY <1>e, <2>1, <2>2, <2>3 DEF TypeOK
<1>2. ASSUME NEW s \in Streams, OnRst(s) PROVE TypeOK'
  <2>1. ConnError \/ UNCHANGED <<goawayVars, outUsed>>
    BY <1>2 DEF OnRst
  <2>2. rapidReset' \in Nat /\ live' = live \ {s} /\ wire' = [wire EXCEPT ![s] = "reset"]
    BY <1>2 DEF OnRst, TypeOK
  <2>3. UNCHANGED <<needSettings, loop, sends, maxStreams, lastId, total, block, streamIn,
                    streamOut, recvVars, grants, dispatched, pc, cur, budget>>
    BY <1>2 DEF OnRst
  <2> QED BY <1>e, <2>1, <2>2, <2>3 DEF TypeOK
<1>3. ASSUME NEW s \in Streams, NEW n \in {0, 1, MaxWindow}, OnWindowUpdate(s, n)
      PROVE  TypeOK'
  <2>1. n \in Nat
    BY <1>0
  <2>2. /\ sSendWindow' = [sSendWindow EXCEPT ![s] = @ + n]
        /\ sGranted' = [sGranted EXCEPT ![s] = @ + n]
        /\ RstStream(s) \/ UNCHANGED <<wire, live, outUsed>>
        /\ budget > 0 /\ budget' = budget - 1
        /\ UNCHANGED <<needSettings, loop, sends, goawayVars, maxStreams, lastId, total,
                       rapidReset, block, streamIn, streamOut, recvVars, sendWindow,
                       peerInit, granted, dispatched, pc, cur>>
    BY <1>3 DEF OnWindowUpdate
  <2>3. sSendWindow' \in [Streams -> Int] /\ sGranted' \in [Streams -> Nat]
    BY <2>1, <2>2 DEF TypeOK
  <2>4. /\ wire' \in [Streams -> {"none", "open", "ended", "reset", "illegal"}]
        /\ live' \subseteq Streams /\ outUsed' \in Nat
    BY <2>2, QueueRstTypes DEF RstStream, TypeOK
  <2> QED BY <2>2, <2>3, <2>4 DEF TypeOK
<1>4. ASSUME NEW n \in {1, MaxWindow}, OnWindowUpdateConn(n) PROVE TypeOK'
  <2>1. n \in Nat
    BY <1>0
  <2>2. ConnError \/ UNCHANGED <<goawayVars, outUsed>>
    BY <1>4 DEF OnWindowUpdateConn
  <2>3. /\ sendWindow' = sendWindow + n /\ granted' = granted + n
        /\ budget > 0 /\ budget' = budget - 1
        /\ UNCHANGED <<needSettings, loop, sends, table, block, streamIn, streamOut, recvVars,
                       sSendWindow, peerInit, sGranted, wire, dispatched, pc, cur>>
    BY <1>4 DEF OnWindowUpdateConn
  <2> QED BY <1>e, <2>1, <2>2, <2>3 DEF TypeOK
<1>5. ASSUME NEW v \in InitWindows, OnSettings(v) PROVE TypeOK'
  <2>1. v \in 0..MaxWindow /\ v \in Int
    BY <1>0
  <2>2. sSendWindow' \in [Streams -> Int]
    <3>1. PICK T \in SUBSET live : Retarget(v, T)
      BY <1>5 DEF OnSettings
    <3> QED BY <2>1, <3>1 DEF Retarget, TypeOK
  <2>3. peerInit' \in 0..MaxWindow
    BY <1>5, <2>1 DEF OnSettings, TypeOK
  <2>4. /\ goaway' \in Nat \cup {NoGoaway} /\ outUsed' \in Nat
        /\ gotError' \in BOOLEAN /\ closing' \in BOOLEAN /\ peerGoaway' \in BOOLEAN
    <3>1. CASE ConnError
      BY <1>e, <3>1
    <3>2. CASE Queue(FrameHdr) /\ UNCHANGED goawayVars
      <4>1. outUsed' \in Nat
        BY <1>0, <3>2, QueueNat
      <4> QED BY <3>2, <4>1 DEF TypeOK
    <3> QED BY <1>5, <3>1, <3>2 DEF OnSettings
  <2>5. /\ needSettings' \in BOOLEAN /\ budget > 0 /\ budget' = budget - 1
        /\ UNCHANGED <<loop, sends, table, block, streamIn, streamOut, recvVars, sendWindow,
                       granted, sGranted, wire, dispatched, pc, cur>>
    BY <1>5 DEF OnSettings
  <2> QED BY <2>2, <2>3, <2>4, <2>5 DEF TypeOK
<1> QED BY <1>1, <1>2, <1>3, <1>4, <1>5

LEMMA HeadersTypes ==
  ASSUME TypeOK, Block,
         \/ HeadersUndecodable \/ HeadersRefused \/ HeadersMalformed \/ HeadersDone
  PROVE  TypeOK'
<1>0. 0 \in Nat /\ FrameHdr \in Nat
  BY DEF FrameHdr
<1>1. /\ EndBlock /\ hdrId \in Streams
  BY DEF HeadersUndecodable, HeadersRefused, HeadersMalformed, HeadersDone, EndBlock, Block,
     TypeOK
<1>2. /\ hdrId' = 0 /\ hdrRefuse' \in BOOLEAN /\ hdrTrailer' \in BOOLEAN
      /\ hdrEnd' \in BOOLEAN /\ contCount' = 0
      /\ UNCHANGED <<needSettings, maxStreams, lastId, total, rapidReset, streamOut,
                     recvVars, grants, sends, loop, dispatched, budget>>
  BY <1>1 DEF EndBlock
<1>3. CASE HeadersUndecodable
  <2>1. /\ goaway' \in Nat \cup {NoGoaway} /\ outUsed' \in Nat
        /\ gotError' = TRUE /\ closing' = TRUE /\ peerGoaway' = peerGoaway
    BY <1>0, <1>3, ConnErrorTypes DEF HeadersUndecodable, ConnError
  <2>2. gotError' \in BOOLEAN /\ closing' \in BOOLEAN /\ peerGoaway' \in BOOLEAN
    BY <2>1 DEF TypeOK
  <2>3. pc' = "feed" /\ UNCHANGED <<live, streamIn, wire, cur>>
    BY <1>3 DEF HeadersUndecodable
  <2> QED BY <1>2, <2>1, <2>2, <2>3 DEF TypeOK
<1>4. CASE HeadersRefused \/ HeadersMalformed
  <2>1. QueueRst(hdrId) /\ live' \subseteq live
    BY <1>4 DEF HeadersRefused, HeadersMalformed, RstStream
  <2>2. /\ wire' \in [Streams -> {"none", "open", "ended", "reset", "illegal"}]
        /\ outUsed' \in Nat
    BY <1>1, <2>1, QueueRstTypes
  <2>3. pc' = "feed" /\ UNCHANGED <<goawayVars, streamIn, cur>>
    BY <1>4 DEF HeadersRefused, HeadersMalformed
  <2> QED BY <1>2, <2>1, <2>2, <2>3 DEF TypeOK
<1>5. CASE HeadersDone
  <2>1. /\ gotHeaders' \subseteq Streams /\ endRecv' \subseteq Streams
        /\ pc' \in {"dispatch", "feed"} /\ cur' \in Streams \cup {0}
        /\ UNCHANGED <<goawayVars, live, wire, outUsed>>
    BY <1>1, <1>5 DEF HeadersDone, TypeOK
  <2> QED BY <1>2, <2>1 DEF TypeOK
<1> QED BY <1>3, <1>4, <1>5

LEMMA SendTypes ==
  ASSUME TypeOK, Block, Dispatch \/ \E s \in Streams : Pump(s)
  PROVE  TypeOK'
<1>1. CASE Dispatch
  <2>1. PICK b \in Bodies : Respond(cur, b) /\ live' = IF b = 0 THEN live \ {cur} ELSE live
    BY <1>1 DEF Dispatch
  <2>2. cur \in Streams /\ b \in Nat
    BY <1>1, H2Assumption DEF Dispatch, Block, TypeOK
  <2>3. outUsed' \in Nat
    BY <2>1, QueueNat DEF Respond, FrameHdr
  <2>4. /\ wire' \in [Streams -> {"none", "open", "ended", "reset", "illegal"}]
        /\ responded' \subseteq Streams /\ unsent' \in [Streams -> Nat]
        /\ live' \subseteq Streams
    BY <2>1, <2>2 DEF Respond, OnWire, TypeOK
  <2>5. /\ dispatched' \subseteq Streams /\ pc' = "feed" /\ cur' = 0
        /\ UNCHANGED <<needSettings, goawayVars, maxStreams, lastId, total, rapidReset,
                       block, streamIn, recvVars, grants, sends, loop, budget>>
    BY <1>1, <2>2 DEF Dispatch, TypeOK
  <2> QED BY <2>3, <2>4, <2>5 DEF TypeOK
<1>2. ASSUME NEW s \in Streams, Pump(s) PROVE TypeOK'
  <2> DEFINE n == ChunkOf(s)
  <2>1. n \in Nat /\ n <= unsent[s]
    BY <1>2, ChunkFits DEF Pump, Sendable
  <2>2. outUsed' \in Nat
    <3>1. FrameHdr + n \in Nat
      BY <2>1 DEF FrameHdr
    <3> QED BY <1>2, <3>1, QueueNat DEF Pump
  <2> HIDE DEF n
  <2>3. /\ unsent' = [unsent EXCEPT ![s] = @ - n]
        /\ sSendWindow' = [sSendWindow EXCEPT ![s] = @ - n]
        /\ sendWindow' = sendWindow - n
        /\ sent' = sent + n /\ sSent' = [sSent EXCEPT ![s] = @ + n]
        /\ OnWire(s, {"open"}, IF unsent[s] = n THEN "ended" ELSE "open")
        /\ live' \subseteq live
    BY <1>2 DEF Pump, n
  <2>4. UNCHANGED <<needSettings, goawayVars, maxStreams, lastId, total, rapidReset,
                    block, streamIn, responded, recvVars, peerInit, granted, sGranted,
                    loop, dispatched, pc, cur, budget>>
    BY <1>2 DEF Pump
  <2>5. /\ unsent' \in [Streams -> Nat] /\ sSendWindow' \in [Streams -> Int]
        /\ sSent' \in [Streams -> Nat]
    BY <2>1, <2>3 DEF TypeOK
  <2>6. wire' \in [Streams -> {"none", "open", "ended", "reset", "illegal"}]
    BY <2>3 DEF OnWire, TypeOK
  <2> QED BY <2>1, <2>2, <2>3, <2>4, <2>5, <2>6 DEF TypeOK
<1> QED BY <1>1, <1>2

(* The type invariant is preserved. *)
LEMMA TypeStep ==
  ASSUME TypeOK, Block, [Next]_vars
  PROVE  TypeOK'
<1>1. CASE Quiet
  BY <1>1, QuietKeeps
<1>2. CASE FrameStep
  BY <1>1, <1>2, OnHeadersNewTypes, DataTypes, FrameTypes DEF FrameStep, Quiet
<1> QED BY <1>1, <1>2, HeadersTypes, SendTypes DEF Next, Quiet

-----------------------------------------------------------------------------
(* The parts of the invariant about the streams. *)
LEMMA BlockStep ==
  ASSUME TypeOK, Block, Fresh, Wire, [Next]_vars
  PROVE  Block'
<1> USE DEF Frame, AnyFrame, InSession, Ordinary
<1>1. CASE Quiet
  BY <1>1, QuietKeeps DEF Kept, Block
<1>2. ASSUME NEW s \in Streams, OnHeadersNew(s) PROVE Block'
  <2>1. /\ s > lastId /\ lastId' = s /\ hdrId' = s /\ pc' \in {"feed", "headers"}
        /\ live' = IF hdrRefuse' THEN live ELSE live \cup {s}
        /\ wire' = wire /\ endRecv' = endRecv
    BY <1>2 DEF OnHeadersNew, BeginBlock
  <2>2. s \notin live \cup endRecv /\ wire[s] = "none" /\ s \in Nat \ {0}
    BY <2>1, H2Assumption DEF Fresh
  <2> QED BY <2>1, <2>2 DEF Block
<1>3. ASSUME NEW s \in Streams, OnTrailers(s) PROVE Block'
  <2>1. UNCHANGED <<live, endRecv, wire, responded, lastId, cur>> /\ pc = "feed"
    BY <1>3 DEF OnTrailers
  <2>2. CASE UNCHANGED <<block, pc>>
    BY <2>1, <2>2 DEF Block
  <2>3. CASE s \in live /\ s \in gotHeaders \ endRecv /\ BeginBlock(s, FALSE, TRUE)
    <3>1. s # 0
      BY H2Assumption
    <3> QED BY <2>1, <2>3, <3>1 DEF Block, BeginBlock
  <2> QED BY <1>3, <2>2, <2>3 DEF OnTrailers
<1>4. CASE pc = "feed" /\ hdrId = 0 /\ UNCHANGED <<hdrId, pc>>
  BY <1>4 DEF Block
<1>5. ASSUME NEW s \in Streams,
             \/ OnRst(s)
             \/ \E len \in 0..MaxFrame : OnDataClosed(s, len) \/ OnDataRefused(s, len)
             \/ \E n \in {0, 1, MaxWindow} : OnWindowUpdate(s, n)
      PROVE  Block'
  BY <1>4, <1>5 DEF OnRst, OnDataClosed, OnDataRefused, OnWindowUpdate
<1>6. CASE \/ \E n \in {1, MaxWindow} : OnWindowUpdateConn(n)
           \/ \E v \in InitWindows : OnSettings(v)
  BY <1>4, <1>6 DEF OnWindowUpdateConn, OnSettings
<1>7. ASSUME NEW s \in Streams, NEW len \in 0..MaxFrame, NEW end \in BOOLEAN,
             OnData(s, len, end)
      PROVE  Block'
  <2>1. /\ hdrId = 0 /\ hdrId' = 0 /\ pc = "feed" /\ s \in live \ endRecv
        /\ UNCHANGED <<live, responded>>
    BY <1>7 DEF OnData
  <2>2. CASE end
    <3>1. pc' = "dispatch" /\ cur' = s /\ endRecv' = endRecv \cup {s}
      BY <1>7, <2>2 DEF OnData
    <3> QED BY <2>1, <3>1 DEF Block, Wire
  <2>3. CASE ~end
    <3>1. pc' = pc
      BY <1>7, <2>3 DEF OnData
    <3> QED BY <2>1, <3>1 DEF Block
  <2> QED BY <2>2, <2>3
<1>8. CASE HeadersUndecodable \/ HeadersRefused \/ HeadersMalformed
  <2>1. hdrId' = 0 /\ pc' = "feed"
    BY <1>8 DEF HeadersUndecodable, HeadersRefused, HeadersMalformed, EndBlock
  <2> QED BY <2>1 DEF Block
<1>9. CASE HeadersDone
  <2>1. /\ pc = "headers" /\ ~hdrRefuse /\ hdrId' = 0 /\ UNCHANGED <<live, responded>>
        /\ endRecv' = IF hdrEnd THEN endRecv \cup {hdrId} ELSE endRecv
        /\ pc' = IF hdrEnd THEN "dispatch" ELSE "feed"
        /\ cur' = IF hdrEnd THEN hdrId ELSE cur
    BY <1>9 DEF HeadersDone, EndBlock
  <2>2. hdrId \in live \ endRecv
    BY <2>1 DEF Block
  <2> QED BY <2>1, <2>2 DEF Block, Wire
<1>10. CASE Dispatch
  <2>1. /\ pc = "dispatch" /\ pc' = "feed" /\ live \ {cur} \subseteq live' /\ live' \subseteq live
        /\ UNCHANGED <<hdrId, hdrRefuse, endRecv, lastId>>
        /\ \E e : wire' = [wire EXCEPT ![cur] = e]
    BY <1>10 DEF Dispatch, Respond, OnWire
  <2>2. cur \in live \cap endRecv
    BY <2>1 DEF Block
  <2> QED BY <2>1, <2>2 DEF Block, TypeOK
<1>11. ASSUME NEW s \in Streams, Pump(s) PROVE Block'
  <2>1. /\ pc = "pump" /\ pc' = pc /\ live \ {s} \subseteq live' /\ live' \subseteq live
        /\ UNCHANGED <<hdrId, hdrRefuse, endRecv, lastId>>
        /\ s \in live \cap responded
        /\ \E e : wire' = [wire EXCEPT ![s] = e]
    BY <1>11 DEF Pump, OnWire, Sendable
  <2>2. s \in endRecv
    BY <2>1 DEF Wire
  <2> QED BY <2>1, <2>2 DEF Block, TypeOK
<1> QED BY <1>1, <1>2, <1>3, <1>5, <1>6, <1>7, <1>8, <1>9, <1>10, <1>11
        DEF Next, FrameStep, Quiet

(* What a step does to the streams it is not about: nothing. *)
LEMMA FreshStep ==
  ASSUME TypeOK, Block, Fresh, Wire, [Next]_vars
  PROVE  Fresh'
<1> USE DEF Frame, AnyFrame, InSession, Ordinary
<1>0. lastId \in Nat /\ Streams \subseteq Nat
  BY H2Assumption DEF TypeOK
<1>1. CASE Quiet
  BY <1>1, QuietKeeps DEF Kept, Fresh
<1>2. ASSUME NEW s \in Streams, OnHeadersNew(s) PROVE Fresh'
  <2>1. /\ s > lastId /\ lastId' = s /\ live' \subseteq live \cup {s}
        /\ UNCHANGED <<endRecv, dispatched, wire, sGranted, sSent>>
    BY <1>2 DEF OnHeadersNew
  <2> QED BY <1>0, <2>1 DEF Fresh
<1>3. CASE /\ lastId' = lastId /\ live' \subseteq live /\ endRecv' \subseteq endRecv \cup live
           /\ dispatched' \subseteq dispatched \cup live
           /\ \A t \in Streams : t > lastId =>
                wire'[t] = wire[t] /\ sGranted'[t] = sGranted[t] /\ sSent'[t] = sSent[t]
  BY <1>3 DEF Fresh
<1>4. ASSUME NEW s \in Streams, OnTrailers(s) PROVE Fresh'
  BY <1>3, <1>4 DEF OnTrailers
<1>5. ASSUME NEW s \in Streams, OnRst(s) PROVE Fresh'
  <2>1. s \in live /\ ~(s > lastId)
    BY <1>5 DEF OnRst, Fresh
  <2> QED BY <1>3, <1>5, <2>1 DEF OnRst, TypeOK
<1>6. ASSUME NEW s \in Streams, NEW len \in 0..MaxFrame, OnDataClosed(s, len) PROVE Fresh'
  BY <1>3, <1>6 DEF OnDataClosed
<1>7. ASSUME NEW s \in Streams, NEW len \in 0..MaxFrame, OnDataRefused(s, len) PROVE Fresh'
  <2>1. s \in live /\ ~(s > lastId)
    BY <1>7 DEF OnDataRefused, Fresh
  <2> QED BY <1>3, <1>7, <2>1 DEF OnDataRefused, OnWire, TypeOK
<1>8. ASSUME NEW s \in Streams, NEW len \in 0..MaxFrame, NEW end \in BOOLEAN,
             OnData(s, len, end)
      PROVE  Fresh'
  BY <1>3, <1>8 DEF OnData
<1>9. ASSUME NEW s \in Streams, NEW n \in {0, 1, MaxWindow}, OnWindowUpdate(s, n)
      PROVE  Fresh'
  <2>1. s \in live /\ ~(s > lastId)
    BY <1>9 DEF OnWindowUpdate, Fresh
  <2>2. /\ UNCHANGED <<lastId, endRecv, dispatched, sSent>> /\ live' \subseteq live
        /\ sGranted' = [sGranted EXCEPT ![s] = @ + n]
    BY <1>9 DEF OnWindowUpdate, RstStream
  <2>3. wire' = wire \/ \E e : wire' = [wire EXCEPT ![s] = e]
    BY <1>9 DEF OnWindowUpdate, RstStream, QueueRst, OnWire
  <2> QED BY <1>3, <2>1, <2>2, <2>3 DEF TypeOK
<1>10. CASE \/ \E n \in {1, MaxWindow} : OnWindowUpdateConn(n)
            \/ \E v \in InitWindows : OnSettings(v)
  BY <1>3, <1>10 DEF OnWindowUpdateConn, OnSettings
<1>11. CASE HeadersUndecodable
  BY <1>3, <1>11 DEF HeadersUndecodable, EndBlock
<1>h. ASSUME pc = "headers" PROVE hdrId \in Streams /\ ~(hdrId > lastId)
  <2>1. hdrId \in Streams
    BY <1>h DEF Block, TypeOK
  <2>2. CASE hdrRefuse
    BY <1>0, <1>h, <2>1, <2>2 DEF Block
  <2>3. CASE ~hdrRefuse
    BY <1>0, <1>h, <2>1, <2>3 DEF Block, Fresh
  <2> QED BY <2>1, <2>2, <2>3
<1>12. CASE HeadersRefused \/ HeadersMalformed
  <2>1. /\ pc = "headers" /\ UNCHANGED <<lastId, endRecv, dispatched, sGranted, sSent>>
        /\ live' \subseteq live /\ QueueRst(hdrId)
    BY <1>12 DEF HeadersRefused, HeadersMalformed, EndBlock, RstStream
  <2>2. \E e : wire' = [wire EXCEPT ![hdrId] = e]
    BY <2>1 DEF QueueRst, OnWire
  <2> QED BY <1>3, <1>h, <2>1, <2>2 DEF TypeOK
<1>13. CASE HeadersDone
  <2>1. /\ pc = "headers" /\ ~hdrRefuse /\ endRecv' \subseteq endRecv \cup {hdrId}
        /\ UNCHANGED <<lastId, live, dispatched, wire, sGranted, sSent>>
    BY <1>13 DEF HeadersDone, EndBlock
  <2>2. hdrId \in live
    BY <2>1 DEF Block
  <2> QED BY <1>3, <2>1, <2>2
<1>14. CASE Dispatch
  <2>1. /\ pc = "dispatch" /\ dispatched' = dispatched \cup {cur} /\ live' \subseteq live
        /\ UNCHANGED <<lastId, endRecv, sGranted, sSent>>
        /\ \E e : wire' = [wire EXCEPT ![cur] = e]
    BY <1>14 DEF Dispatch, Respond, OnWire
  <2>2. cur \in live /\ cur \in Streams /\ ~(cur > lastId)
    BY <2>1 DEF Block, Fresh, TypeOK
  <2> QED BY <1>3, <2>1, <2>2 DEF TypeOK
<1>15. ASSUME NEW s \in Streams, Pump(s) PROVE Fresh'
  <2>1. /\ s \in live /\ live' \subseteq live
        /\ UNCHANGED <<lastId, endRecv, dispatched, sGranted>>
        /\ \E e : wire' = [wire EXCEPT ![s] = e]
        /\ \E e : sSent' = [sSent EXCEPT ![s] = e]
    BY <1>15 DEF Pump, OnWire, Sendable
  <2>2. ~(s > lastId)
    BY <2>1 DEF Fresh
  <2> QED BY <1>3, <2>1, <2>2 DEF TypeOK
<1> QED BY <1>1, <1>2, <1>4, <1>5, <1>6, <1>7, <1>8, <1>9, <1>10, <1>11, <1>12, <1>13,
           <1>14, <1>15 DEF Next, FrameStep, Quiet

(* Every frame of ours finds its stream in a state it is legal in. *)
LEMMA WireStep ==
  ASSUME TypeOK, Block, Fresh, Wire, Answered, [Next]_vars
  PROVE  Wire' /\ Answered'
<1> USE DEF Frame, AnyFrame, InSession, Ordinary
<1>0. live \subseteq Streams /\ wire \in [Streams -> {"none", "open", "ended", "reset", "illegal"}]
  BY DEF TypeOK
<1>1. CASE UNCHANGED <<live, responded, wire, dispatched>> /\ endRecv \subseteq endRecv'
  BY <1>1 DEF Wire, StreamLifecycle, Answered
<1>2. ASSUME NEW s \in Streams, wire' = [wire EXCEPT ![s] = "reset"], live' = live \ {s},
             UNCHANGED <<responded, endRecv, dispatched>>
      PROVE  Wire' /\ Answered'
  <2>1. Wire'
    BY <1>0, <1>2 DEF Wire, StreamLifecycle
  <2>2. Answered'
    BY <1>0, <1>2 DEF Answered, TypeOK
  <2> QED BY <2>1, <2>2
<1>q. ASSUME NEW s \in Streams, QueueRst(s), wire[s] \in {"none", "open"}
      PROVE  wire' = [wire EXCEPT ![s] = "reset"]
  BY <1>q DEF QueueRst, OnWire
<1>3. CASE Quiet
  BY <1>1, <1>3, QuietKeeps DEF Kept
<1>4. ASSUME NEW s \in Streams, OnHeadersNew(s) PROVE Wire' /\ Answered'
  <2>1. /\ s > lastId /\ live \subseteq live' /\ live' \subseteq live \cup {s}
        /\ UNCHANGED <<responded, endRecv, dispatched, wire>>
    BY <1>4 DEF OnHeadersNew
  <2>2. wire[s] = "none" /\ s \notin responded
    BY <2>1 DEF Fresh, Wire
  <2> QED BY <2>1, <2>2 DEF Wire, StreamLifecycle, Answered
<1>5. ASSUME NEW s \in Streams, OnTrailers(s) PROVE Wire' /\ Answered'
  BY <1>1, <1>5 DEF OnTrailers
<1>6. ASSUME NEW s \in Streams, OnRst(s) PROVE Wire' /\ Answered'
  BY <1>2, <1>6 DEF OnRst
<1>7. ASSUME NEW s \in Streams, NEW len \in 0..MaxFrame, OnDataClosed(s, len)
      PROVE  Wire' /\ Answered'
  BY <1>1, <1>7 DEF OnDataClosed
<1>8. ASSUME NEW s \in Streams, NEW len \in 0..MaxFrame, OnDataRefused(s, len)
      PROVE  Wire' /\ Answered'
  <2>1. s \in live \ endRecv /\ wire[s] = "none"
    BY <1>8 DEF OnDataRefused, Wire
  <2>2. wire' = [wire EXCEPT ![s] = "reset"]
    BY <1>8, <2>1 DEF OnDataRefused, OnWire
  <2> QED BY <1>2, <1>8, <2>2 DEF OnDataRefused
<1>9. ASSUME NEW s \in Streams, NEW len \in 0..MaxFrame, NEW end \in BOOLEAN,
             OnData(s, len, end)
      PROVE  Wire' /\ Answered'
  BY <1>1, <1>9 DEF OnData
<1>10. ASSUME NEW s \in Streams, NEW n \in {0, 1, MaxWindow}, OnWindowUpdate(s, n)
       PROVE  Wire' /\ Answered'
  <2>1. s \in live /\ UNCHANGED <<responded, endRecv, dispatched>>
    BY <1>10 DEF OnWindowUpdate
  <2>2. CASE UNCHANGED <<wire, live>>
    BY <1>1, <2>1, <2>2
  <2>3. CASE RstStream(s)
    <3>1. wire[s] \in {"none", "open"}
      BY <2>1 DEF Wire
    <3> QED BY <1>2, <1>q, <2>1, <2>3, <3>1 DEF RstStream
  <2> QED BY <1>10, <2>2, <2>3 DEF OnWindowUpdate
<1>11. CASE \/ \E n \in {1, MaxWindow} : OnWindowUpdateConn(n)
            \/ \E v \in InitWindows : OnSettings(v)
  BY <1>1, <1>11 DEF OnWindowUpdateConn, OnSettings
<1>12. CASE HeadersUndecodable
  BY <1>1, <1>12 DEF HeadersUndecodable, EndBlock
<1>13. CASE HeadersRefused
  <2>1. /\ pc = "headers" /\ hdrRefuse /\ QueueRst(hdrId)
        /\ UNCHANGED <<live, responded, endRecv, dispatched>>
    BY <1>13 DEF HeadersRefused, EndBlock
  <2>2. hdrId \in Streams /\ hdrId \notin live /\ wire[hdrId] = "none"
    BY <2>1 DEF Block, TypeOK
  <2>3. wire' = [wire EXCEPT ![hdrId] = "reset"] /\ live' = live \ {hdrId}
    BY <1>q, <2>1, <2>2
  <2> QED BY <1>2, <2>1, <2>2, <2>3
<1>14. CASE HeadersMalformed
  <2>1. /\ pc = "headers" /\ ~hdrRefuse /\ QueueRst(hdrId) /\ live' = live \ {hdrId}
        /\ UNCHANGED <<responded, endRecv, dispatched>>
    BY <1>14 DEF HeadersMalformed, EndBlock, RstStream
  <2>2. hdrId \in Streams /\ wire[hdrId] \in {"none", "open"}
    BY <2>1 DEF Block, Wire, TypeOK
  <2> QED BY <1>2, <1>q, <2>1, <2>2
<1>15. CASE HeadersDone
  BY <1>1, <1>15 DEF HeadersDone, EndBlock
<1>16. CASE Dispatch
  <2>1. PICK b \in Bodies : Respond(cur, b) /\ live' = IF b = 0 THEN live \ {cur} ELSE live
    BY <1>16 DEF Dispatch
  <2>2. /\ cur \in (live \cap endRecv) \ responded /\ cur \in Streams /\ wire[cur] = "none"
        /\ dispatched' = dispatched \cup {cur} /\ endRecv' = endRecv
    BY <1>16 DEF Dispatch, Block, Wire, TypeOK
  <2>3. /\ wire' = [wire EXCEPT ![cur] = IF b = 0 THEN "ended" ELSE "open"]
        /\ responded' = responded \cup {cur}
    BY <2>1, <2>2 DEF Respond, OnWire
  <2>4. Wire'
    BY <1>0, <2>1, <2>2, <2>3 DEF Wire, StreamLifecycle
  <2>5. Answered'
    BY <1>0, <2>1, <2>2, <2>3 DEF Answered, TypeOK
  <2> QED BY <2>4, <2>5
<1>17. ASSUME NEW s \in Streams, Pump(s) PROVE Wire' /\ Answered'
  <2>1. s \in live \cap responded /\ wire[s] = "open"
    BY <1>17 DEF Pump, Sendable, Wire
  <2>2. UNCHANGED <<responded, endRecv, dispatched>>
    BY <1>17 DEF Pump
  <2>3. CASE unsent[s] = ChunkOf(s)
    <3>1. wire' = [wire EXCEPT ![s] = "ended"] /\ live' = live \ {s}
      BY <1>17, <2>1, <2>3 DEF Pump, OnWire
    <3>2. Wire'
      BY <1>0, <2>2, <3>1 DEF Wire, StreamLifecycle
    <3>3. Answered'
      BY <1>0, <2>2, <3>1 DEF Answered, TypeOK
    <3> QED BY <3>2, <3>3
  <2>4. CASE unsent[s] # ChunkOf(s)
    <3>1. wire' = [wire EXCEPT ![s] = "open"] /\ live' = live
      BY <1>17, <2>1, <2>4 DEF Pump, OnWire
    <3>2. wire' = wire
      BY <1>0, <2>1, <3>1
    <3> QED BY <1>1, <2>2, <3>1, <3>2
  <2> QED BY <2>3, <2>4
<1> QED BY <1>3, <1>4, <1>5, <1>6, <1>7, <1>8, <1>9, <1>10, <1>11, <1>12, <1>13, <1>14,
           <1>15, <1>16, <1>17 DEF Next, FrameStep, Quiet

-----------------------------------------------------------------------------
(* A step opens a stream, which only OnHeadersNew does and only if the stream is not
   refused, or it adds none to the table; the handler gets streams of the table. *)
Opens(s) ==
  /\ s > lastId /\ ~closing /\ Cardinality(live) < maxStreams /\ total < MaxRequests
  /\ live' = live \cup {s} /\ total' = total + 1
  /\ UNCHANGED <<dispatched, maxStreams, goaway>>
Shrinks ==
  /\ live' \subseteq live /\ live' \cup dispatched' \subseteq live \cup dispatched
  /\ maxStreams' = maxStreams /\ total' \in {total, total + 1} /\ lastId' >= lastId
  /\ closing => closing'
  /\ goaway' = goaway \/ (goaway' = lastId' /\ closing')

LEMMA TableStep ==
  ASSUME TypeOK, Block, [Next]_vars
  PROVE  Shrinks \/ \E s \in Streams : Opens(s)
<1> USE DEF Frame, AnyFrame, InSession, Ordinary
<1>0. lastId \in Nat /\ total \in Nat /\ Streams \subseteq Nat /\ StreamLimits \subseteq Nat
  BY H2Assumption DEF TypeOK
<1>e. ASSUME NEW n, ConnErrorAfter(n)
      PROVE  closing' /\ (goaway' = goaway \/ goaway' = lastId)
  BY <1>e DEF ConnErrorAfter, QueueGoaway
<1>1. CASE Quiet
  BY <1>0, <1>1, QuietKeeps DEF Kept, Shrinks
<1>2. ASSUME NEW s \in Streams, OnHeadersNew(s)
      PROVE  Shrinks \/ \E t \in Streams : Opens(t)
  <2> DEFINE capHit == ~closing /\ ~peerGoaway /\ total + 1 > MaxRequests
             refuse == Refused \/ capHit
  <2>1. /\ s > lastId /\ lastId' = s /\ total' = total + 1
        /\ IF capHit THEN QueueGoaway(s, 0) /\ closing' = TRUE
                     ELSE UNCHANGED <<goaway, outUsed, closing>>
        /\ live' = IF refuse THEN live ELSE live \cup {s}
        /\ UNCHANGED <<maxStreams, dispatched>>
    BY <1>2 DEF OnHeadersNew
  <2>2. CASE refuse
    <3>1. goaway' = goaway \/ (goaway' = lastId' /\ closing')
      BY <2>1 DEF QueueGoaway
    <3>2. closing => closing'
      BY <2>1
    <3> QED BY <1>0, <2>1, <2>2, <3>1, <3>2 DEF Shrinks
  <2>3. CASE ~refuse
    <3>1. Cardinality(live) \in Nat
      BY H2Assumption, FS_Subset, FS_CardinalityType DEF TypeOK
    <3>2. maxStreams \in Nat /\ MaxRequests \in Nat
      BY <1>0, H2Assumption DEF TypeOK
    <3>3. ~closing /\ Cardinality(live) < maxStreams /\ total < MaxRequests
      BY <1>0, <2>3, <3>1, <3>2 DEF Refused
    <3>4. live' = live \cup {s} /\ goaway' = goaway
      BY <2>1, <2>3
    <3> QED BY <2>1, <3>3, <3>4 DEF Opens
  <2> QED BY <2>2, <2>3
<1>3. ASSUME NEW s \in Streams, OnTrailers(s) PROVE Shrinks
  <2>1. ConnErrorAfter(0) \/ UNCHANGED <<goawayVars, outUsed>>
    BY <1>3 DEF OnTrailers, ConnError
  <2>2. UNCHANGED <<table, dispatched>>
    BY <1>3 DEF OnTrailers
  <2> QED BY <1>0, <1>e, <2>1, <2>2 DEF Shrinks
<1>4. ASSUME NEW s \in Streams, OnRst(s) PROVE Shrinks
  BY <1>0, <1>4, <1>e DEF OnRst, ConnError, Shrinks
<1>5. ASSUME NEW s \in Streams, NEW len \in 0..MaxFrame, OnDataClosed(s, len) PROVE Shrinks
  BY <1>0, <1>5, <1>e DEF OnDataClosed, Shrinks
<1>6. ASSUME NEW s \in Streams, NEW len \in 0..MaxFrame, OnDataRefused(s, len) PROVE Shrinks
  BY <1>0, <1>6 DEF OnDataRefused, Shrinks
<1>7. ASSUME NEW s \in Streams, NEW len \in 0..MaxFrame, NEW end \in BOOLEAN,
             OnData(s, len, end)
      PROVE  Shrinks
  BY <1>0, <1>7 DEF OnData, Shrinks
<1>8. ASSUME NEW s \in Streams, NEW n \in {0, 1, MaxWindow}, OnWindowUpdate(s, n)
      PROVE  Shrinks
  BY <1>0, <1>8 DEF OnWindowUpdate, RstStream, Shrinks
<1>9. ASSUME NEW n \in {1, MaxWindow}, OnWindowUpdateConn(n) PROVE Shrinks
  BY <1>0, <1>9, <1>e DEF OnWindowUpdateConn, ConnError, Shrinks
<1>10. ASSUME NEW v \in InitWindows, OnSettings(v) PROVE Shrinks
  <2>1. ConnErrorAfter(0) \/ UNCHANGED goawayVars
    BY <1>10 DEF OnSettings, ConnError
  <2>2. UNCHANGED <<table, dispatched>>
    BY <1>10 DEF OnSettings
  <2> QED BY <1>0, <1>e, <2>1, <2>2 DEF Shrinks
<1>11. CASE HeadersUndecodable
  BY <1>0, <1>11, <1>e DEF HeadersUndecodable, EndBlock, ConnError, Shrinks
<1>12. CASE HeadersRefused \/ HeadersMalformed \/ HeadersDone
  BY <1>0, <1>12 DEF HeadersRefused, HeadersMalformed, RstStream, HeadersDone, EndBlock, Shrinks
<1>13. CASE Dispatch
  <2>1. /\ pc = "dispatch" /\ live' \subseteq live /\ dispatched' = dispatched \cup {cur}
        /\ UNCHANGED <<maxStreams, total, lastId, closing, goaway>>
    BY <1>13 DEF Dispatch
  <2>2. cur \in live
    BY <2>1 DEF Block
  <2> QED BY <1>0, <2>1, <2>2 DEF Shrinks
<1>14. ASSUME NEW s \in Streams, Pump(s) PROVE Shrinks
  BY <1>0, <1>14 DEF Pump, Shrinks
<1> QED BY <1>1, <1>2, <1>3, <1>4, <1>5, <1>6, <1>7, <1>8, <1>9, <1>10, <1>11, <1>12,
           <1>13, <1>14 DEF Next, FrameStep, Quiet

(* The limits: a stream that is opened is counted in total, and no step but the
   opening of one makes the table or what was ever handled larger. *)
LEMMA CountedStep ==
  ASSUME TypeOK, Block, Fresh, Counted, [Next]_vars
  PROVE  Counted'
<1> DEFINE A == live \cup dispatched
<1>1. /\ IsFiniteSet(live) /\ IsFiniteSet(A)
  BY H2Assumption, FS_Subset DEF TypeOK
<1>2. Cardinality(live) \in Nat /\ Cardinality(A) \in Nat /\ maxStreams \in Nat
      /\ total \in Nat /\ MaxRequests \in Nat
  BY <1>1, FS_CardinalityType, H2Assumption DEF TypeOK
<1>3. CASE Shrinks
  <2>1. Cardinality(live') <= Cardinality(live) /\ Cardinality(A') <= Cardinality(A)
    BY <1>1, <1>3, FS_Subset DEF Shrinks
  <2>2. Cardinality(live') \in Nat /\ Cardinality(A') \in Nat
    BY <1>1, <1>3, FS_Subset, FS_CardinalityType DEF Shrinks
  <2> QED BY <1>2, <1>3, <2>1, <2>2 DEF Shrinks, Counted
<1>4. ASSUME NEW s \in Streams, Opens(s) PROVE Counted'
  <2>1. s \notin live /\ s \notin A
    BY <1>4 DEF Opens, Fresh
  <2>2. Cardinality(live') = Cardinality(live) + 1
    BY <1>1, <1>4, <2>1, FS_AddElement DEF Opens
  <2>3. A' = A \cup {s}
    BY <1>4 DEF Opens
  <2>4. Cardinality(A') = Cardinality(A) + 1
    BY <1>1, <2>1, <2>3, FS_AddElement
  <2> QED BY <1>2, <1>4, <2>2, <2>4 DEF Opens, Counted
<1> QED BY <1>3, <1>4, TableStep

(* The GOAWAY stays true: no stream is opened after it, and it covers all that were. *)
LEMMA PromiseStep ==
  ASSUME TypeOK, Block, Fresh, Promise, [Next]_vars
  PROVE  Promise'
<1>0. /\ lastId \in Nat /\ Streams \subseteq Nat /\ live \cup dispatched \subseteq Streams
      /\ lastId' \in Nat
  <2>1. TypeOK'
    BY TypeStep
  <2> QED BY <2>1, H2Assumption DEF TypeOK
<1>1. CASE Shrinks
  <2>1. \A s \in live' \cup dispatched' : s \in live \cup dispatched
    BY <1>1 DEF Shrinks
  <2>2. \A s \in live' \cup dispatched' : s <= lastId'
    <3>1. ASSUME NEW s \in live \cup dispatched PROVE s \in Nat /\ s <= lastId
      <4>1. s \in Streams
        BY <1>0
      <4>2. ~(s > lastId)
        BY <4>1 DEF Fresh
      <4> QED BY <1>0, <4>1, <4>2
    <3> QED BY <1>0, <1>1, <2>1, <3>1 DEF Shrinks
  <2>3. CASE goaway' = goaway
    BY <1>1, <2>1, <2>3 DEF Shrinks, Promise, NoGoaway
  <2>4. CASE goaway' = lastId' /\ closing'
    BY <2>2, <2>4 DEF Promise
  <2> QED BY <1>1, <2>3, <2>4 DEF Shrinks
<1>2. ASSUME NEW s \in Streams, Opens(s) PROVE Promise'
  BY <1>2 DEF Opens, Promise, NoGoaway
<1> QED BY <1>1, <1>2, TableStep

-----------------------------------------------------------------------------
(* The window we enforce is the credit the peer counts. *)
LEMMA CreditStep ==
  ASSUME TypeOK, Block, Fresh, CreditKept, [Next]_vars
  PROVE  CreditKept'
<1> USE DEF Frame, AnyFrame, InSession, Ordinary
<1>0. /\ recvWindow \in 0..Window /\ sRecvWindow \in [Streams -> 0..Window]
      /\ credit \in Int /\ sCredit \in [Streams -> Int] /\ live \subseteq Streams
      /\ Window \in Nat /\ MaxFrame \in Nat /\ Window >= MaxFrame
  BY H2Assumption DEF TypeOK
<1>1. CASE gotError'
  BY <1>1 DEF CreditKept
<1>2. CASE /\ gotError' = gotError /\ live' \subseteq live /\ endRecv \subseteq endRecv'
           /\ UNCHANGED recvVars
  BY <1>2 DEF CreditKept
<1>e. ASSUME NEW n, ConnErrorAfter(n) PROVE gotError'
  BY <1>e DEF ConnErrorAfter
<1>3. CASE Quiet
  BY <1>3, QuietKeeps DEF Kept, CreditKept
<1>4. ASSUME NEW s \in Streams, OnHeadersNew(s) PROVE CreditKept'
  <2>1. /\ s > lastId /\ UNCHANGED <<gotError, recvWindow, credit, endRecv>>
        /\ sCredit' = [sCredit EXCEPT ![s] = Window]
        /\ \/ live' = live /\ sRecvWindow' = sRecvWindow
           \/ live' = live \cup {s} /\ sRecvWindow' = [sRecvWindow EXCEPT ![s] = Window]
    BY <1>4 DEF OnHeadersNew
  <2>2. s \notin live
    BY <2>1 DEF Fresh
  <2> QED BY <1>0, <2>1, <2>2 DEF CreditKept
<1>5. ASSUME NEW s \in Streams, OnTrailers(s) PROVE CreditKept'
  <2>1. ConnErrorAfter(0) \/ UNCHANGED goawayVars
    BY <1>5 DEF OnTrailers, ConnError
  <2>2. UNCHANGED <<live, endRecv, recvVars>>
    BY <1>5 DEF OnTrailers
  <2> QED BY <1>1, <1>2, <1>e, <2>1, <2>2
<1>6. ASSUME NEW s \in Streams, OnRst(s) PROVE CreditKept'
  BY <1>1, <1>2, <1>6, <1>e DEF OnRst, ConnError
<1>c. ASSUME NEW len \in 0..MaxFrame, len <= recvWindow, ConsumeConn(len), ~gotError
      PROVE  recvWindow' = credit' /\ recvWindow' >= MaxFrame
  <2>1. /\ Consumed(recvWindow, len) >= MaxFrame
        /\ Consumed(recvWindow, len) = recvWindow - len + Increment(recvWindow, len)
    BY <1>0, <1>c, ConsumeBounds
  <2>2. recvWindow = credit
    BY <1>c DEF CreditKept
  <2> QED BY <1>c, <2>1, <2>2 DEF ConsumeConn
<1>7. ASSUME NEW s \in Streams, NEW len \in 0..MaxFrame, OnDataClosed(s, len)
      PROVE  CreditKept'
  <2>1. /\ ~gotError /\ len <= recvWindow /\ ConsumeConn(len)
        /\ UNCHANGED <<live, endRecv, sRecvWindow, sCredit>>
    BY <1>7 DEF OnDataClosed
  <2> QED BY <1>c, <2>1 DEF CreditKept
<1>8. ASSUME NEW s \in Streams, NEW len \in 0..MaxFrame, OnDataRefused(s, len)
      PROVE  CreditKept'
  <2>1. /\ ~gotError /\ len <= recvWindow /\ ConsumeConn(len) /\ live' \subseteq live
        /\ UNCHANGED <<endRecv, sRecvWindow, sCredit>>
    BY <1>8 DEF OnDataRefused
  <2> QED BY <1>c, <2>1 DEF CreditKept
<1>9. ASSUME NEW s \in Streams, NEW len \in 0..MaxFrame, NEW end \in BOOLEAN,
             OnData(s, len, end)
      PROVE  CreditKept'
  <2>1. /\ ~gotError /\ len <= recvWindow /\ ConsumeConn(len) /\ live' = live
        /\ s \in live \ endRecv /\ len <= sRecvWindow[s]
    BY <1>9 DEF OnData
  <2>2. recvWindow' = credit' /\ recvWindow' >= MaxFrame
    BY <1>c, <2>1
  <2>3. CASE end
    <3>1. endRecv \subseteq endRecv' /\ UNCHANGED <<sRecvWindow, sCredit>>
      BY <1>9, <2>3 DEF OnData
    <3> QED BY <2>1, <2>2, <3>1 DEF CreditKept
  <2>4. CASE ~end
    <3>1. /\ endRecv' = endRecv
          /\ sRecvWindow' = [sRecvWindow EXCEPT ![s] = Consumed(@, len)]
          /\ sCredit' = [sCredit EXCEPT ![s] = @ - len + Increment(sRecvWindow[s], len)]
      BY <1>9, <2>4 DEF OnData
    <3>2. sRecvWindow[s] \in 0..Window /\ sRecvWindow[s] = sCredit[s]
      BY <1>0, <2>1 DEF CreditKept
    <3>3. /\ Consumed(sRecvWindow[s], len) >= MaxFrame
          /\ Consumed(sRecvWindow[s], len) = sRecvWindow[s] - len + Increment(sRecvWindow[s], len)
      BY <2>1, <3>2, ConsumeBounds
    <3>4. sRecvWindow'[s] = sCredit'[s] /\ sRecvWindow'[s] >= MaxFrame
      BY <1>0, <3>1, <3>2, <3>3
    <3>5. \A t \in Streams \ {s} : sRecvWindow'[t] = sRecvWindow[t] /\ sCredit'[t] = sCredit[t]
      BY <1>0, <3>1
    <3> QED BY <1>0, <2>1, <2>2, <3>1, <3>4, <3>5 DEF CreditKept
  <2> QED BY <2>3, <2>4
<1>10. ASSUME NEW s \in Streams, NEW n \in {0, 1, MaxWindow}, OnWindowUpdate(s, n)
       PROVE  CreditKept'
  BY <1>2, <1>10 DEF OnWindowUpdate, RstStream
<1>11. ASSUME NEW n \in {1, MaxWindow}, OnWindowUpdateConn(n) PROVE CreditKept'
  BY <1>1, <1>2, <1>11, <1>e DEF OnWindowUpdateConn, ConnError
<1>12. ASSUME NEW v \in InitWindows, OnSettings(v) PROVE CreditKept'
  <2>1. ConnErrorAfter(0) \/ UNCHANGED goawayVars
    BY <1>12 DEF OnSettings, ConnError
  <2>2. UNCHANGED <<live, endRecv, recvVars>>
    BY <1>12 DEF OnSettings
  <2> QED BY <1>1, <1>2, <1>e, <2>1, <2>2
<1>13. CASE HeadersUndecodable
  BY <1>1, <1>13, <1>e DEF HeadersUndecodable, ConnError
<1>14. CASE HeadersRefused \/ HeadersMalformed \/ HeadersDone
  BY <1>2, <1>14 DEF HeadersRefused, HeadersMalformed, RstStream, HeadersDone, EndBlock
<1>15. CASE Dispatch
  BY <1>2, <1>15 DEF Dispatch
<1>16. ASSUME NEW s \in Streams, Pump(s) PROVE CreditKept'
  BY <1>2, <1>16 DEF Pump
<1> QED BY <1>3, <1>4, <1>5, <1>6, <1>7, <1>8, <1>9, <1>10, <1>11, <1>12, <1>13, <1>14,
           <1>15, <1>16 DEF Next, FrameStep, Quiet

(* The send windows follow the peer's grants. *)
LEMMA SendStep ==
  ASSUME TypeOK, Block, Fresh, SendCredit, [Next]_vars
  PROVE  SendCredit'
<1> USE DEF Frame, AnyFrame, InSession, Ordinary
<1>0. /\ sendWindow \in Int /\ granted \in Nat /\ sent \in Nat /\ Window \in Nat
      /\ sSendWindow \in [Streams -> Int] /\ sGranted \in [Streams -> Nat]
      /\ sSent \in [Streams -> Nat] /\ peerInit \in Nat /\ live \subseteq Streams
  BY H2Assumption DEF TypeOK
<1>1. CASE /\ (gotError => gotError') /\ live' \subseteq live
           /\ UNCHANGED <<grants, sends>>
  BY <1>1 DEF SendCredit
<1>e. ASSUME NEW n, ConnErrorAfter(n) PROVE gotError'
  BY <1>e DEF ConnErrorAfter
<1>2. CASE Quiet
  BY <1>1, <1>2, QuietKeeps DEF Kept
<1>3. ASSUME NEW s \in Streams, OnHeadersNew(s) PROVE SendCredit'
  <2>1. /\ s > lastId /\ UNCHANGED <<gotError, sendWindow, peerInit, granted, sGranted, sends>>
        /\ \/ live' = live /\ sSendWindow' = sSendWindow
           \/ live' = live \cup {s} /\ sSendWindow' = [sSendWindow EXCEPT ![s] = peerInit]
    BY <1>3 DEF OnHeadersNew
  <2>2. s \notin live /\ sGranted[s] = 0 /\ sSent[s] = 0
    BY <2>1 DEF Fresh
  <2> QED BY <1>0, <2>1, <2>2 DEF SendCredit
<1>4. ASSUME NEW s \in Streams, OnTrailers(s) PROVE SendCredit'
  <2>1. ConnErrorAfter(0) \/ UNCHANGED goawayVars
    BY <1>4 DEF OnTrailers, ConnError
  <2>2. UNCHANGED <<live, grants, sends>>
    BY <1>4 DEF OnTrailers
  <2> QED BY <1>1, <1>e, <2>1, <2>2
<1>5. ASSUME NEW s \in Streams, OnRst(s) PROVE SendCredit'
  BY <1>1, <1>5, <1>e DEF OnRst, ConnError
<1>6. ASSUME NEW s \in Streams, NEW len \in 0..MaxFrame,
             \/ OnDataClosed(s, len) \/ OnDataRefused(s, len)
             \/ \E end \in BOOLEAN : OnData(s, len, end)
      PROVE  SendCredit'
  <2>1. ~gotError /\ live' \subseteq live /\ UNCHANGED <<grants, sends>>
    BY <1>6 DEF OnDataClosed, OnDataRefused, OnData
  <2> QED BY <1>1, <2>1
<1>7. ASSUME NEW s \in Streams, NEW n \in {0, 1, MaxWindow}, OnWindowUpdate(s, n)
      PROVE  SendCredit'
  <2>1. n \in Nat
    BY H2Assumption
  <2>2. /\ sSendWindow' = [sSendWindow EXCEPT ![s] = @ + n]
        /\ sGranted' = [sGranted EXCEPT ![s] = @ + n] /\ live' \subseteq live
        /\ UNCHANGED <<gotError, sendWindow, peerInit, granted, sends>>
    BY <1>7 DEF OnWindowUpdate, RstStream
  <2> QED BY <1>0, <2>1, <2>2 DEF SendCredit
<1>8. ASSUME NEW n \in {1, MaxWindow}, OnWindowUpdateConn(n) PROVE SendCredit'
  <2>1. n \in Nat
    BY H2Assumption
  <2>2. /\ sendWindow' = sendWindow + n /\ granted' = granted + n
        /\ UNCHANGED <<live, sSendWindow, peerInit, sGranted, sends>>
        /\ gotError' \/ gotError' = gotError
    BY <1>8, <1>e DEF OnWindowUpdateConn, ConnError
  <2> QED BY <1>0, <2>1, <2>2 DEF SendCredit
<1>9. ASSUME NEW v \in InitWindows, OnSettings(v) PROVE SendCredit'
  <2>1. v \in Nat
    BY H2Assumption
  <2>2. UNCHANGED <<live, sendWindow, granted, sGranted, sends>>
    BY <1>9 DEF OnSettings
  <2>3. CASE Retarget(v, live) /\ peerInit' = v /\ UNCHANGED goawayVars
    BY <1>0, <2>1, <2>2, <2>3 DEF SendCredit, Retarget
  <2>4. CASE ConnErrorAfter(0)
    BY <1>e, <2>2, <2>4 DEF SendCredit
  <2> QED BY <1>9, <2>3, <2>4 DEF OnSettings, ConnError
<1>10. CASE HeadersUndecodable
  BY <1>1, <1>10, <1>e DEF HeadersUndecodable, EndBlock, ConnError
<1>11. CASE HeadersRefused \/ HeadersMalformed \/ HeadersDone
  BY <1>1, <1>11 DEF HeadersRefused, HeadersMalformed, RstStream, HeadersDone, EndBlock
<1>12. CASE Dispatch
  BY <1>1, <1>12 DEF Dispatch
<1>13. ASSUME NEW s \in Streams, Pump(s) PROVE SendCredit'
  <2>1. ChunkOf(s) \in Int
    BY ChunkFits
  <2>2. /\ sSendWindow' = [sSendWindow EXCEPT ![s] = @ - ChunkOf(s)]
        /\ sendWindow' = sendWindow - ChunkOf(s) /\ sent' = sent + ChunkOf(s)
        /\ sSent' = [sSent EXCEPT ![s] = @ + ChunkOf(s)] /\ live' \subseteq live
        /\ UNCHANGED <<gotError, peerInit, granted, sGranted>>
    BY <1>13 DEF Pump
  <2> QED BY <1>0, <2>1, <2>2 DEF SendCredit
<1> QED BY <1>2, <1>3, <1>4, <1>5, <1>6, <1>7, <1>8, <1>9, <1>10, <1>11, <1>12, <1>13
        DEF Next, FrameStep, Quiet

-----------------------------------------------------------------------------
LEMMA InitInv == Init => H2Inv
<1> SUFFICES ASSUME Init PROVE H2Inv
  OBVIOUS
<1>0. 0 \in Nat /\ FrameHdr \in Nat
  BY DEF FrameHdr
<1>1. TypeOK
  <2>1. Zero \in [Streams -> Nat] /\ Zero \in [Streams -> Int] /\ Zero \in [Streams -> 0..Window]
    BY H2Assumption DEF Zero
  <2>2. Window \in Nat /\ Window \in 0..MaxWindow /\ FrameBudget \in Nat
    BY H2Assumption
  <2>3. /\ needSettings \in BOOLEAN /\ closing \in BOOLEAN /\ peerGoaway \in BOOLEAN
        /\ gotError \in BOOLEAN /\ hdrRefuse \in BOOLEAN /\ hdrTrailer \in BOOLEAN
        /\ hdrEnd \in BOOLEAN /\ wantClose \in BOOLEAN /\ peerEof \in BOOLEAN
        /\ dead \in BOOLEAN /\ stopping \in BOOLEAN
    BY DEF Init
  <2>4. /\ unsent \in [Streams -> Nat] /\ sGranted \in [Streams -> Nat]
        /\ sSent \in [Streams -> Nat] /\ sRecvWindow \in [Streams -> 0..Window]
        /\ sSendWindow \in [Streams -> Int] /\ sCredit \in [Streams -> Int]
        /\ wire \in [Streams -> {"none", "open", "ended", "reset", "illegal"}]
    BY <2>1 DEF Init
  <2>5. /\ maxStreams \in StreamLimits /\ goaway \in Nat \cup {NoGoaway}
        /\ recvWindow \in 0..Window /\ sendWindow \in Int /\ peerInit \in 0..MaxWindow
        /\ total \in Nat /\ rapidReset \in Nat /\ contCount \in Nat /\ outUsed \in Nat
        /\ budget \in Nat /\ credit \in Int /\ granted \in Nat /\ sent \in Nat
    BY <1>0, <2>2 DEF Init
  <2> QED BY <2>3, <2>4, <2>5 DEF Init, TypeOK
<1>2. Block /\ Fresh /\ Wire /\ Answered /\ Promise
  BY DEF Init, Block, Fresh, Wire, StreamLifecycle, Answered, Promise, Zero
<1>3. Counted
  <2>1. live \cup dispatched = {} /\ live = {} /\ total = 0
    BY DEF Init
  <2>2. Cardinality({}) = 0
    BY FS_EmptySet
  <2>3. maxStreams \in Nat /\ MaxRequests \in Nat
    BY <1>1, H2Assumption DEF TypeOK
  <2> QED BY <2>1, <2>2, <2>3 DEF Counted
<1>4. CreditKept
  BY H2Assumption DEF Init, CreditKept
<1>5. SendCredit
  BY H2Assumption DEF Init, SendCredit
<1> QED BY <1>1, <1>2, <1>3, <1>4, <1>5 DEF H2Inv

LEMMA InvStep == H2Inv /\ [Next]_vars => H2Inv'
<1> SUFFICES ASSUME H2Inv, [Next]_vars PROVE H2Inv'
  OBVIOUS
<1>1. /\ TypeOK /\ Block /\ Fresh /\ Wire /\ Answered /\ Counted /\ Promise
      /\ CreditKept /\ SendCredit
  BY DEF H2Inv
<1>2. TypeOK' /\ Block' /\ Fresh'
  BY <1>1, TypeStep, BlockStep, FreshStep
<1>3. Wire' /\ Answered'
  BY <1>1, WireStep
<1>4. Counted' /\ Promise'
  BY <1>1, CountedStep, PromiseStep
<1>5. CreditKept' /\ SendCredit'
  BY <1>1, CreditStep, SendStep
<1> QED BY <1>2, <1>3, <1>4, <1>5 DEF H2Inv

(* The inductive invariant holds in every reachable state. *)
THEOREM H2Invariant == Spec => []H2Inv
<1> QED BY InitInv, InvStep, PTL DEF Spec

(* Every variable keeps its type; in particular neither receive window is ever
   negative or above its initial size (recv_consume, h2.c:308-327). *)
THEOREM H2Types == Spec => []TypeOK
<1>1. H2Inv => TypeOK
  BY DEF H2Inv
<1> QED BY <1>1, H2Invariant, PTL

(* The windows h2.c enforces are the credit the peer counts, and leave room for a
   full frame, as long as there was no error. *)
THEOREM WindowsAreCredit == Spec => []CreditKept
<1>1. H2Inv => CreditKept
  BY DEF H2Inv
<1> QED BY <1>1, H2Invariant, PTL

(* Every stream is answered at most once and no frame follows its end or its reset,
   whatever frames the client sends (zh2_respond, q_rst, zh2_pump_). *)
THEOREM LifecycleLegal == Spec => []StreamLifecycle
<1>1. H2Inv => StreamLifecycle
  BY DEF H2Inv, Wire
<1> QED BY <1>1, H2Invariant, PTL

(* No stream above the identifier of our GOAWAY reaches the handler (q_goaway,
   h2_on_headers). *)
THEOREM GoawayIsHonest == Spec => []GoawayHonest
<1>1. H2Inv => GoawayHonest
  BY DEF H2Inv, Promise, GoawayHonest
<1> QED BY <1>1, H2Invariant, PTL

(* max_streams and max_requests_per_conn are kept, and what was dispatched stays in
   the table until its response has ended. *)
THEOREM LimitsAreKept == Spec => []LimitsHold
<1>1. H2Inv => LimitsHold
  <2> SUFFICES ASSUME H2Inv PROVE LimitsHold
    OBVIOUS
  <2>1. TypeOK /\ Counted /\ Answered
    BY DEF H2Inv
  <2>2. IsFiniteSet(live \cup dispatched)
    BY <2>1, H2Assumption, FS_Subset DEF TypeOK
  <2>3. Cardinality(dispatched) <= Cardinality(live \cup dispatched) /\ IsFiniteSet(dispatched)
    BY <2>2, FS_Subset
  <2>4. /\ Cardinality(dispatched) \in Nat /\ Cardinality(live \cup dispatched) \in Nat
        /\ MaxRequests \in Nat
    BY <2>2, <2>3, FS_CardinalityType, H2Assumption
  <2> QED BY <2>1, <2>3, <2>4 DEF LimitsHold, Counted, Answered
<1> QED BY <1>1, H2Invariant, PTL

(* zh2_pump_ never sends DATA that the peer's WINDOW_UPDATEs and SETTINGS have not
   allowed, on the connection or on a stream. *)
THEOREM SendsAreWithinCredit == Spec => SendsWithinCredit
<1> DEFINE Step ==
      /\ sent' # sent => sent' <= Window + granted
      /\ ~gotError => \A s \in Streams :
           sSent'[s] # sSent[s] => sSent'[s] <= peerInit + sGranted[s]
<1>1. ASSUME H2Inv, [Next]_vars PROVE [Step]_vars
  <2>0. TypeOK /\ Block /\ SendCredit
    BY <1>1 DEF H2Inv
  <2>1. CASE UNCHANGED sends
    BY <2>1
  <2>2. ASSUME NEW s \in Streams, Pump(s) PROVE Step
    <3> DEFINE n == ChunkOf(s)
    <3>1. n \in Int /\ n <= sSendWindow[s] /\ n <= sendWindow
      BY <2>0, ChunkFits
    <3>2. sent' = sent + n /\ sSent' = [sSent EXCEPT ![s] = @ + n] /\ s \in live
      BY <2>2 DEF Pump, Sendable
    <3>3. /\ sent \in Nat /\ granted \in Nat /\ Window \in Nat /\ sendWindow \in Int
          /\ sSent \in [Streams -> Nat] /\ sGranted \in [Streams -> Nat]
          /\ peerInit \in Nat /\ sSendWindow \in [Streams -> Int]
      BY <2>0, H2Assumption DEF TypeOK
    <3> HIDE DEF n
    <3>4. sent' <= Window + granted
      BY <2>0, <3>1, <3>2, <3>3 DEF SendCredit
    <3>5. ASSUME ~gotError, NEW t \in Streams, sSent'[t] # sSent[t]
          PROVE  sSent'[t] <= peerInit + sGranted[t]
      <4>1. t = s /\ sSent'[s] = sSent[s] + n
        BY <3>2, <3>3, <3>5
      <4>2. sSendWindow[s] = peerInit + sGranted[s] - sSent[s]
        BY <2>0, <3>2, <3>5 DEF SendCredit
      <4> QED BY <3>1, <3>3, <4>1, <4>2
    <3> QED BY <3>4, <3>5
  <2>3. CASE FrameStep
    <3> USE DEF Ordinary, Frame, AnyFrame
    <3>1. CASE \/ BadFrame \/ Ignored \/ OnContinuation \/ OnPing \/ OnGoaway
               \/ \E n \in {1, MaxWindow} : OnWindowUpdateConn(n)
               \/ \E v \in InitWindows : OnSettings(v)
      BY <2>1, <3>1 DEF BadFrame, Ignored, OnContinuation, OnPing, OnGoaway,
         OnWindowUpdateConn, OnSettings
    <3>2. ASSUME NEW s \in Streams,
                 \/ OnHeadersNew(s) \/ OnTrailers(s) \/ OnHeadersClosed(s) \/ OnRst(s)
                 \/ \E n \in {0, 1, MaxWindow} : OnWindowUpdate(s, n)
          PROVE  Step
      BY <2>1, <3>2 DEF OnHeadersNew, OnTrailers, OnHeadersClosed, OnRst, OnWindowUpdate
    <3>3. ASSUME NEW s \in Streams, NEW len \in 0..MaxFrame,
                 \/ OnDataClosed(s, len) \/ OnDataError(s, len) \/ OnDataRefused(s, len)
                 \/ \E end \in BOOLEAN : OnData(s, len, end)
          PROVE  Step
      BY <2>1, <3>3 DEF OnDataClosed, OnDataError, OnDataRefused, OnData
    <3> QED BY <2>3, <3>1, <3>2, <3>3 DEF FrameStep
  <2>4. CASE Next /\ ~FrameStep /\ ~\E s \in Streams : Pump(s)
    <3>1. UNCHANGED sends
      BY <2>4 DEF Next, HeadersUndecodable, HeadersTooLong, HeadersRefused, HeadersMalformed,
         HeadersDone, EndBlock, Dispatch, BeginStop, Poll, FeedReturn, Flush, Abort, feedVars
    <3> QED BY <2>1, <3>1
  <2>5. CASE UNCHANGED vars
    BY <2>5
  <2> QED BY <1>1, <2>2, <2>3, <2>4, <2>5 DEF Next
<1>2. H2Inv /\ [Next]_vars => [Step]_vars
  BY <1>1
<1> QED BY <1>2, H2Invariant, PTL DEF Spec, SendsWithinCredit
=============================================================================
