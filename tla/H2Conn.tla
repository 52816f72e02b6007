------------------------------- MODULE H2Conn -------------------------------
(***************************************************************************)
(* One HTTP/2 connection of the server (src/src/h2.c) driven by the event  *)
(* loop (conn_process and its helpers, src/src/http_server.c).             *)
(*                                                                         *)
(* The client sends any frame at any time, legal or not.  The output       *)
(* buffer is the amount of data in it; what each queued frame means to the *)
(* peer is kept in history variables: the life of each stream on the wire  *)
(* and, for both directions, the flow-control credit as the peer counts it *)
(* from the frames it has sent and been sent.  One iteration of the loop   *)
(* is  poll -> feed -> pump -> poll.                                       *)
(***************************************************************************)
EXTENDS Integers, FiniteSets

CONSTANTS
  Streams,       \* client stream identifiers (odd)
  StreamLimits,  \* values of zhs_limits.max_streams to consider
  MaxRequests,   \* zhs_limits.max_requests_per_conn
  Window,        \* 65535: every window's initial size
  MaxFrame,      \* 16384: the largest frame of either side
  MaxWindow,     \* 2^31 - 1
  MaxOut,        \* zhs_limits.max_out_bytes
  ContMax,       \* ZH2_CONT_MAX
  Bodies,        \* sizes of response bodies
  InitWindows,   \* values the client gives SETTINGS_INITIAL_WINDOW_SIZE
  FrameBudget    \* bound on the frames of the client, other than RST_STREAM

ASSUME H2Assumption ==
  /\ Streams \subseteq Nat \ {0} /\ IsFiniteSet(Streams)
  /\ MaxRequests \in Nat /\ Window \in Nat /\ MaxFrame \in Nat /\ MaxWindow \in Nat
  /\ MaxOut \in Nat /\ ContMax \in Nat /\ FrameBudget \in Nat
  /\ Bodies \subseteq Nat /\ StreamLimits \subseteq Nat
  /\ InitWindows \subseteq 0..MaxWindow    \* a larger value is an error, h2.c:713
  /\ 0 < MaxFrame /\ 2 * MaxFrame <= Window + 1 /\ Window <= MaxWindow

VARIABLES
  maxStreams,    \* zhs_limits.max_streams
  \* zh2_conn, h2.c:129-170
  needSettings, closing, goaway, peerGoaway, gotError,
  recvWindow, sendWindow, peerInit,
  live, lastId, total, rapidReset,
  hdrId, hdrRefuse, hdrTrailer, hdrEnd, contCount,
  \* zh2_stream, h2.c:107-127, by identifier
  gotHeaders, endRecv, sRecvWindow, sSendWindow, responded, unsent,
  \* conn, http_server.c:45-68, and the loop
  outUsed, wantClose, peerEof, dead, stopping, pc, cur, budget,
  \* history
  wire,          \* each stream as the peer sees it from our frames
  dispatched,    \* streams whose request reached the handler
  credit, sCredit,     \* what the client may still send, by its own count
  granted, sGranted,   \* what it has let us send beyond the initial window
  sent, sSent,         \* DATA we have sent
  cut                  \* streams the end of the connection cut short

goawayVars == <<closing, goaway, peerGoaway, gotError>>
table   == <<maxStreams, live, lastId, total, rapidReset>>
block   == <<hdrId, hdrRefuse, hdrTrailer, hdrEnd, contCount>>
streamIn  == <<gotHeaders, endRecv>>
streamOut == <<responded, unsent>>
recvVars  == <<recvWindow, sRecvWindow, credit, sCredit>>
grants  == <<sendWindow, sSendWindow, peerInit, granted, sGranted>>
sends   == <<sent, sSent>>
loop    == <<wantClose, peerEof, dead, stopping, cut>>
vars == <<needSettings, goawayVars, table, block, streamIn, streamOut, recvVars,
          grants, sends, loop, wire, dispatched, outUsed, pc, cur, budget>>

NoGoaway == -1
FrameHdr == 1                       \* the share of a frame header in `outUsed'
Zero == [s \in Streams |-> 0]
LeastOf(S) == CHOOSE n \in S : \A m \in S : n <= m

Init ==
  /\ maxStreams \in StreamLimits
  /\ needSettings = TRUE
  /\ closing = FALSE /\ goaway = NoGoaway /\ peerGoaway = FALSE /\ gotError = FALSE
  /\ recvWindow = Window /\ sendWindow = Window /\ peerInit = Window
  /\ live = {} /\ lastId = 0 /\ total = 0 /\ rapidReset = 0
  /\ hdrId = 0 /\ hdrRefuse = FALSE /\ hdrTrailer = FALSE /\ hdrEnd = FALSE
  /\ contCount = 0
  /\ gotHeaders = {} /\ endRecv = {} /\ responded = {} /\ unsent = Zero
  /\ sRecvWindow = Zero /\ sSendWindow = Zero
  /\ outUsed = FrameHdr             \* our SETTINGS
  /\ wantClose = FALSE /\ peerEof = FALSE /\ dead = FALSE /\ stopping = FALSE
  /\ pc = "poll" /\ cur = 0 /\ budget = FrameBudget
  /\ wire = [s \in Streams |-> "none"] /\ dispatched = {}
  /\ credit = Window /\ sCredit = Zero
  /\ granted = 0 /\ sGranted = Zero /\ sent = 0 /\ sSent = Zero /\ cut = {}

-----------------------------------------------------------------------------
(* Frames we queue, and the errors. *)

(* n more bytes in the output buffer.  How far it is past max_out_bytes makes no
   difference to anything. *)
Queue(n) == outUsed' = LeastOf({outUsed + n, MaxOut + 1})

(* q_goaway, behind n bytes of other frames: once, with the highest identifier seen
   so far. *)
QueueGoaway(last, n) ==
  /\ goaway' = IF goaway = NoGoaway THEN last ELSE goaway
  /\ Queue(n + IF goaway = NoGoaway THEN FrameHdr ELSE 0)

(* conn_error. *)
ConnErrorAfter(n) ==
  /\ QueueGoaway(lastId, n)
  /\ gotError' = TRUE /\ closing' = TRUE
  /\ UNCHANGED peerGoaway

ConnError == ConnErrorAfter(0)

(* What a frame of ours does to a stream in one of the states it is legal in. *)
OnWire(s, legal, new) ==
  wire' = [wire EXCEPT ![s] = IF @ \in legal THEN new ELSE "illegal"]

(* q_rst ends a stream that has not ended. *)
QueueRst(s) == OnWire(s, {"none", "open"}, "reset") /\ Queue(FrameHdr)

(* Mutant: the stream stays in the table after its RST_STREAM. *)
RstStream_KeepsStream(s) == QueueRst(s) /\ UNCHANGED live

(* rst_stream: the frame, and the stream leaves the table. *)
RstStream(s) == QueueRst(s) /\ live' = live \ {s}

-----------------------------------------------------------------------------
(* zh2_feed_ and the frame handlers. *)

(* A complete frame of the client is next. *)
AnyFrame == pc = "feed" /\ ~gotError /\ UNCHANGED <<loop, sends>>

(* One of those that are bounded by FrameBudget. *)
Frame == AnyFrame /\ budget > 0 /\ budget' = budget - 1

(* Neither the preface rule nor a header block in progress stands against it. *)
InSession == ~needSettings /\ hdrId = 0 /\ UNCHANGED needSettings
Ordinary == Frame /\ InSession

(* Everything that is a connection error whatever the state of the streams: a bad
   length or padding, stream 0, a push, another frame inside a header block, a
   CONTINUATION outside one, no SETTINGS at the start, a flood. *)
BadFrame ==
  /\ Frame /\ ConnError
  /\ UNCHANGED <<needSettings, table, block, streamIn, streamOut, recvVars, grants,
                 wire, dispatched, pc, cur>>

(* Mutant: the cap counts the stream being opened as already there. *)
Refused_Late == closing \/ peerGoaway \/ Cardinality(live) > maxStreams

(* Mutant: a connection that has sent its GOAWAY still opens streams. *)
Refused_ForgetsClosing == peerGoaway \/ Cardinality(live) >= maxStreams

(* A new stream is refused while winding down and at MAX_CONCURRENT_STREAMS. *)
Refused == closing \/ peerGoaway \/ Cardinality(live) >= maxStreams

(* The HEADERS frame starts a block, which it or a CONTINUATION ends. *)
BeginBlock(s, refuse, trailer) ==
  /\ hdrId' = s /\ hdrRefuse' = refuse /\ hdrTrailer' = trailer
  /\ hdrEnd' \in BOOLEAN /\ contCount' = 0
  /\ pc' \in {"feed", "headers"}

(* h2_on_headers for a new stream. *)
OnHeadersNew(s) ==
  /\ Ordinary /\ s > lastId
  /\ lastId' = s /\ total' = total + 1
  /\ LET capHit == ~closing /\ ~peerGoaway /\ total + 1 > MaxRequests
         refuse == Refused \/ capHit IN
     /\ IF capHit THEN QueueGoaway(s, 0) /\ closing' = TRUE
                  ELSE UNCHANGED <<goaway, outUsed, closing>>
     /\ BeginBlock(s, refuse, FALSE)
     /\ live' = IF refuse THEN live ELSE live \cup {s}
     /\ sSendWindow' = IF refuse THEN sSendWindow
                       ELSE [sSendWindow EXCEPT ![s] = peerInit]
     /\ sRecvWindow' = IF refuse THEN sRecvWindow
                       ELSE [sRecvWindow EXCEPT ![s] = Window]
  /\ sCredit' = [sCredit EXCEPT ![s] = Window]
  /\ UNCHANGED <<maxStreams, peerGoaway, gotError, rapidReset, streamIn, streamOut,
                 recvWindow, credit, sendWindow, peerInit, granted, sGranted,
                 wire, dispatched, cur>>

(* h2_on_headers for a stream of the table: trailers. *)
OnTrailers(s) ==
  /\ Ordinary /\ s \in live
  /\ \/ /\ s \in gotHeaders \ endRecv
        /\ BeginBlock(s, FALSE, TRUE) /\ UNCHANGED <<goawayVars, outUsed>>
     \/ /\ s \notin gotHeaders \ endRecv
        /\ ConnError /\ UNCHANGED <<block, pc>>
  /\ UNCHANGED <<table, streamIn, streamOut, recvVars, grants, wire, dispatched,
                 cur>>

(* h2_on_headers for an identifier that was used before. *)
OnHeadersClosed(s) ==
  /\ Ordinary /\ s <= lastId /\ s \notin live /\ ConnError
  /\ UNCHANGED <<table, block, streamIn, streamOut, recvVars, grants, wire,
                 dispatched, pc, cur>>

(* h2_on_continuation. *)
OnContinuation ==
  /\ Frame /\ hdrId # 0
  /\ contCount' = contCount + 1
  /\ IF contCount' > ContMax THEN ConnError /\ UNCHANGED pc
     ELSE pc' \in {"feed", "headers"} /\ UNCHANGED <<goawayVars, outUsed>>
  /\ UNCHANGED <<needSettings, table, hdrId, hdrRefuse, hdrTrailer, hdrEnd,
                 streamIn, streamOut, recvVars, grants, wire, dispatched, cur>>

(* h2_finish_headers. *)
EndBlock ==
  /\ pc = "headers"
  /\ hdrId' = 0 /\ hdrRefuse' = FALSE /\ hdrTrailer' = FALSE /\ hdrEnd' = FALSE
  /\ contCount' = 0
  /\ UNCHANGED <<needSettings, maxStreams, lastId, total, rapidReset, streamOut, recvVars,
                 grants, sends, loop, dispatched, budget>>

(* The block is no HPACK: COMPRESSION_ERROR. *)
HeadersUndecodable ==
  /\ EndBlock /\ ConnError /\ pc' = "feed"
  /\ UNCHANGED <<live, streamIn, wire, cur>>

(* hdr_accumulate: the block outgrows max_header_bytes before it ends. *)
HeadersTooLong ==
  /\ pc = "headers" /\ ConnError /\ pc' = "feed"
  /\ UNCHANGED <<needSettings, table, block, streamIn, streamOut, recvVars, grants,
                 sends, loop, wire, dispatched, cur, budget>>

HeadersRefused ==
  /\ EndBlock /\ hdrRefuse /\ QueueRst(hdrId) /\ pc' = "feed"
  /\ UNCHANGED <<goawayVars, live, streamIn, cur>>

(* A malformed request, or trailers that do not end the stream. *)
HeadersMalformed ==
  /\ EndBlock /\ ~hdrRefuse /\ RstStream(hdrId) /\ pc' = "feed"
  /\ UNCHANGED <<goawayVars, streamIn, cur>>

HeadersDone ==
  /\ EndBlock /\ ~hdrRefuse /\ (hdrTrailer => hdrEnd)
  /\ gotHeaders' = gotHeaders \cup {hdrId}
  /\ endRecv' = IF hdrEnd THEN endRecv \cup {hdrId} ELSE endRecv
  /\ pc' = IF hdrEnd THEN "dispatch" ELSE "feed"
  /\ cur' = IF hdrEnd THEN hdrId ELSE cur
  /\ UNCHANGED <<goawayVars, live, wire, outUsed>>

(* zh2_respond: HEADERS, with END_STREAM if there is no body; else the body waits for
   zh2_pump_. *)
Respond(s, b) ==
  /\ OnWire(s, {"none"}, IF b = 0 THEN "ended" ELSE "open")
  /\ responded' = responded \cup {s}
  /\ unsent' = [unsent EXCEPT ![s] = b]
  /\ Queue(FrameHdr)

(* h2_dispatch: the handler runs and answers (or zhs_dispatch_ does, with a 500); a
   stream that is over then leaves the table. *)
Dispatch ==
  /\ pc = "dispatch"
  /\ \E b \in Bodies : /\ Respond(cur, b)
                      /\ live' = IF b = 0 THEN live \ {cur} ELSE live
  /\ dispatched' = dispatched \cup {cur}
  /\ pc' = "feed" /\ cur' = 0
  /\ UNCHANGED <<needSettings, goawayVars, maxStreams, lastId, total, rapidReset,
                 block, streamIn, recvVars, grants, sends, loop, budget>>

(* Mutant: only streams opened later get the new window. *)
Retarget_OnlyNew(v, T) == UNCHANGED sSendWindow

(* The windows of the streams of T are moved by the change to v. *)
Retarget(v, T) ==
  sSendWindow' = [s \in Streams |-> IF s \in T THEN sSendWindow[s] + v - peerInit
                                    ELSE sSendWindow[s]]

(* h2_on_settings: a new INITIAL_WINDOW_SIZE moves every stream's window by the
   difference, below zero if need be, and the frame is acknowledged.  A window that
   would pass the maximum stops the loop over the streams where it is. *)
OnSettings(v) ==
  /\ Frame /\ hdrId = 0 /\ needSettings' = FALSE
  /\ LET Over(T) == {s \in T : sSendWindow[s] + v - peerInit > MaxWindow} IN
     \/ /\ Over(live) = {} /\ Retarget(v, live) /\ peerInit' = v
        /\ Queue(FrameHdr) /\ UNCHANGED goawayVars
     \/ \E T \in SUBSET live :
          /\ Cardinality(Over(T)) = 1 /\ Retarget(v, T)
          /\ ConnError /\ UNCHANGED peerInit
  /\ UNCHANGED <<table, block, streamIn, streamOut, recvVars, sendWindow, granted,
                 sGranted, wire, dispatched, pc, cur>>

(* A frame that is accepted and changes nothing: an acknowledgement of SETTINGS
   (which may be the first frame) or PING, PRIORITY, an unknown type, RST_STREAM or
   WINDOW_UPDATE for a stream that is over.  It needs no bound. *)
Ignored ==
  /\ AnyFrame /\ hdrId = 0 /\ needSettings' = FALSE
  /\ UNCHANGED <<budget, goawayVars, table, block, streamIn, streamOut,
                 recvVars, grants, wire, dispatched, outUsed, pc, cur>>

(* Mutant: the increment is worked out before the bytes are subtracted. *)
Increment_TooEarly(w, len) ==
  IF w - len <= Window - MaxFrame THEN Window - w ELSE 0

(* recv_consume: what WINDOW_UPDATE gives back when len bytes come out of w. *)
Increment(w, len) ==
  IF w - len <= Window - MaxFrame THEN Window - (w - len) ELSE 0

(* ... and the window the code keeps. *)
Consumed(w, len) == IF w - len <= Window - MaxFrame THEN Window ELSE w - len

UpdateFrames(w, len) == IF Increment(w, len) > 0 THEN FrameHdr ELSE 0

ConsumeConn(len) ==
  /\ recvWindow' = Consumed(recvWindow, len)
  /\ credit' = credit - len + Increment(recvWindow, len)

(* DATA for a stream that is not in the table: the connection's window is topped up
   all the same. *)
OnDataClosed(s, len) ==
  /\ Ordinary /\ s \notin live /\ len <= recvWindow
  /\ ConsumeConn(len)
  /\ LET upd == UpdateFrames(recvWindow, len) IN
     IF s <= lastId THEN Queue(upd) /\ UNCHANGED goawayVars
                    ELSE ConnErrorAfter(upd)
  /\ UNCHANGED <<table, block, streamIn, streamOut, sRecvWindow, sCredit, grants,
                 wire, dispatched, pc, cur>>

(* DATA for a stream that still has its table entry but may not send any, or past
   the connection's window. *)
OnDataError(s, len) ==
  /\ Ordinary
  /\ len > recvWindow \/ (s \in live /\ s \notin gotHeaders \ endRecv)
  /\ ConnError
  /\ UNCHANGED <<table, block, streamIn, streamOut, recvVars, grants, wire,
                 dispatched, pc, cur>>

(* DATA past the stream's window or past max_body_bytes: the stream is reset. *)
OnDataRefused(s, len) ==
  /\ Ordinary /\ len <= recvWindow /\ s \in live \cap (gotHeaders \ endRecv)
  /\ OnWire(s, {"none"}, "reset") /\ live' = live \ {s}
  /\ Queue(FrameHdr + UpdateFrames(recvWindow, len))
  /\ ConsumeConn(len)
  /\ UNCHANGED <<goawayVars, maxStreams, lastId, total, rapidReset, block, streamIn,
                 streamOut, sRecvWindow, sCredit, grants, dispatched, pc, cur>>

(* DATA that is taken; the end of the stream hands the request over. *)
OnData(s, len, end) ==
  /\ Ordinary /\ len <= recvWindow /\ s \in live \cap (gotHeaders \ endRecv)
  /\ len <= sRecvWindow[s]
  /\ ConsumeConn(len)
  /\ Queue(UpdateFrames(recvWindow, len)
           + IF end THEN 0 ELSE UpdateFrames(sRecvWindow[s], len))
  /\ IF end THEN /\ endRecv' = endRecv \cup {s}
                 /\ pc' = "dispatch" /\ cur' = s
                 /\ UNCHANGED <<sRecvWindow, sCredit>>
     ELSE /\ sRecvWindow' = [sRecvWindow EXCEPT ![s] = Consumed(@, len)]
          /\ sCredit' = [sCredit EXCEPT ![s] = @ - len + Increment(sRecvWindow[s], len)]
          /\ UNCHANGED <<endRecv, pc, cur>>
  /\ UNCHANGED <<goawayVars, table, block, gotHeaders, streamOut, grants, wire,
                 dispatched>>

(* h2_on_rst_stream: resets of streams not yet answered are counted, and more than
   max_streams of them are a flood. *)
OnRst(s) ==
  /\ AnyFrame /\ InSession /\ s \in live /\ UNCHANGED budget
  /\ rapidReset' = IF s \in responded THEN rapidReset ELSE rapidReset + 1
  /\ live' = live \ {s}
  /\ wire' = [wire EXCEPT ![s] = "reset"]
  /\ IF rapidReset' > maxStreams THEN ConnError ELSE UNCHANGED <<goawayVars, outUsed>>
  /\ UNCHANGED <<maxStreams, lastId, total, block, streamIn, streamOut, recvVars,
                 grants, dispatched, pc, cur>>

(* h2_on_ping. *)
OnPing ==
  /\ Ordinary
  /\ IF outUsed > MaxOut THEN ConnError
     ELSE Queue(FrameHdr) /\ UNCHANGED goawayVars
  /\ UNCHANGED <<table, block, streamIn, streamOut, recvVars, grants, wire,
                 dispatched, pc, cur>>

(* h2_on_window_update for the connection. *)
OnWindowUpdateConn(n) ==
  /\ Ordinary
  /\ sendWindow' = sendWindow + n /\ granted' = granted + n
  /\ IF sendWindow' > MaxWindow THEN ConnError ELSE UNCHANGED <<goawayVars, outUsed>>
  /\ UNCHANGED <<table, block, streamIn, streamOut, recvVars, sSendWindow, peerInit,
                 sGranted, wire, dispatched, pc, cur>>

(* h2_on_window_update for a stream of the table; past 2^31 - 1 it is reset. *)
OnWindowUpdate(s, n) ==
  /\ Ordinary /\ s \in live
  /\ sSendWindow' = [sSendWindow EXCEPT ![s] = @ + n]
  /\ sGranted' = [sGranted EXCEPT ![s] = @ + n]
  /\ IF n = 0 \/ sSendWindow'[s] > MaxWindow THEN RstStream(s)
     ELSE UNCHANGED <<wire, live, outUsed>>
  /\ UNCHANGED <<goawayVars, maxStreams, lastId, total, rapidReset, block, streamIn,
                 streamOut, recvVars, sendWindow, peerInit, granted, dispatched, pc,
                 cur>>

(* h2_on_goaway. *)
OnGoaway ==
  /\ Ordinary /\ peerGoaway' = TRUE
  /\ UNCHANGED <<closing, goaway, gotError, table, block, streamIn, streamOut,
                 recvVars, grants, wire, dispatched, outUsed, pc, cur>>

-----------------------------------------------------------------------------
(* conn_process and the rest of an iteration of the event loop. *)

feedVars == <<needSettings, goawayVars, table, block, streamIn, streamOut, recvVars,
              grants, sends, wire, dispatched, outUsed, cur>>

(* begin_stop reaches the connection through zh2_graceful_. *)
BeginStop ==
  /\ pc = "poll" /\ ~stopping
  /\ stopping' = TRUE
  /\ QueueGoaway(lastId, 0) /\ closing' = TRUE
  /\ UNCHANGED <<peerGoaway, gotError, needSettings, table, block, streamIn,
                 streamOut, recvVars, grants, sends, wire, dispatched, wantClose,
                 peerEof, dead, cut, pc, cur, budget>>

(* zh2_feed_ returns; a connection that is closing for any reason is to be closed
   once its output is gone. *)
Fed ==
  /\ wantClose' = (wantClose \/ closing \/ gotError)
  /\ pc' = "pump"

(* Every connection is processed in every iteration: there is input to read (which
   nothing looks at after an error), or the peer has closed its side, or something
   else woke the loop. *)
Poll ==
  /\ pc = "poll"
  /\ \/ ~peerEof /\ ~gotError /\ pc' = "feed" /\ UNCHANGED <<peerEof, wantClose>>
     \/ peerEof' = TRUE /\ Fed
     \/ UNCHANGED peerEof /\ Fed
  /\ UNCHANGED <<feedVars, dead, stopping, cut, budget>>

(* zh2_feed_ runs out of complete frames. *)
FeedReturn ==
  /\ pc = "feed" /\ Fed
  /\ UNCHANGED <<feedVars, peerEof, dead, stopping, cut, budget>>

(* Mutant: the frame is as long as the windows allow. *)
ChunkOf_PastTheEnd(s) ==
  LeastOf({sSendWindow[s], sendWindow, MaxFrame, MaxOut - outUsed - FrameHdr})

(* The next DATA frame of a stream: what is left, within both windows, the largest
   frame and the room in the output buffer. *)
ChunkOf(s) ==
  LeastOf({unsent[s], sSendWindow[s], sendWindow, MaxFrame,
           MaxOut - outUsed - FrameHdr})

Sendable == {s \in live \cap responded : ChunkOf(s) > 0}

(* One frame of zh2_pump_; the order of the table, which removals shuffle, is left
   open.  The last one ends the stream. *)
Pump(s) ==
  /\ pc = "pump" /\ s \in Sendable
  /\ LET n == ChunkOf(s) IN
     /\ unsent' = [unsent EXCEPT ![s] = @ - n]
     /\ sSendWindow' = [sSendWindow EXCEPT ![s] = @ - n]
     /\ sendWindow' = sendWindow - n
     /\ Queue(FrameHdr + n)
     /\ sent' = sent + n /\ sSent' = [sSent EXCEPT ![s] = @ + n]
     /\ OnWire(s, {"open"}, IF unsent[s] = n THEN "ended" ELSE "open")
     /\ live' = IF unsent[s] = n THEN live \ {s} ELSE live
  /\ UNCHANGED <<needSettings, goawayVars, maxStreams, lastId, total, rapidReset,
                 block, streamIn, responded, recvVars, peerInit, granted, sGranted,
                 loop, dispatched, pc, cur, budget>>

(* zh2_idle_ and conn_drained. *)
Drained == outUsed = 0 /\ (gotError \/ (hdrId = 0 /\ live = {}))

(* zh2_pump_ has nothing left to move: conn_flush writes what the socket takes
   (nothing, some or all of it), and then come the close decisions and, when the
   server is stopping, the drain bookkeeping. *)
Flush ==
  /\ pc = "pump" /\ Sendable = {}
  /\ outUsed' \in {outUsed, outUsed \div 2, 0}
  /\ LET closed == outUsed' = 0 /\ (wantClose \/ peerEof) IN
     /\ dead' = (closed \/ (stopping /\ Drained'))
     /\ cut' = IF closed /\ ~peerEof /\ ~gotError THEN live ELSE cut
  /\ wantClose' = (wantClose \/ peerEof)
  /\ pc' = IF dead' THEN "end" ELSE "poll"
  /\ UNCHANGED <<needSettings, goawayVars, table, block, streamIn, streamOut,
                 recvVars, grants, sends, wire, dispatched, peerEof, stopping, cur,
                 budget>>

(* zh2_feed_ runs out of memory, the write fails, or a deadline passes. *)
Abort ==
  /\ pc = "feed" \/ (pc = "pump" /\ Sendable = {})
  /\ dead' = TRUE /\ pc' = "end"
  /\ UNCHANGED <<feedVars, wantClose, peerEof, stopping, cut, budget>>

-----------------------------------------------------------------------------
FrameStep ==
  \/ BadFrame \/ Ignored \/ OnContinuation \/ OnPing \/ OnGoaway
  \/ \E s \in Streams :
       \/ OnHeadersNew(s) \/ OnTrailers(s) \/ OnHeadersClosed(s) \/ OnRst(s)
       \/ \E len \in 0..MaxFrame :
            \/ OnDataClosed(s, len) \/ OnDataError(s, len) \/ OnDataRefused(s, len)
            \/ \E end \in BOOLEAN : OnData(s, len, end)
       \/ \E n \in {0, 1, MaxWindow} : OnWindowUpdate(s, n)
  \/ \E n \in {1, MaxWindow} : OnWindowUpdateConn(n)
  \/ \E v \in InitWindows : OnSettings(v)

Next ==
  \/ FrameStep
  \/ HeadersUndecodable \/ HeadersTooLong \/ HeadersRefused \/ HeadersMalformed
  \/ HeadersDone \/ Dispatch
  \/ BeginStop \/ Poll \/ FeedReturn \/ (\E s \in Streams : Pump(s))
  \/ Flush \/ Abort

Spec == Init /\ [][Next]_vars

-----------------------------------------------------------------------------
(* What must hold. *)

(* Every variable keeps its type; the send windows may go below zero. *)
TypeOK ==
  /\ maxStreams \in StreamLimits
  /\ needSettings \in BOOLEAN /\ closing \in BOOLEAN /\ peerGoaway \in BOOLEAN
  /\ gotError \in BOOLEAN /\ goaway \in Nat \cup {NoGoaway}
  /\ recvWindow \in 0..Window /\ sendWindow \in Int /\ peerInit \in 0..MaxWindow
  /\ live \subseteq Streams /\ lastId \in Streams \cup {0}
  /\ total \in Nat /\ rapidReset \in Nat
  /\ hdrId \in Streams \cup {0} /\ hdrRefuse \in BOOLEAN /\ hdrTrailer \in BOOLEAN
  /\ hdrEnd \in BOOLEAN /\ contCount \in Nat
  /\ gotHeaders \subseteq Streams /\ endRecv \subseteq Streams
  /\ sRecvWindow \in [Streams -> 0..Window] /\ sSendWindow \in [Streams -> Int]
  /\ responded \subseteq Streams /\ unsent \in [Streams -> Nat]
  /\ outUsed \in Nat /\ wantClose \in BOOLEAN /\ peerEof \in BOOLEAN
  /\ dead \in BOOLEAN /\ stopping \in BOOLEAN
  /\ pc \in {"poll", "feed", "headers", "dispatch", "pump", "end"}
  /\ cur \in Streams \cup {0} /\ budget \in Nat
  /\ wire \in [Streams -> {"none", "open", "ended", "reset", "illegal"}]
  /\ dispatched \subseteq Streams /\ cut \subseteq Streams
  /\ credit \in Int /\ sCredit \in [Streams -> Int]
  /\ granted \in Nat /\ sent \in Nat
  /\ sGranted \in [Streams -> Nat] /\ sSent \in [Streams -> Nat]

(* Flow control as the peer counts it: no DATA leaves that its WINDOW_UPDATEs and its
   SETTINGS, in the order we were sent them, have not allowed. *)
SendsWithinCredit ==
  [][/\ sent' # sent => sent' <= Window + granted
     /\ ~gotError => \A s \in Streams :
          sSent'[s] # sSent[s] => sSent'[s] <= peerInit + sGranted[s]]_vars

(* The window we enforce is the credit the peer believes it has, and there is always
   room for a full frame: a peer that obeys flow control never meets an error of it. *)
CreditKept ==
  ~gotError =>
    /\ recvWindow = credit /\ recvWindow >= MaxFrame
    /\ \A s \in live \ endRecv :
         sRecvWindow[s] = sCredit[s] /\ sRecvWindow[s] >= MaxFrame

(* On the wire every stream is answered at most once, and nothing follows its end or
   its reset. *)
StreamLifecycle == \A s \in Streams : wire[s] # "illegal"

(* A GOAWAY tells the truth: a stream above the identifier it carries, which the peer
   will retry elsewhere, is never handled. *)
GoawayHonest == goaway # NoGoaway => \A s \in dispatched : s <= goaway

(* The limits on streams, and what the handler has seen is in the table until its
   response has ended. *)
LimitsHold ==
  /\ Cardinality(live) <= maxStreams
  /\ Cardinality(dispatched) <= MaxRequests
  /\ \A s \in dispatched : s \in live \/ wire[s] \in {"ended", "reset"}

(* h2.c:1040 and http_internal.h:288: a connection that is closing without an error
   finishes the streams in flight first. *)
StreamsFinish == cut \cap dispatched = {}

(* http_internal.h:293-294: zh2_pump_ is called whenever the output drains, so the
   loop never sleeps on an empty buffer with DATA that may be sent. *)
NoStall == pc = "poll" /\ outUsed = 0 /\ ~wantClose => Sendable = {}

=============================================================================
