------------------------------- MODULE H1Conn -------------------------------
(***************************************************************************)
(* One HTTP/1.1 connection of the server (src/src/h1.c) driven by the      *)
(* event loop (conn_process and its helpers, src/src/http_server.c).       *)
(*                                                                         *)
(* The client's byte stream is a sequence of tokens, one for each piece of *)
(* input the parser treats as a unit (part of a request line, the rest of  *)
(* it, a header block, a unit of body, a chunk-size line ...); a read may  *)
(* stop between any two of them.  The request shapes, and whether a token  *)
(* is malformed, are chosen in Init.  One iteration of the loop is         *)
(*   poll -> feed (<-> dispatch) -> flush -> sweep -> poll                 *)
(* and a connection the loop has freed rests in pc = "gone".               *)
(***************************************************************************)
EXTENDS Integers, Sequences, FiniteSets, SequencesExt

CONSTANTS NumRequests,    \* requests in the client's stream
          Shapes,         \* the shapes each of them may have
          MaxRequests,    \* zhs_limits.max_requests_per_conn
          MaxRead         \* tokens one zcio_read may return

Framings == {"none", "cl", "chunked"}
Kinds == {"line0", "line", "head", "data", "size", "crlf", "last", "trailer"}

ASSUME ShapesAssumption ==
  /\ NumRequests \in Nat \ {0}
  /\ \A r \in 1..NumRequests : \A s \in Shapes[r] :
       /\ s.framing \in Framings
       /\ s.body \in Seq(Nat)                     \* length, or chunk sizes
       /\ s.framing = "cl" => Len(s.body) = 1
       /\ {s.close, s.ws} \subseteq BOOLEAN
       /\ s.bad \in Kinds \cup {"ok"}
  /\ MaxRequests \in Nat \ {0}
  /\ MaxRead \in Nat \ {0}

VARIABLES
  shapes,      \* the shape of each request of the stream
  unread,      \* tokens the server has not read from the socket yet
  redirect,    \* ZH1_F_REDIRECT: a connection of the redirect listener
  \* conn, http_server.c:45-68
  proto, inb, out, wantClose, peerEof, dead, detached, timingHead,
  \* zh1_conn, h1.c:48-69
  st, receiving, keepAlive, graceful, closeAfter, reqCount, remaining,
  req, body, responded,
  \* the loop
  stopping, pc,
  \* history: handler calls, repeated calls, bytes at the client, why it ended
  handled, again, got, why

inputVars == <<shapes, redirect>>
connVars  == <<proto, peerEof, detached>>
assembly  == <<req, body, responded, remaining, keepAlive, receiving>>
history   == <<handled, again>>
vars == <<inputVars, unread, connVars, inb, out, wantClose, dead, timingHead, st,
          assembly, graceful, closeAfter, reqCount, stopping, pc, history,
          got, why>>

-----------------------------------------------------------------------------
(* The client's stream. *)

Tok(k, r, n) == [kind |-> k, req |-> r, size |-> n]

Data(r, n) == [i \in 1..n |-> Tok("data", r, i)]

Chunk(r, n) == <<Tok("size", r, n)>> \o Data(r, n) \o <<Tok("crlf", r, 0)>>

Chunks(r, s) == [i \in 1..Len(s.body) |-> Chunk(r, s.body[i])]

BodyTokens(r, s) ==
  CASE s.framing = "none"    -> <<>>
    [] s.framing = "cl"      -> Data(r, s.body[1])
    [] s.framing = "chunked" ->
         FlattenSeq(Chunks(r, s))
           \o <<Tok("last", r, 0), Tok("trailer", r, 0)>>

TokensOf(r, s) ==
  <<Tok("line0", r, 0), Tok("line", r, 0), Tok("head", r, 0)>> \o BodyTokens(r, s)

Stream(sh) == FlattenSeq([r \in 1..NumRequests |-> TokensOf(r, sh[r])])

(* The body a request carries: the announced units, or the payload of its chunks. *)
BodyOf(r, s) ==
  CASE s.framing = "none"    -> <<>>
    [] s.framing = "cl"      -> Data(r, s.body[1])
    [] s.framing = "chunked" ->
         FlattenSeq([i \in 1..Len(s.body) |-> Data(r, s.body[i])])

Malformed(t) == shapes[t.req].bad = t.kind

Response(k, r, c) == [kind |-> k, req |-> r, close |-> c]

-----------------------------------------------------------------------------
Init ==
  /\ shapes \in [1..NumRequests -> UNION {Shapes[r] : r \in 1..NumRequests}]
  /\ \A r \in 1..NumRequests : shapes[r] \in Shapes[r]
  /\ unread = Stream(shapes)
  /\ redirect \in BOOLEAN
  /\ proto \in IF redirect THEN {"h1"} ELSE {"tls", "unknown"}
  /\ inb = <<>> /\ out = <<>>
  /\ wantClose = FALSE /\ peerEof = FALSE /\ dead = FALSE /\ detached = FALSE
  /\ timingHead = FALSE
  /\ st = "reqline" /\ receiving = FALSE /\ keepAlive = FALSE
  /\ graceful = FALSE /\ closeAfter = FALSE /\ reqCount = 0 /\ remaining = 0
  /\ req = 0 /\ body = <<>> /\ responded = FALSE
  /\ stopping = FALSE /\ pc = "poll"
  /\ handled = <<>> /\ again = {} /\ got = <<>> /\ why = "open"

-----------------------------------------------------------------------------
(* The start of an iteration: poll() returns, the socket may be read. *)

(* begin_stop, for this connection. *)
BeginStop ==
  /\ pc = "poll" /\ ~stopping
  /\ stopping' = TRUE
  /\ graceful' = (proto = "h1")
  /\ UNCHANGED <<inputVars, unread, connVars, inb, out, wantClose, dead,
                 timingHead, st, assembly, closeAfter, reqCount, pc, history, got,
                 why>>

(* k = 0: no POLLIN, or WOULDBLOCK; the connection is processed all the same.
   POLLERR may come with POLLIN. *)
PollRead ==
  /\ pc = "poll" /\ proto # "tls"
  /\ \E k \in 0 .. (IF MaxRead < Len(unread) THEN MaxRead ELSE Len(unread)) :
       /\ peerEof => k = 0
       /\ inb' = inb \o SubSeq(unread, 1, k)
       /\ unread' = SubSeq(unread, k + 1, Len(unread))
  /\ peerEof' \in {peerEof, TRUE}
  /\ pc' = "feed"
  /\ UNCHANGED <<inputVars, proto, detached, out, wantClose, dead, timingHead, st,
                 assembly, graceful, closeAfter, reqCount, stopping, history,
                 got, why>>

(* End of stream, a read error, POLLERR or POLLNVAL. *)
PollEof ==
  /\ pc = "poll"
  /\ peerEof' = TRUE
  /\ pc' = IF proto = "tls" THEN "flush" ELSE "feed"
  /\ UNCHANGED <<inputVars, unread, proto, detached, inb, out, wantClose, dead,
                 timingHead, st, assembly, graceful, closeAfter, reqCount,
                 stopping, history, got, why>>

(* zcio_tls_handshake: it needs more flights, ends, or fails. *)
PollHandshake ==
  /\ pc = "poll" /\ proto = "tls"
  /\ \/ pc' = "flush" /\ UNCHANGED <<proto, dead, why>>
     \/ proto' = "h1" /\ pc' = "feed" /\ UNCHANGED <<dead, why>>
     \/ dead' = TRUE /\ why' = "error" /\ pc' = "flush" /\ UNCHANGED proto
  /\ UNCHANGED <<inputVars, unread, peerEof, detached, inb, out, wantClose,
                 timingHead, st, assembly, graceful, closeAfter, reqCount,
                 stopping, history, got>>

-----------------------------------------------------------------------------
(* conn_feed and zh1_feed_: one action per parser state. *)

(* conn_update_head_timing. *)
UpdateHeadTiming == timingHead' = receiving'

(* zh1_feed_ returns to conn_feed: ZH1_CLOSE when close, else NEED_MORE or
   DISPATCHED. *)
LeaveFeed(close) ==
  /\ wantClose' = (wantClose \/ close)
  /\ pc' = "flush"
  /\ UpdateHeadTiming

Continue == pc' = "feed" /\ UNCHANGED <<wantClose, timingHead>>

NoOutput == UNCHANGED <<out, closeAfter>>

(* h1_emit_simple and h1_redirect: a response of the server's own, then close. *)
EmitSimple(kind) ==
  /\ out' = Append(out, Response(kind, req', TRUE))
  /\ closeAfter' = TRUE
  /\ st' = "dead"
  /\ LeaveFeed(TRUE)

feedRest == <<inputVars, unread, connVars, dead, graceful, reqCount, stopping,
              history, got, why>>

(* conn_select_proto_plain.  The start of a request line may still be a prefix
   of the HTTP/2 preface, and then the connection waits for more. *)
Sniff ==
  /\ pc = "feed" /\ proto = "unknown"
  /\ \/ /\ Len(inb) <= 1
        /\ pc' = "flush" /\ timingHead' = FALSE /\ proto' = proto
     \/ /\ inb # <<>>
        /\ proto' = "h1" /\ UNCHANGED <<pc, timingHead>>
  /\ UNCHANGED <<inputVars, unread, peerEof, detached, inb, out, wantClose,
                 dead, st, assembly, graceful, closeAfter, reqCount, stopping,
                 history, got, why>>

Feeding(s) == pc = "feed" /\ proto = "h1" /\ st = s

(* Mutant: receiving is raised only once the whole request line is there. *)
NoteFirstByte_Late == receiving' = (receiving \/ Len(inb) > 1)

NoteFirstByte == receiving' = (receiving \/ inb # <<>>)

(* h1_reqline.  The bytes of an incomplete line stay in the buffer. *)
FeedReqLine ==
  /\ Feeding("reqline")
  /\ NoteFirstByte
  /\ req' = IF inb = <<>> THEN req ELSE Head(inb).req
  /\ LET bad == \E i \in DOMAIN inb : i <= 2 /\ Malformed(inb[i]) IN
     \/ /\ bad
        /\ EmitSimple("error") /\ UNCHANGED inb
     \/ /\ ~bad /\ Len(inb) <= 1
        /\ LeaveFeed(FALSE) /\ NoOutput /\ UNCHANGED <<inb, st>>
     \/ /\ ~bad /\ Len(inb) > 1
        /\ inb' = Tail(Tail(inb)) /\ st' = "headers"
        /\ Continue /\ NoOutput
  /\ UNCHANGED <<feedRest, body, responded, remaining, keepAlive>>

(* h1_headers: validation, redirect, framing, keep-alive intent. *)
FeedHeaders ==
  /\ Feeding("headers")
  /\ UNCHANGED <<feedRest, body, req, responded, receiving>>
  /\ \/ /\ inb = <<>>
        /\ LeaveFeed(FALSE) /\ NoOutput
        /\ UNCHANGED <<inb, st, remaining, keepAlive>>
     \/ /\ inb # <<>>
        /\ inb' = Tail(inb)
        /\ \/ /\ Malformed(Head(inb))
              /\ EmitSimple("error") /\ UNCHANGED <<remaining, keepAlive>>
           \/ /\ ~Malformed(Head(inb)) /\ redirect
              /\ EmitSimple("redirect") /\ UNCHANGED <<remaining, keepAlive>>
           \/ /\ ~Malformed(Head(inb)) /\ ~redirect
              /\ LET s == shapes[req] IN
                 /\ remaining' = IF s.framing = "cl" THEN s.body[1] ELSE 0
                 /\ st' = IF s.framing = "chunked" THEN "size" ELSE "body_cl"
                 /\ keepAlive' = ~s.close
              /\ Continue /\ NoOutput

(* The request is complete: zh1_feed_ goes on to h1_finish. *)
Complete == pc' = "dispatch" /\ UNCHANGED <<wantClose, timingHead>>

(* Mutant: the whole buffer is taken for the body. *)
TakeBody_Greedy ==
  /\ body' = body \o inb
  /\ inb' = <<>>
  /\ remaining' = IF Len(inb) < remaining THEN remaining - Len(inb) ELSE 0

(* Take up to `remaining' units of body from the buffer. *)
TakeBody ==
  LET take == IF Len(inb) < remaining THEN Len(inb) ELSE remaining IN
  /\ body' = body \o SubSeq(inb, 1, take)
  /\ inb' = SubSeq(inb, take + 1, Len(inb))
  /\ remaining' = remaining - take

(* h1_body_cl. *)
FeedBodyCl ==
  /\ Feeding("body_cl")
  /\ UNCHANGED <<feedRest, st, req, responded, keepAlive, receiving>>
  /\ TakeBody
  /\ IF remaining' = 0 THEN Complete ELSE LeaveFeed(FALSE)
  /\ NoOutput

chunkRest == <<feedRest, req, responded, keepAlive, receiving>>

(* h1_body_chunk waits in any of its states when the buffer is empty. *)
FeedChunkWait ==
  /\ pc = "feed" /\ st \in {"size", "data", "crlf", "trailer"} /\ inb = <<>>
  /\ UNCHANGED <<chunkRest, inb, st, body, remaining>>
  /\ NoOutput /\ LeaveFeed(FALSE)

FeedChunkSize ==
  /\ Feeding("size") /\ inb # <<>>
  /\ UNCHANGED <<chunkRest, body>>
  /\ inb' = Tail(inb)
  /\ \/ /\ Malformed(Head(inb))
        /\ EmitSimple("error") /\ UNCHANGED remaining
     \/ /\ ~Malformed(Head(inb))
        /\ remaining' = Head(inb).size
        /\ st' = IF Head(inb).kind = "last" THEN "trailer" ELSE "data"
        /\ Continue /\ NoOutput

FeedChunkData ==
  /\ Feeding("data") /\ inb # <<>>
  /\ UNCHANGED chunkRest
  /\ TakeBody
  /\ \/ remaining' > 0 /\ LeaveFeed(FALSE) /\ UNCHANGED st
     \/ remaining' = 0 /\ st' = "crlf" /\ Continue
  /\ NoOutput

FeedChunkCrlf ==
  /\ Feeding("crlf") /\ inb # <<>>
  /\ UNCHANGED <<chunkRest, body, remaining>>
  /\ \/ /\ Malformed(Head(inb))
        /\ EmitSimple("error") /\ UNCHANGED inb
     \/ /\ ~Malformed(Head(inb))
        /\ inb' = Tail(inb) /\ st' = "size" /\ Continue /\ NoOutput

(* The trailer section of the request under assembly. *)
FeedTrailer ==
  /\ Feeding("trailer") /\ inb # <<>> /\ ~responded
  /\ UNCHANGED <<chunkRest, body, remaining>>
  /\ inb' = Tail(inb)
  /\ \/ Malformed(Head(inb)) /\ EmitSimple("error")
     \/ ~Malformed(Head(inb)) /\ Complete /\ NoOutput /\ UNCHANGED st

(* A chunked request whose response closes the connection leaves the parser in
   H1_TRAILER: while the response drains, whatever the client sent behind the
   request is read as trailer lines.  A token is a non-empty line (or a part of
   one), ends in an empty line, or is refused (bare LF, section too long). *)
FeedStaleTrailer ==
  /\ Feeding("trailer") /\ inb # <<>> /\ responded
  /\ UNCHANGED <<chunkRest, body, remaining>>
  /\ inb' = Tail(inb)
  /\ \/ Continue /\ NoOutput /\ UNCHANGED st
     \/ Head(inb).kind \notin {"line0", "line"}
        /\ Complete /\ NoOutput /\ UNCHANGED st
     \/ EmitSimple("error")

(* H1_DEAD: an error or a redirect was emitted and is draining. *)
FeedDead ==
  /\ Feeding("dead")
  /\ UNCHANGED <<feedRest, assembly, inb, st>>
  /\ NoOutput /\ LeaveFeed(TRUE)

(* An allocation failed: conn_feed takes the negative result as a hard error. *)
FeedHardError ==
  /\ pc = "feed" /\ proto = "h1"
  /\ dead' = TRUE /\ why' = "error" /\ pc' = "flush"
  /\ UNCHANGED <<inputVars, unread, connVars, inb, out, wantClose, timingHead, st,
                 assembly, graceful, closeAfter, reqCount, stopping, history,
                 got>>

-----------------------------------------------------------------------------
(* h1_finish, zhs_dispatch_ and the user's handler. *)

CapReached == reqCount + 1 >= MaxRequests

ClosesAfter == closeAfter \/ graceful \/ ~keepAlive \/ CapReached

(* Mutant: zcio_http_respond does not look at `responded'. *)
Respond_Again ==
  /\ out' = Append(out, Response("answer", req, ClosesAfter))
  /\ \E overCap \in BOOLEAN : closeAfter' = (ClosesAfter \/ overCap)

(* zcio_http_respond and h1_respond, called by the handler or, with a 500, by
   zhs_dispatch_ after it.  A second response is refused.  overCap: the output
   buffer has grown past max_out_bytes. *)
Respond ==
  IF responded THEN UNCHANGED <<out, closeAfter>>
  ELSE /\ out' = Append(out, Response("answer", req, ClosesAfter))
       /\ \E overCap \in BOOLEAN : closeAfter' = (ClosesAfter \/ overCap)

(* The handler runs; a repeated call for the same request goes into `again'. *)
CallHandler(how) ==
  IF responded THEN again' = again \cup {req} /\ UNCHANGED handled
  ELSE /\ handled' = Append(handled, [req |-> req, body |-> body, how |-> how])
       /\ UNCHANGED again

(* Mutant: the next request is read although the response said close. *)
AfterResponse_KeepsReading ==
  /\ st' = "reqline" /\ receiving' = FALSE /\ keepAlive' = FALSE
  /\ remaining' = 0 /\ body' = <<>> /\ responded' = FALSE
  /\ Continue

(* zh1_feed_ after h1_finish: stop, or h1_reset_next for the next request. *)
AfterResponse ==
  \/ /\ closeAfter'
     /\ responded' = TRUE
     /\ UNCHANGED <<st, receiving, keepAlive, remaining, body>>
     /\ LeaveFeed(TRUE)
  \/ /\ ~closeAfter'
     /\ st' = "reqline" /\ receiving' = FALSE /\ keepAlive' = FALSE
     /\ remaining' = 0 /\ body' = <<>> /\ responded' = FALSE
     /\ Continue

CountRequest == reqCount' = IF reqCount < MaxRequests THEN reqCount + 1
                                                      ELSE reqCount

(* The handler responds, or does nothing and a 500 is synthesized.  It does not
   for a request it takes for a WebSocket upgrade (shapes[req].ws). *)
Dispatch ==
  /\ pc = "dispatch" /\ ~shapes[req].ws
  /\ UNCHANGED <<inputVars, unread, connVars, inb, dead, graceful, stopping,
                 req, got, why>>
  /\ CallHandler("answer")
  /\ Respond
  /\ CountRequest
  /\ AfterResponse

(* Neither the handler's response nor the 500 finds the memory it needs, or one
   is cut short in the output buffer, maybe behind its `connection: close'.
   zhs_dispatch_ does not look: the connection goes on as if it had answered. *)
DispatchNoMemory ==
  /\ pc = "dispatch" /\ ~responded
  /\ UNCHANGED <<inputVars, unread, connVars, inb, dead, graceful, stopping,
                 req, got, why, closeAfter>>
  /\ CallHandler("unanswered")
  /\ \/ out' = out
     \/ \E close \in {FALSE, ClosesAfter} :
          out' = Append(out, Response("partial", req, close))
  /\ CountRequest
  /\ AfterResponse

(* zcio_ws_accept succeeds: zhs_detach_for_upgrade_ writes the 101, then the
   queued output, and takes the stream out of the loop. *)
DispatchUpgrade ==
  /\ pc = "dispatch" /\ shapes[req].ws
  /\ UNCHANGED <<inputVars, unread, proto, peerEof, inb, wantClose, st,
                 assembly, graceful, closeAfter, reqCount, stopping>>
  /\ CallHandler("upgrade")
  /\ got' = got \o <<Response("switch", req, FALSE)>> \o out
  /\ out' = <<>>
  /\ detached' = TRUE /\ dead' = TRUE /\ why' = "detached"
  /\ UpdateHeadTiming
  /\ pc' = "sweep"

(* zcio_ws_accept fails while it writes the 101 or the queued output: some of
   it is on the wire, nothing of it leaves the buffer, and the handler (or the
   500 of zhs_dispatch_) answers the request in the ordinary way.  What repeated
   attempts for one request put on the wire is not recorded, to bound got. *)
DispatchUpgradeFails ==
  /\ pc = "dispatch" /\ shapes[req].ws
  /\ UNCHANGED <<inputVars, unread, connVars, inb, dead, graceful, stopping,
                 req, why>>
  /\ CallHandler("upgrade_failed")
  /\ \/ UNCHANGED got
     \/ ~responded /\ \E k \in 0 .. (Len(out) - 1) :
          got' = got \o <<Response("switch", req, FALSE)>> \o SubSeq(out, 1, k)
  /\ Respond
  /\ CountRequest
  /\ AfterResponse

-----------------------------------------------------------------------------
(* The end of an iteration. *)

(* The close decisions of conn_process, after conn_flush. *)
CloseDecisions ==
  /\ wantClose' = (wantClose \/ (peerEof /\ out' # <<>>))
  /\ dead' = (dead \/ ((wantClose \/ peerEof) /\ out' = <<>>))
  /\ why' = IF dead' /\ ~dead THEN IF wantClose THEN "close" ELSE "eof" ELSE why
  /\ pc' = "sweep"

flushRest == <<inputVars, unread, connVars, inb, timingHead, st, assembly,
               graceful, closeAfter, reqCount, stopping, history>>

(* conn_flush until the output is gone or the socket would block. *)
Flush(k) ==
  /\ pc = "flush" /\ ~dead
  /\ got' = got \o SubSeq(out, 1, k)
  /\ out' = SubSeq(out, k + 1, Len(out))
  /\ CloseDecisions
  /\ UNCHANGED flushRest

FlushSome == \E k \in 0 .. Len(out) : Flush(k)

(* A write error closes at once; a dead connection is not flushed. *)
FlushError ==
  /\ pc = "flush" /\ (dead \/ out # <<>>)
  /\ dead' = TRUE /\ why' = IF dead THEN why ELSE "error"
  /\ pc' = "sweep"
  /\ UNCHANGED <<flushRest, got, out, wantClose>>

(* Mutant: queued output does not hold the connection back. *)
Drained_ForgetsOutput == proto = "h1" => st = "reqline" /\ ~receiving

(* conn_drained. *)
Drained == out = <<>> /\ (proto = "h1" => st = "reqline" /\ ~receiving)

(* The deadline sweep (conn_deadline_ms or the drain deadline has passed), the
   drain bookkeeping and server_remove_dead. *)
Sweep ==
  /\ pc = "sweep"
  /\ \E expired \in BOOLEAN :
       LET drained == stopping /\ Drained IN
       /\ dead' = (dead \/ expired \/ drained)
       /\ why' = CASE dead -> why
                   [] ~dead /\ expired -> "deadline"
                   [] ~dead /\ ~expired /\ drained -> "drain"
                   [] OTHER -> why
  /\ pc' = IF dead' THEN "gone" ELSE "poll"
  /\ UNCHANGED <<inputVars, unread, connVars, inb, out, wantClose, timingHead, st,
                 assembly, graceful, closeAfter, reqCount, stopping, history,
                 got>>

-----------------------------------------------------------------------------
Feed == \/ Sniff \/ FeedReqLine \/ FeedHeaders \/ FeedBodyCl \/ FeedChunkWait
        \/ FeedChunkSize \/ FeedChunkData \/ FeedChunkCrlf \/ FeedTrailer
        \/ FeedStaleTrailer \/ FeedDead \/ FeedHardError

Loop == \/ PollRead \/ PollEof \/ PollHandshake \/ Feed
        \/ Dispatch \/ DispatchNoMemory \/ DispatchUpgrade \/ DispatchUpgradeFails
        \/ FlushSome \/ FlushError \/ Sweep

Next == BeginStop \/ Loop

Spec == Init /\ [][Next]_vars

-----------------------------------------------------------------------------
(* What must hold. *)

Upgraded == {handled[i].req : i \in {j \in DOMAIN handled :
                                      handled[j].how = "upgrade"}}
UpgradeFailed == \E i \in DOMAIN handled : handled[i].how = "upgrade_failed"
OutOfMemory == \E i \in DOMAIN handled : handled[i].how = "unanswered"

(* Message framing: the i-th request the handler sees is the i-th request of
   the client's stream, with exactly the body the client framed for it (h1_body_cl,
   h1_body_chunk and h1_reset_next never let one request's bytes into another). *)
RequestsAsSent ==
  \A i \in DOMAIN handled :
    /\ handled[i].req = i
    /\ handled[i].body = BodyOf(i, shapes[i])

(* The answers at the client followed by those still queued are one to each
   handled request, in request order, and none twice. *)
EachAnswered ==
  LET wire == got \o out
      Answers == {i \in DOMAIN wire : wire[i].kind = "answer"} IN
  /\ {wire[i].req : i \in Answers} = 1 .. (Len(handled) - Cardinality(Upgraded))
  /\ \A i, k \in Answers : i < k => wire[i].req < wire[k].req

(* Pipelined responses: unless an upgrade attempt failed or memory ran out, every
   handled request has one answer, in request order, the 500 fallback included
   (zhs_dispatch_, h1_respond, conn_flush). *)
OneAnswerEach == ~UpgradeFailed /\ ~OutOfMemory => EachAnswered

(* Said of zhs_dispatch_ (http_server.c:270-271): exactly one response is guaranteed.
   Upgrade attempts, which detach, are left out. *)
AnswerGuaranteed == ~UpgradeFailed => EachAnswered

(* A response that announces `connection: close' is honoured, unless it was cut
   short: no later request of the stream reaches the handler (zh1_feed_ returns
   ZH1_CLOSE). *)
CloseIsFinal ==
  \A i \in DOMAIN (got \o out) :
    (got \o out)[i].close /\ (got \o out)[i].kind # "partial" =>
      \A j \in DOMAIN handled : handled[j].req <= (got \o out)[i].req

(* When the loop goes back to poll() nothing that could be handled now is left
   in the buffer: only the start of a request line, and then the connection is
   marked as receiving, so that neither conn_drained nor the keep-alive deadline
   takes it for idle. *)
NothingLeftBehind ==
  (pc = "sweep" /\ proto = "h1" /\ ~dead /\ ~wantClose) =>
    /\ Len(inb) <= 1
    /\ inb # <<>> => receiving /\ st = "reqline"

(* A connection that ends in order (its closing response is out, or the server
   drains) has delivered every response it queued, and a drained one was not in
   the middle of a request. *)
OrderlyEnd ==
  /\ why \in {"close", "drain"} => out = <<>>
  /\ why = "drain" /\ proto = "h1" => inb = <<>> /\ st = "reqline"

(* Said of zhs_dispatch_ and zh1_feed_: the handler runs once for a request. *)
HandlerOnce == again = {}
=============================================================================
