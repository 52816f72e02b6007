------------------------------- MODULE H3Conn -------------------------------
(***************************************************************************)
(* The HTTP/3 endpoint (src/src/h3.c, with the field sections of           *)
(* src/src/qpack.c): the passes of zh3_process_ over connections and       *)
(* streams, the frame parser, dispatch, and the graceful end.  The QUIC    *)
(* engine and the peers are arbitrary: between any two steps a connection  *)
(* may end, a response be flushed, and a read may find anything.           *)
(*                                                                         *)
(* A frame is two pieces, its type and length and then its payload, so     *)
(* that a read, or the stream, can end inside it.  What a peer sends is    *)
(* chosen when it is read: before that nobody looks at it.                 *)
(***************************************************************************)
EXTENDS Integers, Sequences, FiniteSets, SequencesExt

CONSTANTS
  MaxConnections, MaxStreams, MaxRequests, MaxBody,    \* zhs_limits
  UniSlack,      \* the 8 unidirectional streams more than MaxStreams
  MaxOpened,     \* bound on the streams opened
  MaxDials,      \* bound on the connections made
  MaxPieces      \* bound on the pieces sent

ASSUME H3Assumption ==
  {MaxConnections, MaxStreams, MaxRequests, MaxBody, UniSlack, MaxOpened,
   MaxDials, MaxPieces} \subseteq Nat

VARIABLES
  pc, i, j,      \* where zh3_process_ is: the stage, the connection, the stream
  conns,         \* h->conns
  draining,
  \* bounds and history
  dials, opened, pieces,
  seen,          \* the streams of the connection pumped in this pass
  handled,       \* how often a stream's request was handed to the handler
  request        \* the last of them, until the next connection

place == <<pc, i, j>>
history == <<dials, opened, pieces, seen, handled, request>>
vars == <<place, conns, draining, history>>

NewConn == [streams |-> <<>>, requests |-> 0]

NewStream(id, uni) ==
  [id |-> id, is_uni |-> uni, sent |-> <<>>, pstate |-> "hdr", section |-> <<>>,
   headers_seen |-> FALSE, body |-> <<>>, dispatched |-> FALSE, done |-> FALSE,
   pending |-> FALSE]

Streams == conns[i].streams
This == Streams[j]

Init ==
  /\ pc = "poll" /\ i = 1 /\ j = 1 /\ conns = <<>> /\ draining = FALSE
  /\ dials = 0 /\ opened = 0 /\ pieces = 0
  /\ seen = {} /\ handled = [s \in 1..MaxOpened |-> 0] /\ request = <<>>

-----------------------------------------------------------------------------
(* Field sections: lines of a field and the table they refer to.           *)

L(ref, f) == [ref |-> ref, f |-> f]
M == L("static", ":method")
P == L("literal", ":path")
S == L("static", ":scheme")
X == L("literal", "regular")

Sections ==
  { <<S, M, P, X>>, <<M, P, X>>, <<M, P, X, S>>, <<M, M, P, S>>,
    <<M, P, L("dynamic", ":scheme")>>, <<M, P, S, L("literal", "connection")>>,
    <<M, P, S, L("literal", ":protocol")>>, <<>> }

Pseudo == {":method", ":path", ":scheme", ":authority"}

\* zqp_decode_: the dynamic table has no capacity, so nothing may refer to it.
zqp_decode_(section) == \A k \in DOMAIN section : section[k].ref # "dynamic"

\* h3_hdr_ctx before the first field
NoFields == [slots |-> {}, regular_seen |-> FALSE, bad |-> FALSE]

\* h3_emit, one field: pseudo-headers known, once, and before the others.
h3_emit(ctx, line) ==
  CASE ctx.bad -> ctx
    [] ~ctx.bad /\ line.f = "regular" ->
         [slots |-> ctx.slots, regular_seen |-> TRUE, bad |-> FALSE]
    [] ~ctx.bad /\ ~ctx.regular_seen /\ line.f \in Pseudo \ ctx.slots ->
         [slots |-> ctx.slots \union {line.f}, regular_seen |-> FALSE, bad |-> FALSE]
    [] OTHER -> [slots |-> ctx.slots, regular_seen |-> ctx.regular_seen, bad |-> TRUE]

\* The context after each field
Emitted(section) ==
  LET ctx[k \in 0..Len(section)] ==
        IF k = 0 THEN NoFields ELSE h3_emit(ctx[k - 1], section[k])
  IN  ctx

h3_decode_headers(section) ==
  LET ctx == Emitted(section)[Len(section)]
  IN  /\ section # <<>> /\ zqp_decode_(section) /\ ~ctx.bad
      /\ {":method", ":path", ":scheme"} \subseteq ctx.slots

-----------------------------------------------------------------------------
(* The QUIC engine and the peers.                                          *)

Flush ==
  /\ \E c \in DOMAIN conns : \E s \in DOMAIN conns[c].streams :
       /\ conns[c].streams[s].pending
       /\ conns' = [conns EXCEPT ![c].streams[s].pending = FALSE]
  /\ UNCHANGED <<place, draining, history>>

-----------------------------------------------------------------------------
(* One pass of zh3_process_.                                               *)

AcceptConn ==
  /\ pc = "poll" /\ ~draining /\ Len(conns) < MaxConnections /\ dials < MaxDials
  /\ conns' = Append(conns, NewConn)
  /\ dials' = dials + 1
  /\ UNCHANGED <<place, draining, opened, pieces, seen, handled, request>>

AcceptDone ==
  /\ pc = "poll"
  /\ pc' = "conn"
  /\ UNCHANGED <<i, j, conns, draining, history>>

\* The loop over the connections.
NextConn ==
  /\ pc = "conn"
  /\ j' = 1 /\ seen' = {} /\ request' = <<>>
  /\ \/ i > Len(conns) /\ pc' = "poll" /\ i' = 1
     \/ i <= Len(conns) /\ pc' = (IF draining THEN "pump" ELSE "streams") /\ i' = i
  /\ UNCHANGED <<conns, draining, dials, opened, pieces, handled>>

\* h3_accept_streams: the caps; a stream over them is freed at once.
Refused(uni) ==
  IF uni THEN Len(Streams) >= MaxStreams + UniSlack
  ELSE conns[i].requests >= MaxRequests \/ Len(Streams) >= MaxStreams

AcceptStream(uni) ==
  /\ pc = "streams" /\ opened < MaxOpened
  /\ opened' = opened + 1
  /\ conns' = IF Refused(uni) THEN conns
              ELSE [conns EXCEPT ![i].streams = Append(@, NewStream(opened + 1, uni)),
                                 ![i].requests = IF uni THEN @ ELSE @ + 1]
  /\ UNCHANGED <<place, draining, dials, pieces, seen, handled, request>>

\* No memory for the stream, which has been counted: the pass accepts no more.
AcceptStreamFails(uni) ==
  /\ pc = "streams" /\ opened < MaxOpened /\ ~Refused(uni)
  /\ opened' = opened + 1 /\ pc' = "pump"
  /\ conns' = [conns EXCEPT ![i].requests = IF uni THEN @ ELSE @ + 1]
  /\ UNCHANGED <<i, j, draining, dials, pieces, seen, handled, request>>

StreamsDone ==
  /\ pc = "streams"
  /\ pc' = "pump"
  /\ UNCHANGED <<i, j, conns, draining, history>>

-----------------------------------------------------------------------------
(* h3_pump_streams: reading.                                               *)

Reading == pc = "pump" /\ j <= Len(Streams) /\ ~This.done

\* The pieces that can come next: the start of a frame, half of one, or the
\* payload of the frame begun.
Coming(st) ==
  CASE st.sent # <<>> /\ Last(st.sent) = "half" -> {}
    [] st.pstate = "hdr" -> {"headers", "data", "other", "half"}
    [] OTHER -> {"payload"}

\* h3_parse on a piece; a field section is chosen for the payload of HEADERS.
Parsed(st, piece, section) ==
  LET s == [st EXCEPT !.sent = Append(@, piece)]
  IN  CASE piece = "half" -> s
        [] piece = "headers" -> [s EXCEPT !.pstate = IF st.headers_seen THEN "skip" ELSE "headers"]
        [] piece = "data"  -> [s EXCEPT !.pstate = "data"]
        [] piece = "other" -> [s EXCEPT !.pstate = "skip"]
        [] piece = "payload" /\ st.pstate = "headers" ->
             [s EXCEPT !.pstate = "hdr", !.headers_seen = TRUE, !.section = section]
        [] piece = "payload" /\ st.pstate = "data" ->
             [s EXCEPT !.pstate = "hdr", !.body = Append(@, Len(s.sent))]
        [] OTHER -> [s EXCEPT !.pstate = "hdr"]

\* h3_parse refuses it: the header list is malformed, or the body too large.
ParseRefuses(st, piece, section) ==
  /\ piece = "payload"
  /\ \/ st.pstate = "headers" /\ ~h3_decode_headers(section)
     \/ st.pstate = "data" /\ Len(st.body) >= MaxBody

\* Of a stream that is done: one never dispatched may go at any time, and so may
\* one of which the engine cannot tell what it still has to send.
h3_stream_drained(st) ==
  IF st.is_uni \/ ~st.dispatched THEN {TRUE} ELSE {TRUE, ~st.pending}

\* c->streams[i] = c->streams[--c->nstreams]
SwapRemove(seq, k) == Front([seq EXCEPT ![k] = Last(seq)])

\* Mutant: the index moves on although another stream now has this slot.
Freed_SkipsNext(st) ==
  /\ conns' = [conns EXCEPT ![i].streams = SwapRemove(@, j)]
  /\ seen' = seen \union {st.id}
  /\ j' = j + 1
  /\ UNCHANGED <<pc, i, draining, dials, opened>>

\* The end of a turn of h3_pump_streams, which left the stream as st: it is
\* freed, or the next one's turn comes.
Freed(st) ==
  /\ conns' = [conns EXCEPT ![i].streams = SwapRemove(@, j)]
  /\ seen' = seen \union {st.id}
  /\ UNCHANGED <<place, draining, dials, opened>>

Kept(st) ==
  /\ conns' = [conns EXCEPT ![i].streams[j] = st]
  /\ j' = j + 1 /\ seen' = seen \union {st.id}
  /\ UNCHANGED <<pc, i, draining, dials, opened>>

EndTurn(st) ==
  \E drained \in h3_stream_drained(st) : IF drained THEN Freed(st) ELSE Kept(st)

\* Some bytes: they are parsed and the read goes on, or the stream is dropped.
ReadPiece ==
  /\ Reading /\ ~This.is_uni /\ pieces < MaxPieces
  /\ pieces' = pieces + 1
  /\ \E piece \in Coming(This) :
       \E section \in IF This.pstate = "headers" THEN Sections ELSE {<<>>} :
         IF ParseRefuses(This, piece, section)
         THEN Freed(This)
         ELSE /\ conns' = [conns EXCEPT ![i].streams[j] = Parsed(This, piece, section)]
              /\ UNCHANGED <<place, draining, dials, opened, seen>>
  /\ UNCHANGED <<handled, request>>

\* Nothing more now, or a reset, a connection error, no memory.
ReadStops ==
  /\ Reading
  /\ Kept(This) \/ Freed(This)
  /\ UNCHANGED <<pieces, handled, request>>

\* Mutant: a stream that ends inside a frame is dispatched.
Dispatchable_MidFrame(st) == st.headers_seen

\* h3_maybe_dispatch goes ahead: the stream is at its end and no frame is open.
Dispatchable(st) == st.headers_seen /\ st.pstate = "hdr"

\* FIN on a unidirectional stream, or in a request that is not complete.
ReadFin ==
  /\ Reading /\ (This.is_uni \/ ~Dispatchable(This))
  /\ Freed(This)
  /\ UNCHANGED <<pieces, handled, request>>

\* The handler responds: the stream is concluded, and the response, whole or
\* as much of it as a stalled peer lets through, may still wait in the engine.
h3_respond(st) == {[st EXCEPT !.pending = waits] : waits \in BOOLEAN}

\* FIN, and the request is dispatched.
Dispatch ==
  /\ Reading /\ ~This.is_uni /\ Dispatchable(This)
  /\ handled' = [handled EXCEPT ![This.id] = @ + 1]
  /\ request' = <<[sent |-> This.sent, section |-> This.section, body |-> This.body]>>
  /\ \E st \in h3_respond(NewStream(This.id, FALSE)) :
       EndTurn([st EXCEPT !.dispatched = TRUE, !.done = TRUE])
  /\ UNCHANGED pieces

\* A stream that is done is not read again.
SkipDone ==
  /\ pc = "pump" /\ j <= Len(Streams) /\ This.done
  /\ EndTurn(This)
  /\ UNCHANGED <<pieces, handled, request>>

Pumped == pc = "pump" /\ j > Len(Streams)

\* h3_conn_closed: the peer, or a timeout, has ended the connection; of one
\* being shut down, the close has been flushed.  A live peer can put it off.
CloseConn ==
  /\ Pumped
  /\ conns' = SwapRemove(conns, i) /\ pc' = "conn"
  /\ UNCHANGED <<i, j, draining, history>>

\* Mutant: the index does not move on from a connection that is kept.
KeepConn_Again ==
  /\ Pumped
  /\ pc' = "conn"
  /\ UNCHANGED <<i, j, conns, draining, history>>

KeepConn ==
  /\ Pumped
  /\ pc' = "conn" /\ i' = i + 1
  /\ UNCHANGED <<j, conns, draining, history>>

-----------------------------------------------------------------------------
\* zh3_graceful_, between two passes.
zh3_graceful_ ==
  /\ pc = "poll" /\ ~draining
  /\ draining' = TRUE
  /\ UNCHANGED <<place, conns, history>>

\* zh3_free_, once the server has seen zh3_idle_.
zh3_free_ ==
  /\ pc = "poll" /\ draining /\ conns = <<>>
  /\ pc' = "freed"
  /\ UNCHANGED <<i, j, conns, draining, history>>

Loop ==
  \/ AcceptConn \/ AcceptDone \/ NextConn \/ StreamsDone
  \/ \E uni \in BOOLEAN : AcceptStream(uni) \/ AcceptStreamFails(uni)
  \/ ReadPiece \/ ReadStops \/ ReadFin \/ Dispatch \/ SkipDone
  \/ CloseConn \/ KeepConn

Next == Flush \/ Loop \/ zh3_graceful_ \/ zh3_free_

(* The thread of the loop runs.  ZH3_ACCEPT_CAP and ZH3_READ_CAP end its     *)
(* accept and read loops; the bounds on what peers send stand for them.     *)
Spec == Init /\ [][Next]_vars /\ WF_vars(Loop)

-----------------------------------------------------------------------------
\* What the peer sent, read by itself.
DataSent(sent) == {k \in 2..Len(sent) : sent[k] = "payload" /\ sent[k - 1] = "data"}
BodyIsData(body, sent) ==
  /\ \A a, b \in DOMAIN body : a < b => body[a] < body[b]
  /\ \A a \in DOMAIN body : body[a] \in DataSent(sent)
  /\ \A n \in DataSent(sent) : \E a \in DOMAIN body : body[a] = n
WellFormed(section) ==
  /\ \A f \in {":method", ":path", ":scheme"} :
       Cardinality({k \in DOMAIN section : section[k].f = f}) = 1
  /\ \A k \in DOMAIN section :
       /\ section[k].f \in Pseudo \union {"regular"} /\ section[k].ref # "dynamic"
       /\ \A m \in 1..k : section[k].f \in Pseudo => section[m].f # "regular"

(* A stream's request is handed over at most once, with a well-formed      *)
(* header, with exactly the payload of its DATA frames, in order and       *)
(* within the cap, and never when the stream ended inside a payload.       *)
H3RequestsWhole ==
  /\ \A s \in DOMAIN handled : handled[s] <= 1
  /\ \A k \in DOMAIN request :
       LET r == request[k]
       IN  /\ WellFormed(r.section) /\ Len(r.body) <= MaxBody
           /\ BodyIsData(r.body, r.sent)
           /\ Last(r.sent) \notin {"headers", "data", "other"}

(* Said of h3_maybe_dispatch (h3.c:529-530): the peer's FIN came at a clean *)
(* frame boundary, so not inside the type and length of a frame either.     *)
FinAtFrameBoundary == \A k \in DOMAIN request : Last(request[k].sent) = "payload"

(* Every pass serves every stream of the connections it keeps, although    *)
(* finished ones are removed from the table under the loop.                *)
StreamsServed == Pumped => \A k \in DOMAIN Streams : Streams[k].id \in seen

(* Every pass of zh3_process_ comes to its end and gives the thread back,  *)
(* whatever the peers and the engine do: neither of its two loops, which   *)
(* stay at their index when they remove an entry, goes round for ever.     *)
H3PassEnds == []<>(pc \in {"poll", "freed"})
=============================================================================
