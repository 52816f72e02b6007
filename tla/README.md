# A TLA+ model of zcio

zcio is a C library for streaming I/O: a stream abstraction, a lock-free ring
buffer, TCP/UDP/TLS transports, an HTTP client, a WebSocket implementation and an
event-driven HTTP/1.1, HTTP/2 and HTTP/3 server.  This directory models the parts
of it whose correctness depends on the order of events, checks them with TLC on
small instances and proves the central invariants with TLAPS for every instance.
`PROJECT.json` lists components, runs, mutants, the map from definitions to source
lines, findings, hazards and theorems.  Line numbers are of `src/src/` unless a
path says otherwise.

## The system

| Component | State it keeps | Operations | What makes it correct |
|---|---|---|---|
| Ring (`ring.c`) | two atomic cursors and a data block, shared by two threads or processes | write, read, attach | bytes arrive once each and in order; no data race; calls return |
| HTTP/1.1 connection (`h1.c`) | parser state, request under assembly, close decision | feed, respond, graceful | framing, one answer per request and in order, an orderly end |
| HTTP/2 connection (`h2.c`) | stream table, header block in progress, four kinds of flow-control window, GOAWAY state | feed (one handler per frame), respond, pump, graceful | flow control, stream lifecycle, an honest GOAWAY, limits |
| Event loop (`http_server.c`) | connection table, poll set, deadlines, stop flag, wake pipe, drain state | poll/run, accept, conn_process, stop, free | no stop is missed, the cap holds, stops, slow requests and dead connections end |
| HTTP/3 endpoint (`h3.c`) | tables of QUIC connections and streams, one frame parser per stream, draining flag | process, respond, graceful, free | requests dispatched whole and once, no stream forgotten, passes end |
| HPACK, QPACK (`hpack.c`, `qpack.c`) | HPACK: a dynamic table; QPACK: none | decode, encode | both ends' tables stay equal |
| WebSocket (`ws.c`) | receive buffer, message under assembly, close and failure flags | accept, connect, send, recv, ping, close, free | messages as the peer sent them, one Close each way, calls return |
| HTTP client (`http.c`) | the session's cached connection | request, session request, redirect, session free | answers belong to their calls, runs are bounded, redirects stay bounded and never downgrade, calls return |
| TCP (`tcp.c`) | server: listening socket, slots, free list, next id; client and connections: socket and closed flag | listen, adopt, accept, close_client, stream close, free; connect, close, free | a live id is unique and found; each socket is closed exactly once |
| UDP (`udp.c`) | one packet buffer per peer, the cached receive timeout | bind, receive, read, free; client open, close, free | a datagram stays whole and goes to its peer's buffer; timed receives return |
| Multicast (`mcast.c`) | a socket each | open, close, free | the socket is closed exactly once |
| Streams, memory views, serializer (`stream.c`, `membuf.c`, `serial.c`) | a position | read/write/copy/seek | short reads and writes lose nothing |
| TLS, DNS, archive, crypto, utilities, bindings | their libraries' | wrappers | not this project's subject |

Interactions.  The event loop owns every connection; in each iteration it polls,
accepts, and gives each connection its slice (`conn_process`): read, feed the
protocol module, flush, decide whether to close.  The protocol modules call back
into the loop's `zhs_dispatch_`, which runs the user's handler, which calls back
through `zcio_http_respond` into the protocol module.  An upgrade takes the stream
out of the loop from inside the handler.  `zcio_http_server_stop` comes from another
thread or a signal handler and talks to the loop by an atomic flag and a pipe.  The
HTTP client and the WebSocket client sit on the TCP client; they are driven by one
thread each and meet concurrency only in the peer and the clock.  The TCP, UDP and
multicast objects of a process share the operating system's descriptor table.

What is hard: the ring's stale cursors; reads and writes that stop anywhere; state
that outlives the request it belongs to; flow-control windows that SETTINGS move
below zero; the stop that arrives between a check and a sleep; deadlines that
activity renews; connections that must drain, but not for ever; answers that arrive
after their caller gave up; a Close that crosses a Close; tables compacted under the
loop that walks them; a descriptor number that has a new owner when it is closed a
second time.

## Modules

| Module | Models | Uses |
|---|---|---|
| `ByteChannel` | what the ring promises: a bounded FIFO channel | |
| `Ring` | `ring.c` | `ByteChannel` (refinement) |
| `Ring_proofs` | theorems about `Ring` | `Ring` |
| `H1Conn` | one HTTP/1.1 connection: `h1.c` and `conn_process` around it | |
| `MCH1Conn` | the request shapes TLC explores | `H1Conn` |
| `H1Conn_proofs` | theorems about `H1Conn` | `H1Conn` |
| `H2Conn` | one HTTP/2 connection: `h2.c` and `conn_process` around it | |
| `H2Conn_proofs` | theorems about `H2Conn` | `H2Conn` |
| `HttpServer` | the loop, its connections as phases, the stop | |
| `HttpServer_proofs` | theorems about `HttpServer` | `HttpServer` |
| `H3Conn` | the HTTP/3 endpoint: `h3.c`, with what `qpack.c` accepts | |
| `H3Conn_proofs` | theorems about `H3Conn` | `H3Conn` |
| `HpackTables` | the HPACK decoder (`hpack.c`) beside the encoder of a legal client | |
| `HttpClient` | `http.c`, with the connect of `tcp.c` and the TLS wrap under it | |
| `HttpClient_proofs` | theorems about `HttpClient` | `HttpClient` |
| `WsSession` | `ws.c` | |
| `WsSession_proofs` | theorems about `WsSession` | `WsSession` |
| `Sockets` | the descriptor table (external) | |
| `TcpServer` | the descriptors of `tcp.c`, client and server, and the id registry | `Sockets` |
| `Datagrams` | `udp.c` and `mcast.c` | `Sockets` |
| `Net` | the socket objects in one process | `TcpServer`, `Datagrams` |
| `Net_proofs` | theorems about `Net` | `Net` |

**Ring.**  `wpc`/`rpc` are the places inside `zcio_ring_write` and `zcio_ring_read`.
A call loads the other side's cursor when it sizes its chunk (`WClaim`), copies one
byte per step (`WCopy`) and then publishes its own (`WPublish`); the other thread may
run between any two of these.  A byte is its position in the producer's stream.  The
memory model enters as follows: each cursor has one writer, stores it with release
and the other side loads it with acquire, so a sequentially consistent cursor and
bytes that are visible before it are faithful; that no slot is ever written and read
at once (`NoDataRace`) is what makes the plain `memcpy`s fall under that argument.
The spin limits (100 and 1000000) are constants.  Attaching happens before either side
runs, as the comment in `ring_init` has it; see the hazard at `ring.c:51`.

**H1Conn.**  The client's bytes are a sequence of tokens, one per unit the parser
treats as a whole, and a read may end between any two.  `st` is `zh1_conn.state`,
`inb`/`out` the connection's buffers, `pc` the place in the iteration
poll -> feed (<-> dispatch) -> flush -> sweep.  Whether a token is malformed is part of
the request's shape: all the ways a request line, header block, chunk size or
trailer can be refused (400, 413, 431, 501, 505) are one choice, since they all end
in `h1_emit_simple`.  The handler answers, or leaves it to the 500 of
`zhs_dispatch_`, or tries an upgrade that succeeds or fails half-way; or there is no
memory for either answer (`DispatchNoMemory`), which leaves nothing or part of a response.

**H2Conn.**  The client sends any frame in any state.  Values are scaled down
(windows of 3 instead of 65535, frames of 2 instead of 16384), the arithmetic is the
code's.  The output buffer is its fill level, because `max_out_bytes` is what
matters about it; the meaning of the frames in it is kept as the peer would count
it: `wire` (each stream's life), `credit` and `granted` (both directions of flow
control).  `OnSettings` includes the abort in the middle of the loop over streams.
HPACK decoding is one of: undecodable, malformed, well-formed, too long.  The peer's
SETTINGS_MAX_FRAME_SIZE can only raise the limit of a DATA frame above its default,
and is left at it.

**HttpServer.**  A connection is in a phase: none, queued in the backlog, new
(protocol unknown or TLS handshake in progress), idle, recv (an HTTP/1.1 request
under way), busy (HTTP/2 streams in flight) or send (output pending).  `left` is what
remains of `conn_deadline_ms`.  A peer acts in two ways, which the deadlines tell apart:
it sends or closes ("in"), or it reads what was queued for it ("out").  What a phase may
turn into when the peer acts (`Moves`) is the summary of `H1Conn` and `H2Conn`; what is
left then (`NewLeft`) follows which of the code's stamps the act renews.  `h3Busy` is
what the loop sees of HTTP/3: whether `zh3_idle_` is false.  `Stop` has two steps, the
flag and the pipe, and any number of stoppers.

**H3Conn.**  `pc`, `i` and `j` are the places in `zh3_process_`: accepting connections,
accepting a connection's streams, pumping stream `j`, ending the connection.  A frame is
two pieces, header and payload, and reads and the stream's end fall between any of them.
A field section is a short sequence of lines, each a field by static or dynamic reference or
as a literal; `zqp_decode_` and `h3_emit` say which are accepted.  The QUIC
engine is external: it flushes responses and ends connections when it likes, and may not
tell how much of a response is still in its buffer, in which case the stream is freed.
`seen` records which streams a pass has visited.

**HpackTables.**  The table is a sequence of fields, oldest first, each of cost 1; "wide" is
a field larger than any table, which empties it.  The client encodes by RFC 7541 with any choice of indexed,
inserted, plain literal and size update; the decoder is `zhp_decode_` one representation
at a time with `h2_emit` as its callback, and `h2_finish_headers` decides what a failure
ends.

**HttpClient.**  `pc` follows one call through turn, connect (one address per step), secure,
handshake, send, read and parse; the handshake ends only after the peer has said something
or broken the connection (`hello`), because `ossl_wrap` retries reads that time out; `conn` is what the session, and the current one-shot, hold, with
the server's half of the connection beside it.  A response is a number of pieces so that
it can be read, broken off or left behind anywhere.  Servers run a request when they
like, also after its client has gone (`lost`), which is where a retry runs it twice.

**WsSession.**  The peer's bytes are frames of two pieces; `got` counts pieces read into
`ws->in`, `used` the frames consumed.  `ws_pump` handles one frame per step, and the
deadline may pass between any two.  Memory may run out for a message, a fragment or the
bytes of a read; `oom` records it.  A frame that its header or payload makes illegal is
so by its tag.  Both opening handshakes are modelled, with the redirects and the refused
downgrade of `zcio_ws_connect`; their rule is that of the HTTP client, where
`RedirectsSafe` states it.

**Sockets, TcpServer, Datagrams, Net.**  `files` says what each descriptor was opened for;
the lowest free one is handed out next, so a double close is a close of somebody else's
socket.  Each open, connect, accept and adopt succeeds or fails after the socket exists.
The application closes the descriptor it takes for its own, as `net.h` lets it.  The id
registry has the code's doubling slots, the free list with its own capacity (pushing an
id can fail) and the ids lost to failures.  The UDP server's receive has two steps, the
call and its end, so that a timeout, a datagram or an error may end it; the timeout it
remembers (`rcvtimeo_us`) and the one on the socket (`option`) are two variables, since
`setsockopt` may fail unseen, and on Windows the option is cut to milliseconds.  The network
loses, repeats and reorders datagrams at will.

## Runs

| Run | Question | Result |
|---|---|---|
| `ring` | every interleaving over a ring of 4 slots, calls of up to 4 bytes, 5 bytes in all: order, races, refinement, and do bytes arrive and non-blocking calls return? | passes, and refines `ByteChannel` |
| `h1` | three pipelined requests, 12 shapes for the first, a cap of 2 | passes |
| `h1_once` | does the handler run once for a request? | violation (finding 1) |
| `http_server` | two clients, a limit of one or two connections, one stopper: safety, and do stops, trickled requests and responses to dead peers end? | passes |
| `h2` | three streams, limits of 1 and 2, a request cap of 2, three counted frames | passes |
| `hpack` | does the decoder's table stay the encoder's? | violation (finding 2) |
| `http_client` | two calls, one-shot (up to 5 redirects) or on a session, two addresses, responses of up to 4 pieces against a limit of 3 | passes |
| `http_client_tls` | does a call with a deadline return whatever the server does in the handshake? | violation (finding 3) |
| `ws` | three frames of any kind, message caps of 1 and 2, reads of up to 3 pieces, either role | passes |
| `h3` | two connections, tables of up to three streams, requests of five pieces | passes |
| `h3_boundary` | is a request dispatched only at a frame boundary? | violation (finding 4) |
| `net` | three descriptors, three ids, two peers, datagrams of 0 to 2 bytes, timeouts 0, 500 and 2000 | passes |

Eight further configurations, `H1Memory`, `HttpServerSlow`, `HttpServerQuic`, `H2Drain`,
`H2Stall`, `HttpClientRetry`, `NetAdopt` and `NetWindows`, each show one more statement of a
comment or a header that the code does not keep; see *Further divergences*.  They are not
among the runs, which hold the questions the project asks of every change.

Every property of a passing run has a mutant: a plausible mistake in one mapped
definition (kept above it, named after it) under which TLC finds the property
violated in that run.

**Bounds and why they are enough.**  A ring of 4 slots has every relation of chunk,
wrap point and full/empty, calls are longer than it holds, and 5 bytes go round it (a
longer run with 7 was made without the liveness properties); the proofs remove the bound.  H1: the interesting step is from one request to the next, so two
arbitrary requests and a third that the cap must stop; reads of up to 4 tokens cross
every boundary.  H2: three identifiers let a stream be open, another refused and a
third arrive after the GOAWAY; the budget of 3 counts the client's frames other than
RST_STREAM and the ones that change nothing (instances with 4 and 5 were run as well).
HttpServer: with a limit of one the second client overflows the cap, with a limit of two
there are two connections at once (the theorem covers every limit and number of clients);
deadlines of one tick pass or not between any two steps, and no deadline of one connection
depends on another.  H3: three streams in a table are what a swap-remove
in the middle needs.  Client: the
second call is where an answer of the first can surface; the redirect limit is the code's.
WebSocket: three frames hold a fragmented message with a control frame inside it, and a
lowered cap.  Net: with three descriptors a number is reused while its old holder lives;
three ids make the slot table double twice.  `Instances` says which kinds of object one
behaviour uses (the TCP server with the clients; all kinds but it; the UDP server with its
receives), since objects meet in the descriptor table alone and the product of all their
states is out of reach.  The proofs are for any `Instances`.

**Fairness.**  Ring: each thread's steps inside a call are weakly fair (the scheduler
runs it); `EveryByteArrives` also assumes a consumer that calls read again
(`ReadLoop`); the producer owes nothing.  HttpServer: the loop's thread runs, time passes, a stopper inside `stop` goes on to the pipe, and
`accept_loop`, which has no bound of its own, comes to the end of the backlog.  Nothing
is assumed of clients; `StopCompletes` is stated for a server whose HTTP/3 endpoint becomes
idle, which nothing in the code ensures (`HttpServerQuic.cfg`).  H1 and H2 have no liveness property:
what ends a connection that does not end by itself is a deadline, and deadlines are
HttpServer's.  Client and WebSocket: the calling thread runs, each blocking operation but
the TLS handshake ends (the transport's own timeout bounds it), and deadlines pass; nothing
is assumed of the peer, and `ClientReturns` says that it is stated for peers that do not
stay silent in a handshake (finding 3).  H3: the loop's thread runs; nothing is assumed of
the engine or the peers, so that `H3PassEnds` is about one pass, and whether an endpoint
ever becomes idle is left to its peers.  Net: the kernel ends a receive whose timeout has
passed; nothing promises a datagram.

## Proofs

The proofs hold for every value of the constants that meets the modules' assumptions.
Besides typing, those are: a ring with at least one slot (`RingAssumption`); a finite set of
peers (`ServerAssumption`); for HTTP/1.1 that a body framed by a Content-Length is one piece
(`ShapesAssumption`: there is one length); for the WebSocket that there is a largest message
cap (`WsAssumption`); for HTTP/2 that initial windows a peer may set are at most
`MaxWindow` (h2.c:713 refuses others) and that a window holds two frames of the largest size,
or one byte less (`2 * MaxFrame <= Window + 1`: 65535 and 16384 in the code), without which
`recv_consume` could leave less than a frame's room; for the socket objects that the
descriptor table is finite.  Each invariant below was first checked by TLC on the instance
of the module's run.

* `Ring_proofs`: `RingInvariant`, and from it `BytesInOrder`, `CursorsCount`, `RaceFree`,
  `RingTypes`.  That bytes come out in order is not inductive: one needs to know that the slots
  between the cursors hold the stream's next bytes (`Published`), and that a chunk in
  the middle of being copied still fits the room the cursors now show although it was
  sized from an older one (`WriterClaim`, `ReaderClaim`).  The last holds because the
  peer only ever makes more room.  The lemmas about slots modulo the capacity carry the
  arithmetic.  `RefinesChannel` proves the refinement: a publish of the writer is a put of its
  chunk into `ByteChannel`, a publish of the reader a get, every other step a stutter.
* `HttpServer_proofs`: `ServerInvariant` and from it `ServerTypes`, `NoStopIsMissed`,
  `TableIsCapped`, `PollSetMatches`, `StopShutsTheDoor`.  The cap needs
  `PolledIsTable` (a processed connection was already counted), and the last theorem
  needs `DoorShut`: once stopping, nothing is listening or queued.
* `H1Conn_proofs`: `H1Invariant`, and from it `FramingHolds`, `AnswersInOrder`, `ClosesAreFinal`,
  `BufferIsWorkedOff` and `EndsInOrder`.  Framing needs the parser's position: what is buffered
  and what is still to be read are the rest of the client's stream (`Unconsumed`), the parser is
  in the request after the last one handled, at a place that its state determines
  (`Parsing`, `InRequest`, `InChunk`), and the body so far is a beginning of the body sent.
  `Control` ties the flags of the connection to those of the loop (a parser that is dead or has
  answered wants the close, and a completed request waits in one of two states); `Left` is
  `NothingLeftBehind` from the moment the parser returns; `Replies` says of delivered and
  queued responses together which requests they answer.  The lemmas about `FlattenSeq` say
  where a request, or a chunk, begins in the stream.
* `H2Conn_proofs`: `H2Invariant`, and from it `H2Types`, `WindowsAreCredit`, `LifecycleLegal`,
  `GoawayIsHonest`, `LimitsAreKept` and the action property `SendsAreWithinCredit`.  What the
  properties leave out and induction needs: which stream a header block in progress belongs to
  (`Block`), that identifiers above the last one are untouched (`Fresh`), that a stream in the
  table is unanswered or in the middle of its response (`Wire`), that everything dispatched was
  counted when it was opened (`Counted`), that a GOAWAY closes the connection to new streams
  (`Promise`), and that both send windows are what was granted less what was sent
  (`SendCredit`), also where SETTINGS have moved them below zero.
* `HttpClient_proofs`: `ClientInvariant`, and from it `CallsGetTheirAnswers`, `NoExtraRuns` and
  `RedirectsAreSafe`.  The heart is `Answer`: what has been read, what has arrived and what is
  still to come are, one after the other, the pieces of one answer to the current call; with
  `Lines`, that a connection nobody reads from is empty, because every exchange that fails
  after its request is out drops the connection.  `Runs` and `Turns` count.
* `WsSession_proofs`: `ClosesOnce` (`CloseDiscipline` is inductive with the types of its flags);
  `NoDowngrade`, the rule `RedirectsSafe` states for the HTTP client, of `zcio_ws_connect`; and
  `MessagesAreAsSent`.  For the last, the messages handed over and the message under assembly
  are what the reference `Assembly` makes of the frames consumed so far (`Assembled`), as long
  as the session reads at all (`FlagsOK`).  What arrives later does not change that
  (`AssemblyExtends`), later messages come behind the earlier ones (`DoneGrows`), and the
  overflow-safe test of `TooBig` bounds the sum of the fragments (`TakenFits`), also when
  the cap was lowered in mid-message.
* `H3Conn_proofs`: `H3Invariant`, and from it `EveryStreamServed` and `RequestsAreWhole`.  The
  pass serves all because every slot before the index was served and a removal only puts an
  unserved stream at the index (`Served`, `SwapRemoved`).  A request is whole because the
  parser's state says which piece came last (`OpenFrame`) and the body is the payload of the
  DATA frames so far (`BodyIsData`); its field section is well-formed because the context of
  `h3_emit` says what the fields before were (`Seen`, `AcceptedIsWellFormed`); it is handed over once because ids are never reused and
  differ between and within connections (`Table`, `Once`).
* `Net_proofs`: `NetInvariant`, and from it `IdsAreSound`, `SocketsAreOwned` and
  `DatagramsAreWhole`.  `SocketsOwned` counts; what is inductive is that a descriptor carries an
  object's label exactly if the object would close it, and that no two connections hold the
  same one (`OwnInv`), until `adoptLost`.  The counts then follow from the bijection between open connections and
  their descriptors.  `IdInv` adds to `IdsSound` that no more connections are open than ever
  were; `BufInv` that a peer's buffer holds its last datagram and that what was read is what
  lies before `buf_pos`.

What a recursive definition computes (`Assembly`, `SumLen`, `Emitted`, `FlattenSeq`) is proved
by induction on the length.  The library's induction theorems take the property as an operator,
which the provers cannot instantiate, so the proofs use the set of the lengths for which it
holds: `SetInduction`, from the well-foundedness of the naturals (`WFMin`).  That the recursive
equation has a solution at all, which its `CHOOSE` needs, is proved the same way
(`AssemblesExists`, `TotalsExist`, `EmitsExists`).

Every safety property of the passing runs is stated by a theorem.  Only model-checked is
liveness (`EveryByteArrives`, `NonBlockingReturns`, `StopCompletes`, `RequestsEnd`,
`DeadPeersCut`, `H3PassEnds`, `ClientReturns`, `CallsReturn`, `TimedReceiveReturns`), which is
out of the prover's reach.

## Findings

1. `h1.c:643` (`h1_once`): after a response that closes the connection the parser keeps
   the completed request, and every further iteration of the loop runs the handler on it
   again until the output has drained.  The client sees one response; the handler's
   effects are repeated.
2. `hpack.c:449` (`hpack`): a header block that runs into the request's header cap is
   decoded only up to there, the stream alone is reset, and the dynamic table no longer is
   the client's.
3. `tls_openssl.c:623` (`http_client_tls`): the handshake retries every timed-out read, so
   no deadline ends a call to a server that accepts and stays silent.
4. `h3.c:534` (`h3_boundary`): a request stream that ends inside a frame header is
   dispatched as complete.

### Further divergences

Each is a definition that states what the text says, and `tlc -config <cfg> <module>` finds
it violated.

| Configuration, module, property | The text | The code |
|---|---|---|
| `H1Memory.cfg`, `MCH1Conn`, `AnswerGuaranteed` | `http_server.c:270-271`, "Guarantee exactly one response" | without memory for the header list (`http_server.c:215`) neither the handler's response nor the fallback is made, and the connection goes on to the next request, whose answer a keep-alive client takes for this one's |
| `HttpServerSlow.cfg`, `HttpServer`, `NonReadersCut` | `include/zcio/http_server.h:109`, "slow-read guard" | `http_server.c:539`: the write deadline is renewed by what the peer sends, so a peer that sends and never reads is not cut |
| `HttpServerQuic.cfg`, `HttpServer`, `StopWithinDrain` | `include/zcio/http_server.h:131-132`, "drain in-flight work up to drain_timeout_ms" | `http_server.c:860`: a stop waits for the HTTP/3 endpoint past the drain deadline |
| `H2Drain.cfg`, `H2Conn`, `StreamsFinish` | `http_internal.h:288`, "close once out drains and streams finish" | `http_server.c:524`: a closing connection is closed when its output buffer is empty, though responses wait for flow-control credit |
| `H2Stall.cfg`, `H2Conn`, `NoStall` | `http_internal.h:293-294`, "The loop calls this whenever out drains." | `http_server.c:517`: the pump runs before the flush and not after it, so DATA held back by `max_out_bytes` can wait for an unrelated event |
| `HttpClientRetry.cfg`, `HttpClient`, `LiveNotRetried` | `http.c:953-954`, "A live connection never takes this branch." | `http.c:955`: a timeout on a connection that is alive is retried, and the server may run the request twice |
| `NetAdopt.cfg`, `Net`, `CallerKeepsSocket` | `include/zcio/net.h:61-62`, "on failure the fd remains owned by the caller" | `tcp.c:548`: an adopt that runs out of memory closes the descriptor |
| `NetWindows.cfg`, `Net`, `TimedReceiveReturns` | `udp.c:319`, "timeout / error / empty" | `udp.c:314`: on Windows a timed receive retries its timeout |

Met on the way, and listed as hazards or left to the caller: every `zcio_ring_attach`
resets the shared cursors (`ring.c:51`); a pipelined request keeps its predecessor's timer
(`http_server.c:433`); `tcp_do_connect` gives every address the whole timeout and the
transport timeout of one session call stays for the next (`http.c:879`), so the total
deadline of `http.h` is not exact even where it holds; a `Content-Length` body cut short by
the peer's end of stream is returned as the answer (`http.c:398`; only chunked bodies are
covered by `AnswersOwnCall`); a failed `setsockopt` leaves a timed receive without its
timeout (`udp.c:299`), and `TimedReceiveReturns` is stated while none has failed; the copy
of the descriptor in a TCP client outlives the socket (`tcp.c:389`).

## Not modelled

HTTP/3 in the loop beyond whether it is idle, its control stream, start-up and listener
creation, the header policy of `zcio_http_respond` (which headers are filtered or added),
the grammar of URLs, requests and header fields, the Huffman and integer codecs, masking
and UTF-8, TLS beyond its outcomes and its handshake loop, and all components listed as
such in `PROJECT.json` with the reason.  Times are only passed or not passed, except in
HttpServer.  Allocation failures: in H1Conn the feed's hard error and the missing answer;
in H2Conn the failure is noticed when the feed or the pump returns (`Abort`); in HttpServer
a refused connection or the end of the run; in the other modules the failing branch of the
operation.

## Plan

Done: the ring, the loop, the three server protocols, the HPACK tables, the HTTP and
WebSocket clients and the socket objects, with proofs of the safety properties of all but
HPACK, whose run is a finding.  Next, in this order:

1. HPACK: under the restriction that no header block runs into the request's cap, that the
   decoder's table is the encoder's (what finding 2 breaks), as a run of its own.
2. The pure parts (target decoding, dot segments, UTF-8, serial positions, `copy` over
   short streams) as operators against reference definitions.

Runs are kept few: the questions about one module share its instance.
