----------------------------- MODULE HttpClient -----------------------------
(***************************************************************************)
(* The HTTP/1.1 client (src/src/http.c): one-shot requests, which follow   *)
(* redirects, and the keep-alive session, which retries once.  One thread  *)
(* makes the calls, one after another; servers run requests, answer, and   *)
(* break connections on their own.                                         *)
(*                                                                         *)
(* A response is a number of pieces, the first one its head, so that a     *)
(* read can end anywhere and a connection can break half-way.              *)
(***************************************************************************)
EXTENDS Integers, Sequences, SequencesExt

CONSTANTS
  SessionTls,    \* the URL of the session is https
  MaxRedirects,  \* ZCIO_HTTP_MAX_REDIRECTS
  MaxResponse,   \* ZCIO_HTTP_MAX_RESPONSE, in pieces
  MaxAddrs,      \* bound on the addresses a name resolves to
  MaxCalls       \* bound on the calls

ASSUME ClientAssumption ==
  /\ SessionTls \in BOOLEAN
  /\ {MaxRedirects, MaxResponse, MaxAddrs, MaxCalls} \subseteq Nat

VARIABLES
  pc, call,      \* where the thread is; the number of the call
  kind,          \* "session" or "once"
  turn,          \* `attempt' of a session request, `redirect' of a one-shot
  secure,        \* the current URL is https
  timed, late,   \* the call has a deadline; it has passed
  hello,         \* the peer has answered the ClientHello, or broken the connection
  addrs,         \* addresses connect() has not tried yet
  conn,          \* the connection of the session, and of the one-shot
  raw,           \* the pieces read_response has
  result,        \* what the call returned: the pieces of the response
  \* what only the servers know, and history
  lost,          \* requests sent on a connection that was dropped since
  ran,           \* how often a request was run
  sends,         \* how often it was sent
  hops           \* of this call, the dials: secure or not

thread == <<pc, turn, secure, timed, late, hello, addrs, raw, result>>
history == <<lost, ran, sends, hops>>
vars == <<thread, call, kind, conn, history>>

Kinds == {"session", "once"}
Calls == 1..MaxCalls
Expired == timed /\ late
None == "none"

(* The replies servers give: the framing, the pieces the framing promises  *)
(* and those that are sent (fewer in the answer to a HEAD), whether there  *)
(* is a "Connection: close", and the Location of a redirect.               *)
R(framing, total, pieces, close, to) ==
  [framing |-> framing, total |-> total, pieces |-> pieces, close |-> close, to |-> to]
Replies(k) ==
  IF k = "session"
  THEN { R("length", 2, 2, FALSE, None), R("length", 2, 2, TRUE, None),
         R("length", 2, 1, FALSE, None), R("chunked", 3, 3, FALSE, None),
         R("eof", 2, 2, FALSE, None), R("eof", 4, 4, FALSE, None) }
  ELSE { R("length", 1, 1, TRUE, to) : to \in {None, "http", "https", "path", "other"} }
         \union { R("eof", 2, 2, TRUE, None) }

NoConn == [up |-> FALSE, unserved |-> 0, todo |-> <<>>, wire |-> <<>>, cut |-> "no"]
Fresh  == [NoConn EXCEPT !.up = TRUE]
Pieces(c, reply) == [i \in 1..reply.pieces |-> [of |-> c, i |-> i, reply |-> reply]]

Init ==
  /\ pc = "idle" /\ call = 0 /\ kind = "once" /\ turn = 0 /\ secure = FALSE
  /\ timed = FALSE /\ late = FALSE /\ hello = FALSE /\ addrs = 0
  /\ conn = [k \in Kinds |-> NoConn] /\ raw = <<>> /\ result = <<>>
  /\ lost = [c \in Calls |-> 0] /\ ran = [c \in Calls |-> 0]
  /\ sends = [c \in Calls |-> 0] /\ hops = <<>>

-----------------------------------------------------------------------------
(* The servers.                                                            *)

\* A request that arrived whole is run, and its answer decided.
Serve(k) ==
  LET c == conn[k].unserved
  IN  /\ c # 0
      /\ ran' = [ran EXCEPT ![c] = @ + 1]
      /\ \E reply \in Replies(k) :
           conn' = [conn EXCEPT ![k].unserved = 0, ![k].todo = Pieces(c, reply)]
      /\ UNCHANGED <<thread, call, kind, lost, sends, hops>>

\* A request whose client has gone is run all the same.
ServeLost(c) ==
  /\ lost[c] > 0
  /\ lost' = [lost EXCEPT ![c] = @ - 1]
  /\ ran' = [ran EXCEPT ![c] = @ + 1]
  /\ UNCHANGED <<thread, call, kind, conn, sends, hops>>

Deliver(k) ==
  /\ conn[k].todo # <<>>
  /\ conn' = [conn EXCEPT ![k].wire = Append(@, Head(conn[k].todo)), ![k].todo = Tail(@)]
  /\ UNCHANGED <<thread, call, kind, history>>

\* The peer closes (an idle timeout, the end of its reply, a crash) or resets.
Cut(k) ==
  /\ conn[k].up /\ conn[k].cut = "no"
  /\ \E how \in {"eof", "reset"} :
       conn' = [conn EXCEPT ![k].cut = how, ![k].todo = <<>>, ![k].unserved = 0]
  /\ UNCHANGED <<thread, call, kind, history>>

DeadlinePasses ==
  /\ pc # "idle" /\ timed /\ ~late
  /\ late' = TRUE
  /\ UNCHANGED <<pc, turn, secure, timed, hello, addrs, raw, result, call, kind, conn, history>>

PeerHello ==
  /\ pc = "handshake" /\ ~hello
  /\ hello' = TRUE
  /\ UNCHANGED <<pc, turn, secure, timed, late, addrs, raw, result, call, kind, conn, history>>

-----------------------------------------------------------------------------
(* The client.                                                             *)

\* zcio_http_session_request and zcio_http_request_opts, up to their loops.
Call(k) ==
  /\ pc = "idle" /\ call < MaxCalls
  /\ pc' = "turn" /\ call' = call + 1 /\ kind' = k /\ turn' = 0
  /\ secure' \in (IF k = "once" THEN BOOLEAN ELSE {SessionTls})
  /\ timed' \in BOOLEAN /\ late' = FALSE
  /\ hops' = <<>> /\ raw' = <<>> /\ result' = <<>>
  /\ UNCHANGED <<hello, addrs, conn, lost, ran, sends>>

\* Mutant: the attempts are counted from one instead of zero.
ExchangeFails_OnceMore ==
  IF kind = "session" /\ turn <= 1
  THEN pc' = "turn" /\ turn' = turn + 1
  ELSE pc' = "idle" /\ turn' = turn

\* What becomes of the call when an exchange fails.
ExchangeFails ==
  IF kind = "session" /\ turn = 0
  THEN pc' = "turn" /\ turn' = 1
  ELSE pc' = "idle" /\ turn' = turn

\* session_drop, or the end of do_exchange.
Drop(k) ==
  /\ conn' = [conn EXCEPT ![k] = NoConn]
  /\ lost' = IF conn[k].unserved = 0 THEN lost
             ELSE [lost EXCEPT ![conn[k].unserved] = @ + 1]

\* The start of an exchange: no time left, a connection to reuse, or connect.
Begin ==
  /\ pc = "turn"
  /\ \/ Expired /\ ExchangeFails /\ addrs' = addrs
     \/ ~Expired /\ conn[kind].up /\ pc' = "send" /\ UNCHANGED <<turn, addrs>>
     \/ ~Expired /\ ~conn[kind].up /\ pc' = "connect" /\ addrs' \in 0..MaxAddrs /\ turn' = turn
  /\ raw' = <<>>
  /\ UNCHANGED <<secure, timed, late, hello, result, call, kind, conn, history>>

\* tcp_do_connect: one address is tried; each may take the whole connect
\* timeout, which was computed before the first.
ConnectAddr ==
  /\ pc = "connect" /\ addrs > 0
  /\ addrs' = addrs - 1
  /\ \/ pc' = "secure"
     \/ pc' = "connect"
  /\ UNCHANGED <<turn, secure, timed, late, hello, raw, result, call, kind, conn, history>>

\* No address is left, or the name does not resolve.
ConnectFails ==
  /\ pc = "connect" /\ addrs = 0
  /\ ExchangeFails
  /\ UNCHANGED <<secure, timed, late, hello, addrs, raw, result, call, kind, conn, history>>

\* No memory for the streams or the SSL object; the socket is closed.
make_fails ==
  /\ pc = "secure"
  /\ ExchangeFails
  /\ UNCHANGED <<secure, timed, late, hello, addrs, raw, result, call, kind, conn, history>>

Connected ==
  /\ pc' = "send" /\ conn' = [conn EXCEPT ![kind] = Fresh] /\ addrs' = 0
  /\ hops' = IF kind = "once" THEN Append(hops, secure) ELSE hops
  /\ UNCHANGED <<turn, secure, timed, late, hello, raw, result, call, kind, lost, ran, sends>>

\* tcp_client_make after the connect: the TLS overlay where the URL asks it.
tcp_client_make ==
  /\ pc = "secure"
  /\ \/ ~secure /\ Connected
     \/ /\ secure
        /\ pc' = "handshake" /\ hello' = FALSE
        /\ UNCHANGED <<turn, secure, timed, late, addrs, raw, result, call, kind, conn, history>>

\* The loop of ossl_wrap.  A read of the transport that times out, with the
\* deadline or before, is retried for as long as the peer is silent.
ossl_wrap ==
  /\ pc = "handshake" /\ hello
  /\ Connected

\* An alert, a certificate that does not verify, a broken connection.
ossl_wrap_fails ==
  /\ pc = "handshake" /\ hello
  /\ ExchangeFails
  /\ UNCHANGED <<secure, timed, late, hello, addrs, raw, result, call, kind, conn, history>>

\* Nothing is sent.  A session keeps its connection.
NotSent ==
  /\ pc = "send"
  /\ ExchangeFails
  /\ IF kind = "once" THEN Drop(kind) ELSE UNCHANGED <<conn, lost>>
  /\ UNCHANGED <<secure, timed, late, hello, addrs, raw, result, call, kind, ran, sends, hops>>

\* An illegal method, or no memory for the request.
build_request_fails == NotSent

\* The time has run out since the exchange began.
TooLate == Expired /\ NotSent

\* The request is written, whole or in part; into a connection that the peer
\* has closed it may go as well.
Send ==
  /\ pc = "send" /\ ~Expired
  /\ sends' = [sends EXCEPT ![call] = @ + 1]
  /\ \/ /\ pc' = "read" /\ turn' = turn
        /\ conn' = IF conn[kind].cut = "no"
                   THEN [conn EXCEPT ![kind].unserved = call] ELSE conn
        /\ lost' = lost
     \/ ExchangeFails /\ Drop(kind)
  /\ UNCHANGED <<secure, timed, late, hello, addrs, raw, result, call, kind, ran, hops>>

\* tcp_s_read reports an error: its timeout, which is what is left of the
\* deadline or else a default, or a reset.
tcp_s_read_fails == Expired \/ ~timed \/ conn[kind].cut = "reset"

\* Mutant: the session keeps a connection whose answer did not come in time.
ReadFails_KeepsConnection ==
  /\ pc = "read"
  /\ tcp_s_read_fails \/ conn[kind].wire # <<>>
  /\ ExchangeFails
  /\ IF kind = "once" THEN Drop(kind) ELSE UNCHANGED <<conn, lost>>
  /\ UNCHANGED <<secure, timed, late, hello, addrs, raw, result, call, kind, ran, sends, hops>>

\* Mutant: the transport's timeout is not set for the read.
ReadFails_NoTimeout ==
  /\ pc = "read"
  /\ conn[kind].wire # <<>> \/ conn[kind].cut = "reset"
  /\ ExchangeFails /\ Drop(kind)
  /\ UNCHANGED <<secure, timed, late, hello, addrs, raw, result, call, kind, ran, sends, hops>>

\* read_response fails: the deadline, the transport's timeout, a reset, a
\* response too large or malformed, no memory.
ReadFails ==
  /\ pc = "read"
  /\ tcp_s_read_fails \/ conn[kind].wire # <<>>
  /\ ExchangeFails /\ Drop(kind)
  /\ UNCHANGED <<secure, timed, late, hello, addrs, raw, result, call, kind, ran, sends, hops>>

\* What the head of a response says.
find_header_value(got, key) == got[1].reply[key]

\* The response is complete by its framing.
Complete(got) ==
  /\ got # <<>>
  /\ find_header_value(got, "framing") # "eof"
  /\ Len(got) >= find_header_value(got, "total")

\* zcio_read returns some of what has arrived, and the response goes on.
ReadMore ==
  /\ pc = "read" /\ ~Expired
  /\ \E n \in 1..Len(conn[kind].wire) :
       LET got == raw \o SubSeq(conn[kind].wire, 1, n)
       IN  /\ Len(got) <= MaxResponse
           /\ raw' = got
           /\ conn' = [conn EXCEPT ![kind].wire = SubSeq(@, n + 1, Len(@))]
           /\ pc' = IF Complete(got) THEN "parse" ELSE "read"
  /\ UNCHANGED <<turn, secure, timed, late, hello, addrs, result, call, kind, history>>

ReadEof ==
  /\ pc = "read" /\ ~Expired
  /\ conn[kind].wire = <<>> /\ conn[kind].cut = "eof"
  /\ pc' = "parse"
  /\ UNCHANGED <<turn, secure, timed, late, hello, addrs, raw, result, call, kind, conn, history>>

\* parse_response accepts it: a head, and no chunked body cut short.
Parses(got) ==
  /\ got # <<>>
  /\ find_header_value(got, "framing") = "chunked" => Complete(got)

ParseFails ==
  /\ pc = "parse"
  /\ ExchangeFails /\ Drop(kind)      \* or no memory
  /\ UNCHANGED <<secure, timed, late, hello, addrs, raw, result, call, kind, ran, sends, hops>>

response_says_close(got) == find_header_value(got, "close")

\* The rest of session_exchange_once, and the return.
SessionReturns ==
  /\ pc = "parse" /\ kind = "session" /\ Parses(raw)
  /\ IF response_says_close(raw) THEN Drop("session") ELSE UNCHANGED <<conn, lost>>
  /\ pc' = "idle" /\ result' = raw
  /\ UNCHANGED <<turn, secure, timed, late, hello, addrs, raw, call, kind, ran, sends, hops>>

\* Mutant: a redirect from https to http is followed.
Followed_Downgrade(to) == to \in {"http", "https", "path"}

\* resolve_redirect: what is followed.
Followed(to) == to \in {"https", "path"} \/ (to = "http" /\ ~secure)

\* url_parse refuses it: no host, a bad port, another scheme, no memory.
UrlRefused(to) == to = "other"

\* A one-shot exchange is over: the connection is closed, and a redirect
\* followed; one that is refused, or too many, is the answer.
OnceReturns ==
  /\ pc = "parse" /\ kind = "once" /\ Parses(raw)
  /\ Drop("once")
  /\ LET to == find_header_value(raw, "to")
     IN  \/ /\ turn < MaxRedirects /\ Followed(to)
            /\ pc' = "turn" /\ turn' = turn + 1
            /\ secure' = (to = "https" \/ (to = "path" /\ secure))
            /\ result' = result
         \/ /\ ~(turn < MaxRedirects /\ Followed(to))
            /\ pc' = "idle" /\ result' = raw
            /\ UNCHANGED <<turn, secure>>
         \/ /\ UrlRefused(to) /\ turn < MaxRedirects   \* in the next do_exchange
            /\ pc' = "idle" /\ UNCHANGED <<turn, secure, result>>
  /\ UNCHANGED <<timed, late, hello, addrs, raw, call, kind, ran, sends, hops>>

\* zcio_http_session_free; a new session starts without a connection.
session_free ==
  /\ pc = "idle" /\ conn["session"].up
  /\ Drop("session")
  /\ UNCHANGED <<thread, call, kind, ran, sends, hops>>

Client ==
  \/ Begin \/ ConnectAddr \/ ConnectFails \/ make_fails \/ tcp_client_make
  \/ ossl_wrap \/ ossl_wrap_fails \/ build_request_fails \/ TooLate \/ Send
  \/ ReadFails \/ ReadMore \/ ReadEof \/ ParseFails \/ SessionReturns \/ OnceReturns

Next ==
  \/ \E k \in Kinds : Call(k) \/ Serve(k) \/ Deliver(k) \/ Cut(k)
  \/ \E c \in Calls : ServeLost(c)
  \/ DeadlinePasses \/ PeerHello \/ Client \/ session_free

(* Each wait of the thread but the handshake's ends by its timeout, and    *)
(* deadlines pass.  A peer that accepted need not say anything.            *)
Spec == Init /\ [][Next]_vars /\ WF_vars(Client) /\ WF_vars(DeadlinePasses)

-----------------------------------------------------------------------------
(* What a call returns is the answer to that call, in the order it was     *)
(* sent and from its start, also when earlier calls on the session timed   *)
(* out or failed while their answers were under way; and a chunked answer  *)
(* is never returned cut short.                                            *)
AnswersOwnCall ==
  /\ \A i \in DOMAIN result : result[i].of = call /\ result[i].i = i
  /\ pc = "idle" /\ result # <<>> /\ result[1].reply.framing = "chunked"
       => Len(result) = result[1].reply.total

(* A request is run at most once for every time it was sent, which a       *)
(* session does at most twice and a one-shot once per hop, also when the   *)
(* server runs it after the client gave up.                                *)
RunsBounded ==
  /\ \A c \in Calls : ran[c] + lost[c] <= sends[c]
  /\ call > 0 => sends[call] <= IF kind = "session" THEN 2 ELSE Len(hops)

(* The redirects of one call are at most MaxRedirects, and once a hop was  *)
(* secure no later one is in the clear.                                    *)
RedirectsSafe ==
  /\ Len(hops) <= MaxRedirects + 1
  /\ \A i, j \in DOMAIN hops : i < j /\ hops[i] => hops[j]

(* Every call returns, whatever the servers do, as long as none of those   *)
(* that are asked for TLS stays silent in the handshake.                   *)
ClientReturns == (pc = "handshake" ~> hello) => ((pc # "idle") ~> (pc = "idle"))

(* Said of timeout_ms (http.h:34-35): the deadline is for the whole call,  *)
(* the TLS handshake included.                                             *)
DeadlineHonoured == (pc # "idle" /\ Expired) ~> (pc = "idle")

(* Said of the retry of zcio_http_session_request (http.c:953-954): a live *)
(* connection never takes it, so only a connection that the peer has ended *)
(* makes a request that was sent be sent again.                            *)
LiveNotRetried == [][pc = "read" /\ pc' = "turn" => conn["session"].cut # "no"]_vars
=============================================================================
