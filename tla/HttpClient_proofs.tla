-------------------------- MODULE HttpClient_proofs --------------------------
(***************************************************************************)
(* Proofs about the HTTP client, for every number of calls, redirects and  *)
(* addresses and every cap on a response: a call returns its own answer,   *)
(* no request is run more often than it was sent, and no redirect of a     *)
(* secure URL is followed into the clear.                                  *)
(***************************************************************************)
EXTENDS HttpClient, TLAPS

USE DEF thread, history

Reply == Replies("session") \union Replies("once")
Piece == [of : Calls, i : Nat, reply : Reply]
Conn  == [up : BOOLEAN, unserved : 0 .. MaxCalls, todo : Seq(Piece), wire : Seq(Piece),
          cut : {"no", "eof", "reset"}]

Types ==
  /\ pc \in {"idle", "turn", "connect", "secure", "handshake", "send", "read", "parse"}
  /\ call \in 0 .. MaxCalls /\ (pc # "idle" => call # 0)
  /\ kind \in Kinds /\ turn \in Nat /\ secure \in BOOLEAN
  /\ conn \in [Kinds -> Conn] /\ raw \in Seq(Piece)
  /\ lost \in [Calls -> Nat] /\ ran \in [Calls -> Nat] /\ sends \in [Calls -> Nat]
  /\ hops \in Seq(BOOLEAN)

(* Only the connection that is being read from has a request or an answer under way, and
   a one-shot's connection does not outlive its exchange. *)
Quiet(k) == conn[k].unserved = 0 /\ conn[k].todo = <<>> /\ conn[k].wire = <<>>
Lines ==
  /\ \A k \in Kinds : ~(pc = "read" /\ kind = k) => Quiet(k)
  /\ conn["once"].up => kind = "once" /\ pc \in {"send", "read", "parse"}
  /\ pc \in {"connect", "secure", "handshake", "send"} => raw = <<>>
  /\ \A k \in Kinds : conn[k].cut # "no" => conn[k].unserved = 0 /\ conn[k].todo = <<>>

(* What has been read, what has arrived and what is still to come are, one after another,
   the pieces of one answer to the current call. *)
Nth(reply, n) == [of |-> call, i |-> n, reply |-> reply]
Under(k, reply) ==
  LET w == conn[k].wire  t == conn[k].todo
  IN  /\ Len(raw) + Len(w) + Len(t) <= reply.pieces
      /\ \A i \in 1 .. Len(raw) : raw[i] = Nth(reply, i)
      /\ \A i \in 1 .. Len(w) : w[i] = Nth(reply, Len(raw) + i)
      /\ \A i \in 1 .. Len(t) : t[i] = Nth(reply, Len(raw) + Len(w) + i)
Answer ==
  /\ pc \in {"read", "parse"} => \E reply \in Replies(kind) : Under(kind, reply)
  /\ pc = "read" /\ conn[kind].unserved # 0
       => /\ conn[kind].unserved = call
          /\ raw = <<>> /\ conn[kind].todo = <<>> /\ conn[kind].wire = <<>>

(* The returned answer. *)
Returned ==
  /\ \A i \in DOMAIN result : result[i].of = call /\ result[i].i = i
  /\ result # <<>> /\ result[1].reply.framing = "chunked"
       => Len(result) = result[1].reply.total

(* A request that waits at a server is a send that no run answers yet. *)
Runs ==
  /\ \A c \in Calls : ran[c] + lost[c] <= sends[c]
  /\ \A c \in Calls : c > call => sends[c] = 0
  /\ pc = "read" /\ conn[kind].unserved # 0 => ran[call] + lost[call] + 1 <= sends[call]

(* How many sends and dials the turns of a call allow. *)
Turns ==
  /\ kind = "session" => turn <= 1 /\ hops = <<>>
  /\ kind = "once" => turn <= MaxRedirects /\ Len(hops) <= turn + 1
  /\ kind = "once" /\ pc \in {"turn", "connect", "secure", "handshake"} => Len(hops) <= turn
  /\ call # 0 => sends[call] <= IF kind = "session" THEN turn + 1 ELSE Len(hops)
  /\ pc \in {"turn", "connect", "secure", "handshake", "send"} /\ kind = "session" => sends[call] <= turn
  /\ pc = "send" /\ kind = "once" => sends[call] + 1 <= Len(hops)

(* A call whose hops were ever secure is at a secure URL. *)
Secured ==
  /\ \A i \in DOMAIN hops : hops[i] => secure
  /\ \A i, j \in DOMAIN hops : i < j /\ hops[i] => hops[j]

ClientInv == Types /\ Lines /\ Answer /\ Returned /\ Runs /\ Turns /\ Secured

-----------------------------------------------------------------------------
(* The steps of the client, sorted by what they do to the call. *)

(* An exchange fails: before the request is out, with the connection as it is or dropped;
   or later, and then the connection is dropped. *)
Failed ==
  /\ pc # "idle" /\ ExchangeFails
  /\ \/ UNCHANGED <<conn, lost>> /\ pc \in {"turn", "connect", "secure", "handshake", "send"}
        /\ (kind = "once" => pc # "send")
     \/ Drop(kind)
  /\ \/ sends' = sends
     \/ pc = "send" /\ sends' = [sends EXCEPT ![call] = @ + 1]
  /\ raw' \in {raw, <<>>}
  /\ UNCHANGED <<secure, result, call, kind, ran, hops>>

BeginGoes ==
  /\ pc = "turn" /\ pc' = IF conn[kind].up THEN "send" ELSE "connect"
  /\ raw' = <<>> /\ UNCHANGED <<turn, secure, result, call, kind, conn, history>>

ConnectGoes ==
  /\ pc \in {"connect", "secure"} /\ pc' \in {"connect", "secure", "handshake"}
  /\ UNCHANGED <<turn, secure, raw, result, call, kind, conn, history>>

Dialed == pc \in {"secure", "handshake"} /\ Connected

SendGoes ==
  /\ pc = "send" /\ pc' = "read"
  /\ sends' = [sends EXCEPT ![call] = @ + 1]
  /\ conn' = IF conn[kind].cut = "no"
             THEN [conn EXCEPT ![kind].unserved = call] ELSE conn
  /\ UNCHANGED <<turn, secure, raw, result, call, kind, ran, lost, hops>>

Waits == UNCHANGED <<pc, turn, secure, raw, result, call, kind, conn, history>>

LEMMA FailedSteps ==
  /\ Begin => Failed \/ BeginGoes
  /\ Send => Failed \/ SendGoes
  /\ ConnectFails \/ make_fails \/ ossl_wrap_fails \/ NotSent \/ ReadFails \/ ParseFails => Failed
  /\ ConnectAddr => ConnectGoes
  /\ tcp_client_make \/ ossl_wrap => ConnectGoes \/ Dialed
<1>1. Begin => Failed \/ BeginGoes
  BY DEF Begin, Failed, BeginGoes
<1>2. Send => Failed \/ SendGoes
  <2> SUFFICES ASSUME Send PROVE Failed \/ SendGoes
    OBVIOUS
  <2>1. /\ pc = "send" /\ sends' = [sends EXCEPT ![call] = @ + 1]
        /\ UNCHANGED <<secure, raw, result, call, kind, ran, hops>>
    BY DEF Send
  <2>2. CASE ExchangeFails /\ Drop(kind)
    BY <2>1, <2>2 DEF Failed
  <2>3. CASE /\ pc' = "read" /\ turn' = turn
             /\ conn' = IF conn[kind].cut = "no"
                        THEN [conn EXCEPT ![kind].unserved = call] ELSE conn
             /\ lost' = lost
    BY <2>1, <2>3 DEF SendGoes
  <2> QED BY <2>2, <2>3 DEF Send
<1>3. ConnectFails \/ make_fails \/ ossl_wrap_fails \/ ReadFails \/ ParseFails => Failed
  BY DEF ConnectFails, make_fails, ossl_wrap_fails, ReadFails, ParseFails, Failed
<1>4. NotSent => Failed
  BY DEF NotSent, Failed
<1>5. ConnectAddr => ConnectGoes
  BY DEF ConnectAddr, ConnectGoes
<1>6. tcp_client_make \/ ossl_wrap => ConnectGoes \/ Dialed
  BY DEF tcp_client_make, ossl_wrap, ConnectGoes, Dialed
<1> QED BY <1>1, <1>2, <1>3, <1>4, <1>5, <1>6

LEMMA Steps ==
  ASSUME [Next]_vars
  PROVE  \/ Waits \/ Failed \/ BeginGoes \/ ConnectGoes \/ Dialed \/ SendGoes
         \/ ReadMore \/ ReadEof \/ SessionReturns \/ OnceReturns \/ session_free
         \/ \E k \in Kinds : Call(k) \/ Serve(k) \/ Deliver(k) \/ Cut(k)
         \/ \E c \in Calls : ServeLost(c)
<1>1. CASE UNCHANGED vars
  BY <1>1 DEF vars, Waits
<1>2. CASE DeadlinePasses \/ PeerHello
  BY <1>2 DEF DeadlinePasses, PeerHello, Waits
<1>3. CASE Client
  BY <1>3, FailedSteps DEF Client, build_request_fails, TooLate
<1> QED BY <1>1, <1>2, <1>3 DEF Next

(* The constants, and the replies: none has more pieces than its framing promises. *)
LEMMA Facts ==
  /\ MaxRedirects \in Nat /\ MaxResponse \in Nat /\ MaxAddrs \in Nat /\ MaxCalls \in Nat
  /\ \A k \in Kinds : Replies(k) # {} /\ Replies(k) \subseteq Reply
  /\ \A r \in Reply : r.pieces \in Nat /\ r.total \in Nat /\ r.pieces <= r.total
<1>1. MaxRedirects \in Nat /\ MaxResponse \in Nat /\ MaxAddrs \in Nat /\ MaxCalls \in Nat
  BY ClientAssumption
<1>2. \A k \in Kinds : Replies(k) # {} /\ Replies(k) \subseteq Reply
  BY DEF Kinds, Replies, Reply
<1>3. \A r \in Reply : r.pieces \in Nat /\ r.total \in Nat /\ r.pieces <= r.total
  BY DEF Reply, Replies, R
<1> QED BY <1>1, <1>2, <1>3

LEMMA Empty == <<>> \in Seq(Piece) /\ 0 \in 0 .. MaxCalls
BY Facts

LEMMA Appended ==
  ASSUME NEW S, NEW s \in Seq(S), NEW e \in S
  PROVE  /\ Append(s, e) \in Seq(S) /\ Len(Append(s, e)) = Len(s) + 1
         /\ Append(s, e)[Len(s) + 1] = e
         /\ \A i \in 1 .. Len(s) : Append(s, e)[i] = s[i]
OBVIOUS

(* zcio_read takes n pieces from the front of what has arrived. *)
Taken(s, w, n) == s \o SubSeq(w, 1, n)
Left(w, n) == SubSeq(w, n + 1, Len(w))
LEMMA TakenIs ==
  ASSUME NEW s \in Seq(Piece), NEW w \in Seq(Piece), NEW n \in 1 .. Len(w)
  PROVE  /\ Taken(s, w, n) \in Seq(Piece) /\ Len(Taken(s, w, n)) = Len(s) + n
         /\ \A i \in 1 .. Len(s) : Taken(s, w, n)[i] = s[i]
         /\ \A i \in 1 .. n : Taken(s, w, n)[Len(s) + i] = w[i]
<1> DEFINE got == SubSeq(w, 1, n)
<1>1. /\ got \in Seq(Piece) /\ Len(got) = n /\ \A i \in 1 .. n : got[i] = w[i]
  OBVIOUS
<1> HIDE DEF got
<1>2. /\ s \o got \in Seq(Piece) /\ Len(s \o got) = Len(s) + Len(got)
      /\ \A i \in 1 .. Len(s) : (s \o got)[i] = s[i]
      /\ \A i \in 1 .. Len(got) : (s \o got)[Len(s) + i] = got[i]
  BY <1>1
<1>3. Taken(s, w, n) = s \o got
  BY DEF Taken, got
<1> QED BY <1>1, <1>2, <1>3

LEMMA LeftIs ==
  ASSUME NEW w \in Seq(Piece), NEW n \in 1 .. Len(w)
  PROVE  /\ Left(w, n) \in Seq(Piece) /\ Len(Left(w, n)) = Len(w) - n
         /\ \A i \in 1 .. Len(Left(w, n)) : Left(w, n)[i] = w[n + i]
BY DEF Left

LEMMA Nothing ==
  ASSUME NEW a \in Nat, NEW b \in Nat, NEW c \in Nat, NEW n \in Nat, n <= b,
         NEW p \in Nat, NEW t \in Nat, p <= t, a + b + c <= p, a + n >= t
  PROVE  b - n = 0 /\ c = 0
OBVIOUS

LEMMA Fits ==
  ASSUME NEW a \in Nat, NEW b \in Nat, NEW c \in Nat, NEW p \in Nat, a + b + c <= p
  PROVE  a + b <= p /\ a <= p
OBVIOUS

LEMMA NewConns ==
  /\ NoConn \in Conn /\ Fresh \in Conn /\ NoConn.up = FALSE
  /\ \A c \in {NoConn, Fresh} : c.unserved = 0 /\ c.todo = <<>> /\ c.wire = <<>>
<1>1. NoConn \in Conn
  BY Empty DEF NoConn, Conn
<1>2. Fresh \in Conn
  BY <1>1 DEF Fresh, Conn
<1>3. \A c \in {NoConn, Fresh} : c.unserved = 0 /\ c.todo = <<>> /\ c.wire = <<>>
  BY DEF Fresh, NoConn
<1> QED BY <1>1, <1>2, <1>3 DEF NoConn

(* What session_drop leaves. *)
LEMMA Dropped ==
  ASSUME Types, NEW k \in Kinds, Drop(k)
  PROVE  /\ conn' \in [Kinds -> Conn] /\ conn'[k] = NoConn
         /\ \A j \in Kinds : j # k => conn'[j] = conn[j]
         /\ lost' \in [Calls -> Nat]
         /\ \A c \in Calls : lost'[c] = lost[c] + IF c = conn[k].unserved THEN 1 ELSE 0
<1>1. NoConn \in Conn
  BY NewConns
<1>2. conn[k] \in Conn /\ conn[k].unserved \in 0 .. MaxCalls
  BY DEF Types, Conn
<1>3. conn \in [Kinds -> Conn] /\ conn' = [conn EXCEPT ![k] = NoConn]
  BY DEF Drop, Types
<1>4. /\ conn' \in [Kinds -> Conn] /\ conn'[k] = NoConn
      /\ \A j \in Kinds : j # k => conn'[j] = conn[j]
  BY <1>1, <1>3
<1>5. CASE conn[k].unserved = 0
  <2>1. lost' = lost /\ \A c \in Calls : c # conn[k].unserved
    BY <1>5, Facts DEF Drop, Calls
  <2> QED BY <1>4, <2>1 DEF Types
<1>6. CASE conn[k].unserved # 0
  <2>1. conn[k].unserved \in Calls
    BY <1>2, <1>6, Facts DEF Calls
  <2>2. lost' = [lost EXCEPT ![conn[k].unserved] = @ + 1]
    BY <1>6 DEF Drop
  <2>3. /\ lost' \in [Calls -> Nat]
        /\ \A c \in Calls : lost'[c] = lost[c] + IF c = conn[k].unserved THEN 1 ELSE 0
    BY <2>1, <2>2 DEF Types
  <2> QED BY <1>4, <2>3
<1> QED BY <1>5, <1>6

(* What ExchangeFails decides. *)
LEMMA Retried ==
  ASSUME ExchangeFails
  PROVE  \/ kind = "session" /\ turn = 0 /\ pc' = "turn" /\ turn' = 1
         \/ pc' = "idle" /\ turn' = turn
BY DEF ExchangeFails

(* The pieces of an answer. *)
LEMMA PiecesAre ==
  ASSUME NEW c \in Calls, NEW k \in Kinds, NEW r \in Replies(k)
  PROVE  /\ Pieces(c, r) \in Seq(Piece) /\ Len(Pieces(c, r)) = r.pieces
         /\ \A i \in 1 .. r.pieces : Pieces(c, r)[i] = [of |-> c, i |-> i, reply |-> r]
<1>1. r \in Reply /\ r.pieces \in Nat
  BY Facts
<1>2. \A i \in 1 .. r.pieces : [of |-> c, i |-> i, reply |-> r] \in Piece
  BY <1>1 DEF Piece
<1> QED BY <1>1, <1>2 DEF Pieces

LEMMA TypesStep ==
  ASSUME ClientInv, [Next]_vars
  PROVE  Types'
<1>0. /\ Types /\ kind \in Kinds /\ conn \in [Kinds -> Conn] /\ conn[kind] \in Conn
      /\ \A k \in Kinds : conn[k] \in Conn
      /\ MaxCalls \in Nat
  BY Facts DEF ClientInv, Types
<1>1. CASE Waits
  BY <1>0, <1>1 DEF Types, Waits
<1>2. CASE Failed
  <2>1. /\ raw' \in {raw, <<>>} /\ UNCHANGED <<secure, result, call, kind, ran, hops>>
        /\ pc # "idle" /\ ExchangeFails
    BY <1>2 DEF Failed
  <2>2. conn' \in [Kinds -> Conn] /\ lost' \in [Calls -> Nat]
    BY <1>0, <1>2, Dropped DEF Failed, Types
  <2>c. call \in Calls
    BY <1>0, <2>1 DEF Types, Calls
  <2>3. sends' \in [Calls -> Nat]
    BY <1>0, <1>2, <2>c DEF Failed, Types
  <2>4. pc' \in {"turn", "idle"} /\ turn' \in Nat
    BY <1>0, <2>1, Retried DEF Types
  <2>5. raw' \in Seq(Piece)
    BY <1>0, <2>1, Empty DEF Types
  <2> QED BY <1>0, <2>1, <2>2, <2>3, <2>4, <2>5 DEF Types
<1>3. CASE BeginGoes \/ ConnectGoes
  BY <1>0, <1>3, Empty DEF Types, BeginGoes, ConnectGoes
<1>4. CASE Dialed
  <2>1. Fresh \in Conn
    BY NewConns
  <2>2. /\ pc \in {"secure", "handshake"} /\ pc' = "send" /\ conn' = [conn EXCEPT ![kind] = Fresh]
        /\ hops' = IF kind = "once" THEN Append(hops, secure) ELSE hops
        /\ UNCHANGED <<turn, secure, raw, call, kind, lost, ran, sends>>
    BY <1>4 DEF Dialed, Connected
  <2>3. hops' \in Seq(BOOLEAN)
    BY <1>0, <2>2, Appended DEF Types
  <2>4. conn' \in [Kinds -> Conn]
    BY <1>0, <2>1, <2>2
  <2> QED BY <1>0, <2>2, <2>3, <2>4 DEF Types
<1>5. CASE SendGoes
  <2>1. call \in Calls /\ call \in 0 .. MaxCalls
    BY <1>0, <1>5 DEF Types, SendGoes, Calls
  <2>2. conn' \in [Kinds -> Conn]
    BY <1>0, <1>5, <2>1 DEF SendGoes, Conn
  <2>3. sends' \in [Calls -> Nat]
    BY <1>0, <1>5, <2>1 DEF SendGoes, Types
  <2> QED BY <1>0, <1>5, <2>2, <2>3 DEF Types, SendGoes
<1>6. CASE ReadMore
  <2>1. PICK n \in 1 .. Len(conn[kind].wire) :
          /\ raw' = raw \o SubSeq(conn[kind].wire, 1, n)
          /\ conn' = [conn EXCEPT ![kind].wire = SubSeq(@, n + 1, Len(@))]
          /\ pc' \in {"parse", "read"}
    BY <1>6 DEF ReadMore
  <2>2. pc = "read" /\ UNCHANGED <<turn, secure, call, kind, lost, ran, sends, hops>>
    BY <1>6 DEF ReadMore
  <2>3. conn[kind].wire \in Seq(Piece) /\ raw \in Seq(Piece)
    BY <1>0 DEF Types, Conn
  <2>4. /\ SubSeq(conn[kind].wire, 1, n) \in Seq(Piece)
        /\ SubSeq(conn[kind].wire, n + 1, Len(conn[kind].wire)) \in Seq(Piece)
    BY <2>3
  <2>5. raw' \in Seq(Piece)
    BY <2>1, <2>3, <2>4
  <2>6. conn' \in [Kinds -> Conn]
    BY <1>0, <2>1, <2>4 DEF Conn
  <2> QED BY <1>0, <2>1, <2>2, <2>5, <2>6 DEF Types
<1>7. CASE ReadEof
  BY <1>0, <1>7 DEF Types, ReadEof
<1>8. CASE SessionReturns
  <2>1. conn' \in [Kinds -> Conn] /\ lost' \in [Calls -> Nat]
    BY <1>0, <1>8, Dropped DEF SessionReturns, Types, Kinds
  <2> QED BY <1>0, <1>8, <2>1 DEF SessionReturns, Types
<1>9. CASE OnceReturns
  <2>1. conn' \in [Kinds -> Conn] /\ lost' \in [Calls -> Nat]
    BY <1>0, <1>9, Dropped DEF OnceReturns, Kinds
  <2>2. /\ pc # "idle" /\ pc' \in {"turn", "idle"} /\ turn' \in {turn, turn + 1}
        /\ secure' \in BOOLEAN \union {secure}
        /\ UNCHANGED <<raw, call, kind, ran, sends, hops>>
    BY <1>9 DEF OnceReturns
  <2>3. turn' \in Nat /\ secure' \in BOOLEAN
    BY <1>0, <2>2 DEF Types
  <2> QED BY <1>0, <2>1, <2>2, <2>3 DEF Types
<1>10. CASE session_free
  <2>1. conn' \in [Kinds -> Conn] /\ lost' \in [Calls -> Nat]
    BY <1>0, <1>10, Dropped DEF session_free, Kinds
  <2> QED BY <1>0, <1>10, <2>1 DEF session_free, Types
<1>11. ASSUME NEW k \in Kinds, Call(k) PROVE Types'
  <2>1. /\ pc' = "turn" /\ call < MaxCalls /\ call' = call + 1 /\ kind' = k /\ turn' = 0
        /\ hops' = <<>> /\ raw' = <<>> /\ UNCHANGED <<conn, lost, ran, sends>>
    BY <1>11 DEF Call
  <2>2. secure' \in BOOLEAN
    <3>1. secure' \in BOOLEAN \/ secure' \in {SessionTls}
      BY <1>11 DEF Call
    <3> QED BY <3>1, ClientAssumption
  <2>3. call' \in 0 .. MaxCalls /\ call' # 0
    BY <1>0, <2>1 DEF Types
  <2> QED BY <1>0, <2>1, <2>2, <2>3 DEF Types
<1>12. ASSUME NEW k \in Kinds, Serve(k) PROVE Types'
  <2>1. conn[k].unserved \in Calls /\ UNCHANGED <<thread, call, kind, lost, sends, hops>>
    BY <1>0, <1>12 DEF Serve, Conn, Calls
  <2>2. ran' \in [Calls -> Nat]
    BY <1>0, <1>12, <2>1 DEF Serve, Types
  <2>3. PICK reply \in Replies(k) :
          conn' = [conn EXCEPT ![k].unserved = 0,
                               ![k].todo = Pieces(conn[k].unserved, reply)]
    BY <1>12 DEF Serve
  <2>4. Pieces(conn[k].unserved, reply) \in Seq(Piece)
    BY <2>1, PiecesAre
  <2>5. conn' \in [Kinds -> Conn]
    BY <1>0, <2>3, <2>4, Empty DEF Conn
  <2> QED BY <1>0, <2>1, <2>2, <2>5 DEF Types
<1>13. ASSUME NEW k \in Kinds, Deliver(k) PROVE Types'
  <2>1. conn[k].todo \in Seq(Piece) /\ conn[k].wire \in Seq(Piece) /\ conn[k].todo # <<>>
    BY <1>0, <1>13 DEF Conn, Deliver
  <2>2. /\ Append(conn[k].wire, Head(conn[k].todo)) \in Seq(Piece)
        /\ Tail(conn[k].todo) \in Seq(Piece)
    BY <2>1
  <2>3. conn' \in [Kinds -> Conn]
    BY <1>0, <1>13, <2>2 DEF Conn, Deliver
  <2> QED BY <1>0, <1>13, <2>3 DEF Types, Deliver
<1>14. ASSUME NEW k \in Kinds, Cut(k) PROVE Types'
  <2>0. PICK how \in {"eof", "reset"} :
          conn' = [conn EXCEPT ![k].cut = how, ![k].todo = <<>>, ![k].unserved = 0]
    BY <1>14 DEF Cut
  <2>1. conn' \in [Kinds -> Conn]
    BY <1>0, <2>0, Empty DEF Conn
  <2> QED BY <1>0, <1>14, <2>1 DEF Types, Cut
<1>15. ASSUME NEW c \in Calls, ServeLost(c) PROVE Types'
  BY <1>0, <1>15 DEF Types, ServeLost
<1> QED BY <1>1, <1>2, <1>3, <1>4, <1>5, <1>6, <1>7, <1>8, <1>9, <1>10, <1>11, <1>12,
           <1>13, <1>14, <1>15, Steps

(* What the servers do to a connection. *)
LEMMA Others ==
  ASSUME Types, NEW k \in Kinds, Serve(k) \/ Deliver(k) \/ Cut(k)
  PROVE  /\ \A j \in Kinds : j # k => conn'[j] = conn[j]
         /\ conn'[k].up = conn[k].up
         /\ UNCHANGED <<pc, kind, raw, call, result, turn, secure, sends, hops>>
<1>1. conn \in [Kinds -> Conn]
  BY DEF Types
<1>2. CASE Serve(k)
  <2>1. PICK reply \in Replies(k) :
          conn' = [conn EXCEPT ![k].unserved = 0,
                               ![k].todo = Pieces(conn[k].unserved, reply)]
    BY <1>2 DEF Serve
  <2>2. UNCHANGED <<thread, call, kind, sends, hops>>
    BY <1>2 DEF Serve
  <2> QED BY <1>1, <2>1, <2>2 DEF Conn
<1>3. CASE Deliver(k)
  BY <1>1, <1>3 DEF Deliver, Conn
<1>4. CASE Cut(k)
  <2>1. PICK how : conn' = [conn EXCEPT ![k].cut = how, ![k].todo = <<>>, ![k].unserved = 0]
    BY <1>4 DEF Cut
  <2>2. UNCHANGED <<thread, call, kind, sends, hops>>
    BY <1>4 DEF Cut
  <2> QED BY <1>1, <2>1, <2>2 DEF Conn
<1> QED BY <1>2, <1>3, <1>4

(* A response that is complete by its framing leaves nothing behind it. *)
LEMMA CompleteIsAll ==
  ASSUME ClientInv, ReadMore
  PROVE  \E n \in 1 .. Len(conn[kind].wire), reply \in Replies(kind) :
           /\ Under(kind, reply)
           /\ conn'[kind].wire = Left(conn[kind].wire, n)
           /\ conn'[kind].todo = conn[kind].todo /\ conn'[kind].unserved = 0
           /\ conn'[kind].cut = conn[kind].cut /\ conn'[kind].up = conn[kind].up
           /\ conn[kind].unserved = 0
           /\ \A j \in Kinds : j # kind => conn'[j] = conn[j]
           /\ raw' \in Seq(Piece) /\ Len(raw') = Len(raw) + n
           /\ \A i \in 1 .. Len(raw') : raw'[i] = Nth(reply, i)
           /\ \/ pc' = "read"
              \/ pc' = "parse" /\ conn'[kind].wire = <<>> /\ conn'[kind].todo = <<>>
<1>0. /\ Types /\ Answer /\ pc = "read" /\ kind \in Kinds
      /\ conn \in [Kinds -> Conn] /\ raw \in Seq(Piece)
      /\ conn[kind].wire \in Seq(Piece) /\ conn[kind].todo \in Seq(Piece)
  BY DEF ClientInv, Types, Conn, ReadMore
<1>1. PICK reply \in Replies(kind) : Under(kind, reply)
  BY <1>0 DEF Answer
<1>2. PICK n \in 1 .. Len(conn[kind].wire) :
        /\ raw' = raw \o SubSeq(conn[kind].wire, 1, n)
        /\ conn' = [conn EXCEPT ![kind].wire = SubSeq(@, n + 1, Len(@))]
        /\ pc' = IF Complete(raw \o SubSeq(conn[kind].wire, 1, n)) THEN "parse" ELSE "read"
  BY DEF ReadMore
<1> DEFINE w == conn[kind].wire
<1>3. n \in Nat /\ n >= 1 /\ n <= Len(w) /\ Len(w) \in Nat /\ Len(raw) \in Nat
  BY <1>0
<1>4. /\ raw' \in Seq(Piece) /\ Len(raw') = Len(raw) + n
      /\ \A i \in 1 .. Len(raw) : raw'[i] = raw[i]
      /\ \A i \in 1 .. n : raw'[Len(raw) + i] = w[i]
      /\ Left(w, n) \in Seq(Piece) /\ Len(Left(w, n)) = Len(w) - n
  <2>1. raw \in Seq(Piece) /\ w \in Seq(Piece) /\ n \in 1 .. Len(w)
    BY <1>0
  <2>2. raw' = Taken(raw, w, n)
    BY <1>2 DEF Taken
  <2>3. /\ Taken(raw, w, n) \in Seq(Piece) /\ Len(Taken(raw, w, n)) = Len(raw) + n
        /\ \A i \in 1 .. Len(raw) : Taken(raw, w, n)[i] = raw[i]
        /\ \A i \in 1 .. n : Taken(raw, w, n)[Len(raw) + i] = w[i]
    <3> HIDE DEF w
    <3> QED BY <2>1, TakenIs
  <2>4. Left(w, n) \in Seq(Piece) /\ Len(Left(w, n)) = Len(w) - n
    <3> HIDE DEF w
    <3> QED BY <2>1, LeftIs
  <2> QED BY <2>2, <2>3, <2>4
<1>5. \A i \in 1 .. Len(raw') : raw'[i] = Nth(reply, i)
  <2> SUFFICES ASSUME NEW i \in 1 .. Len(raw') PROVE raw'[i] = Nth(reply, i)
    OBVIOUS
  <2>1. CASE i <= Len(raw)
    BY <1>1, <1>3, <1>4, <2>1 DEF Under
  <2>2. CASE i > Len(raw)
    <3>1. i - Len(raw) \in 1 .. n /\ i - Len(raw) \in 1 .. Len(w) /\ Len(raw) + (i - Len(raw)) = i
      BY <1>3, <1>4, <2>2
    <3>2. raw'[i] = w[i - Len(raw)]
      BY <1>3, <1>4, <3>1
    <3>3. w[i - Len(raw)] = Nth(reply, Len(raw) + (i - Len(raw)))
      BY <1>1, <3>1 DEF Under
    <3> QED BY <3>1, <3>2, <3>3
  <2> QED BY <1>3, <1>4, <2>1, <2>2
<1>6. conn[kind].unserved = 0
  BY <1>0, <1>3 DEF Answer
<1>7. /\ conn'[kind].wire = Left(w, n)
      /\ conn'[kind].todo = conn[kind].todo /\ conn'[kind].unserved = 0
      /\ conn'[kind].cut = conn[kind].cut /\ conn'[kind].up = conn[kind].up
      /\ \A j \in Kinds : j # kind => conn'[j] = conn[j]
  BY <1>0, <1>2, <1>6 DEF Conn, Left
<1>8. CASE pc' = "parse"
  <2>1. Complete(raw')
    BY <1>2, <1>8
  <2>2. raw'[1].reply = reply
    BY <1>3, <1>4, <1>5 DEF Nth
  <2>3. Len(raw') >= reply.total
    BY <2>1, <2>2 DEF Complete, find_header_value
  <2>4. reply.pieces \in Nat /\ reply.total \in Nat /\ reply.pieces <= reply.total
    BY <1>0, <1>1, Facts
  <2>5. Len(raw) + Len(w) + Len(conn[kind].todo) <= reply.pieces
    BY <1>1 DEF Under
  <2>6. Len(w) - n = 0 /\ Len(conn[kind].todo) = 0
    <3>1. Len(raw') = Len(raw) + n /\ Len(conn[kind].todo) \in Nat
      BY <1>0, <1>4
    <3>2. Len(raw) + n >= reply.total
      BY <2>3, <3>1
    <3> QED BY <1>3, <2>4, <2>5, <3>1, <3>2, Nothing
  <2>7. conn'[kind].wire = <<>> /\ conn'[kind].todo = <<>>
    BY <1>0, <1>4, <1>7, <2>6
  <2> QED BY <1>1, <1>2, <1>4, <1>5, <1>6, <1>7, <1>8, <2>7
<1>9. CASE pc' = "read"
  BY <1>1, <1>2, <1>4, <1>5, <1>6, <1>7, <1>9
<1> QED BY <1>2, <1>8, <1>9

(* The connections that a server touches are the one that is being read from, or are
   only closed. *)
LEMMA Reading ==
  ASSUME Lines, NEW k \in Kinds, Serve(k) \/ Deliver(k)
  PROVE  pc = "read" /\ kind = k
BY DEF Lines, Quiet, Serve, Deliver

LEMMA LinesStep ==
  ASSUME ClientInv, [Next]_vars
  PROVE  Lines'
<1>0. /\ Types /\ Lines /\ kind \in Kinds /\ conn \in [Kinds -> Conn]
      /\ \A k \in Kinds : conn[k] \in Conn
      /\ Kinds = {"session", "once"}
  BY DEF ClientInv, Types, Kinds
<1>1. CASE Waits
  BY <1>0, <1>1 DEF Lines, Quiet, Waits
<1>d. ASSUME NEW k \in Kinds, Drop(k)
      PROVE  /\ Quiet(k)' /\ ~conn'[k].up
             /\ \A j \in Kinds : j # k => conn'[j] = conn[j]
             /\ \A j \in Kinds : conn'[j].cut # "no"
                                   => conn'[j].unserved = 0 /\ conn'[j].todo = <<>>
  BY <1>0, <1>d, Dropped, NewConns DEF Quiet, Lines
<1>2. CASE Failed
  <2>1. pc' \in {"turn", "idle"} /\ kind' = kind
    BY <1>2, Retried DEF Failed
  <2>2. CASE Drop(kind)
    BY <1>0, <1>d, <2>1, <2>2 DEF Lines, Quiet
  <2>3. CASE /\ conn' = conn /\ pc \in {"turn", "connect", "secure", "handshake", "send"}
             /\ (kind = "once" => pc # "send")
    BY <1>0, <2>1, <2>3 DEF Lines, Quiet
  <2> QED BY <1>2, <2>2, <2>3 DEF Failed
<1>3. CASE BeginGoes \/ ConnectGoes
  BY <1>0, <1>3 DEF BeginGoes, ConnectGoes, Lines, Quiet
<1>4. CASE Dialed
  <2>1. /\ pc \in {"secure", "handshake"} /\ pc' = "send" /\ raw' = raw /\ kind' = kind
        /\ conn' = [conn EXCEPT ![kind] = Fresh]
    BY <1>4 DEF Dialed, Connected
  <2>2. conn'[kind] = Fresh /\ \A j \in Kinds : j # kind => conn'[j] = conn[j]
    BY <1>0, <2>1
  <2> QED BY <1>0, <2>1, <2>2, NewConns DEF Lines, Quiet
<1>5. CASE SendGoes
  <2>1. /\ pc = "send" /\ pc' = "read" /\ raw' = raw /\ kind' = kind
        /\ \A j \in Kinds : j # kind => conn'[j] = conn[j]
        /\ conn'[kind].up = conn[kind].up /\ conn'[kind].todo = conn[kind].todo
        /\ conn'[kind].cut = conn[kind].cut
        /\ (conn[kind].cut # "no" => conn'[kind] = conn[kind])
    BY <1>0, <1>5 DEF SendGoes, Conn
  <2> QED BY <1>0, <2>1 DEF Lines, Quiet
<1>6. CASE ReadMore
  <2>1. pc = "read" /\ kind' = kind
    BY <1>6 DEF ReadMore
  <2>2. /\ conn'[kind].todo = conn[kind].todo /\ conn'[kind].unserved = 0
        /\ conn'[kind].cut = conn[kind].cut /\ conn'[kind].up = conn[kind].up
        /\ \A j \in Kinds : j # kind => conn'[j] = conn[j]
        /\ \/ pc' = "read"
           \/ pc' = "parse" /\ conn'[kind].wire = <<>> /\ conn'[kind].todo = <<>>
    BY <1>6, CompleteIsAll
  <2> QED BY <1>0, <2>1, <2>2 DEF Lines, Quiet
<1>7. CASE ReadEof
  BY <1>0, <1>7 DEF ReadEof, Lines, Quiet
<1>8. CASE SessionReturns
  <2>1. pc = "parse" /\ pc' = "idle" /\ kind = "session" /\ kind' = kind
    BY <1>8 DEF SessionReturns
  <2>2. CASE Drop("session")
    BY <1>0, <1>d, <2>1, <2>2 DEF Lines, Quiet
  <2>3. CASE conn' = conn
    BY <1>0, <2>1, <2>3 DEF Lines, Quiet
  <2> QED BY <1>8, <2>2, <2>3 DEF SessionReturns
<1>9. CASE OnceReturns
  <2>1. pc = "parse" /\ pc' \in {"idle", "turn"} /\ kind = "once" /\ kind' = kind /\ Drop("once")
    BY <1>9 DEF OnceReturns
  <2> QED BY <1>0, <1>d, <2>1 DEF Lines, Quiet
<1>10. CASE session_free
  <2>1. pc = "idle" /\ pc' = pc /\ kind' = kind /\ raw' = raw /\ Drop("session")
    BY <1>10 DEF session_free
  <2> QED BY <1>0, <1>d, <2>1 DEF Lines, Quiet
<1>11. ASSUME NEW k \in Kinds, Call(k) PROVE Lines'
  BY <1>0, <1>11 DEF Call, Lines, Quiet
<1>12. ASSUME NEW k \in Kinds, Serve(k) PROVE Lines'
  <2>1. pc = "read" /\ kind = k
    BY <1>0, <1>12, Reading
  <2>2. /\ \A j \in Kinds : j # k => conn'[j] = conn[j]
        /\ conn'[k].up = conn[k].up /\ UNCHANGED <<pc, kind, raw>>
    BY <1>0, <1>12, Others
  <2>3. conn[k].cut = "no" /\ conn'[k].cut = conn[k].cut
    BY <1>0, <1>12 DEF Serve, Lines, Conn
  <2> QED BY <1>0, <2>1, <2>2, <2>3 DEF Lines, Quiet
<1>13. ASSUME NEW k \in Kinds, Deliver(k) PROVE Lines'
  <2>1. pc = "read" /\ kind = k
    BY <1>0, <1>13, Reading
  <2>2. /\ \A j \in Kinds : j # k => conn'[j] = conn[j]
        /\ conn'[k].up = conn[k].up /\ UNCHANGED <<pc, kind, raw>>
    BY <1>0, <1>13, Others
  <2>3. conn[k].cut = "no" /\ conn'[k].cut = conn[k].cut
    BY <1>0, <1>13 DEF Deliver, Lines, Conn
  <2> QED BY <1>0, <2>1, <2>2, <2>3 DEF Lines, Quiet
<1>14. ASSUME NEW k \in Kinds, Cut(k) PROVE Lines'
  <2>1. /\ \A j \in Kinds : j # k => conn'[j] = conn[j]
        /\ conn'[k].up = conn[k].up /\ UNCHANGED <<pc, kind, raw>>
    BY <1>0, <1>14, Others
  <2>2. conn'[k].unserved = 0 /\ conn'[k].todo = <<>> /\ conn'[k].wire = conn[k].wire
    BY <1>0, <1>14 DEF Cut, Conn
  <2> QED BY <1>0, <2>1, <2>2 DEF Lines, Quiet
<1>15. ASSUME NEW c \in Calls, ServeLost(c) PROVE Lines'
  BY <1>0, <1>15 DEF ServeLost, Lines, Quiet
<1> QED BY <1>1, <1>2, <1>3, <1>4, <1>5, <1>6, <1>7, <1>8, <1>9, <1>10, <1>11, <1>12,
           <1>13, <1>14, <1>15, Steps

-----------------------------------------------------------------------------
LEMMA Stays ==
  ASSUME NEW k, NEW reply, Under(k, reply), UNCHANGED <<raw, call>>,
         conn'[k].wire = conn[k].wire, conn'[k].todo = conn[k].todo
  PROVE  Under(k, reply)'
BY DEF Under, Nth

(* No step but these four changes what is under way for the call that is being read. *)
LEMMA AnswerStep ==
  ASSUME ClientInv, [Next]_vars
  PROVE  Answer'
<1>0. /\ Types /\ Lines /\ Answer /\ kind \in Kinds /\ conn \in [Kinds -> Conn]
      /\ \A k \in Kinds : conn[k] \in Conn
      /\ raw \in Seq(Piece) /\ conn[kind].wire \in Seq(Piece) /\ conn[kind].todo \in Seq(Piece)
  BY DEF ClientInv, Types, Conn
<1>a. CASE pc' \notin {"read", "parse"}
  BY <1>a DEF Answer
<1>b. CASE /\ UNCHANGED <<pc, kind, call, raw>> /\ conn'[kind] = conn[kind]
  <2>1. ASSUME pc \in {"read", "parse"} PROVE \E reply \in Replies(kind) : Under(kind, reply)'
    BY <1>0, <1>b, <2>1, Stays DEF Answer
  <2> QED BY <1>0, <1>b, <2>1 DEF Answer, Under, Nth
<1>1. CASE Waits
  BY <1>1, <1>b DEF Waits
<1>2. CASE Failed
  BY <1>2, <1>a, Retried DEF Failed
<1>3. CASE BeginGoes \/ ConnectGoes
  BY <1>3, <1>a DEF BeginGoes, ConnectGoes
<1>4. CASE Dialed \/ SessionReturns \/ OnceReturns
  BY <1>4, <1>a DEF Dialed, Connected, SessionReturns, OnceReturns
<1>5. CASE SendGoes
  <2>1. /\ pc = "send" /\ pc' = "read" /\ UNCHANGED <<raw, kind, call>>
        /\ conn'[kind].todo = conn[kind].todo /\ conn'[kind].wire = conn[kind].wire
        /\ conn'[kind].unserved \in {call, conn[kind].unserved}
    BY <1>0, <1>5 DEF SendGoes, Conn
  <2>2. /\ raw' = <<>> /\ conn'[kind].todo = <<>> /\ conn'[kind].wire = <<>>
        /\ conn'[kind].unserved \in {0, call}
    BY <1>0, <2>1 DEF Lines, Quiet
  <2>3. PICK reply \in Replies(kind) : reply.pieces \in Nat
    BY <1>0, Facts
  <2>4. Under(kind, reply)'
    BY <2>1, <2>2, <2>3 DEF Under
  <2> QED BY <2>1, <2>2, <2>4 DEF Answer
<1>6. CASE ReadMore
  <2>1. pc = "read" /\ UNCHANGED <<kind, call>>
    BY <1>6 DEF ReadMore
  <2>2. PICK n \in 1 .. Len(conn[kind].wire), reply \in Replies(kind) :
           /\ Under(kind, reply)
           /\ conn'[kind].wire = Left(conn[kind].wire, n)
           /\ conn'[kind].todo = conn[kind].todo /\ conn'[kind].unserved = 0
           /\ raw' \in Seq(Piece) /\ Len(raw') = Len(raw) + n
           /\ \A i \in 1 .. Len(raw') : raw'[i] = Nth(reply, i)
    BY <1>6, CompleteIsAll
  <2> DEFINE w == conn[kind].wire  v == conn'[kind].wire  t == conn[kind].todo
  <2>3. /\ v \in Seq(Piece) /\ Len(v) = Len(w) - n
        /\ \A i \in 1 .. Len(v) : v[i] = w[n + i]
    <3>1. w \in Seq(Piece) /\ n \in 1 .. Len(w) /\ v = Left(w, n)
      BY <1>0, <2>2
    <3> HIDE DEF w, v
    <3>2. /\ Left(w, n) \in Seq(Piece) /\ Len(Left(w, n)) = Len(w) - n
          /\ \A i \in 1 .. Len(Left(w, n)) : Left(w, n)[i] = w[n + i]
      BY <3>1, LeftIs
    <3> QED BY <3>1, <3>2
  <2>4. Len(raw) \in Nat /\ Len(w) \in Nat /\ Len(t) \in Nat /\ n \in Nat /\ n <= Len(w)
    BY <1>0, <2>2
  <2> HIDE DEF w, v, t
  <2>5. Len(raw') + Len(v) = Len(raw) + Len(w)
    BY <2>2, <2>3, <2>4
  <2>6. \A i \in 1 .. Len(v) : v[i] = Nth(reply, Len(raw') + i)
    <3> SUFFICES ASSUME NEW i \in 1 .. Len(v) PROVE v[i] = Nth(reply, Len(raw') + i)
      OBVIOUS
    <3>1. n + i \in 1 .. Len(w) /\ Len(raw) + (n + i) = Len(raw') + i
      BY <2>2, <2>3, <2>4
    <3>2. v[i] = w[n + i]
      BY <2>3
    <3>3. w[n + i] = Nth(reply, Len(raw) + (n + i))
      BY <2>2, <3>1 DEF Under, w
    <3> QED BY <3>1, <3>2, <3>3
  <2>7. \A i \in 1 .. Len(t) : t[i] = Nth(reply, Len(raw') + Len(v) + i)
    BY <2>2, <2>5 DEF Under, w, t
  <2>8. Len(raw') + Len(v) + Len(t) <= reply.pieces
    BY <2>2, <2>5 DEF Under, w, t
  <2>9. Under(kind, reply)'
    BY <2>1, <2>2, <2>6, <2>7, <2>8 DEF Under, Nth, v, t
  <2> QED BY <2>1, <2>2, <2>9 DEF Answer
<1>7. CASE ReadEof
  <2>1. pc = "read" /\ pc' = "parse" /\ UNCHANGED <<kind, call, raw, conn>>
    BY <1>7 DEF ReadEof
  <2>2. PICK reply \in Replies(kind) : Under(kind, reply)
    BY <1>0, <2>1 DEF Answer
  <2>3. Under(kind, reply)'
    BY <2>1, <2>2, Stays
  <2> QED BY <2>1, <2>3 DEF Answer
<1>10. CASE session_free
  BY <1>10, <1>a, <1>0 DEF session_free
<1>11. ASSUME NEW k \in Kinds, Call(k) PROVE Answer'
  BY <1>11, <1>a DEF Call
<1>12. ASSUME NEW k \in Kinds, Serve(k) PROVE Answer'
  <2>1. pc = "read" /\ kind = k /\ UNCHANGED <<pc, kind, raw, call>>
    BY <1>0, <1>12, Reading, Others
  <2>2. conn[k].unserved = call /\ raw = <<>> /\ conn[k].wire = <<>> /\ call \in Calls
    BY <1>0, <1>12, <2>1 DEF Serve, Answer, Calls, Conn
  <2>3. PICK reply \in Replies(k) :
          conn' = [conn EXCEPT ![k].unserved = 0,
                               ![k].todo = Pieces(conn[k].unserved, reply)]
    BY <1>12 DEF Serve
  <2>4. /\ conn'[k].unserved = 0 /\ conn'[k].todo = Pieces(call, reply)
        /\ conn'[k].wire = <<>>
    BY <1>0, <2>2, <2>3 DEF Conn
  <2>5. /\ Len(conn'[k].todo) = reply.pieces /\ reply.pieces \in Nat
        /\ \A i \in 1 .. reply.pieces : conn'[k].todo[i] = Nth(reply, i)
    BY <2>2, <2>4, PiecesAre, Facts DEF Nth
  <2>6. Under(k, reply)'
    BY <2>1, <2>2, <2>4, <2>5 DEF Under, Nth
  <2> QED BY <2>1, <2>4, <2>6 DEF Answer
<1>13. ASSUME NEW k \in Kinds, Deliver(k) PROVE Answer'
  <2>1. pc = "read" /\ kind = k /\ UNCHANGED <<pc, kind, raw, call>>
    BY <1>0, <1>13, Reading, Others
  <2> DEFINE w == conn[k].wire  t == conn[k].todo  v == conn'[k].wire  u == conn'[k].todo
  <2>2. v = Append(w, Head(t)) /\ u = Tail(t) /\ conn'[k].unserved = conn[k].unserved /\ t # <<>>
    BY <1>0, <1>13 DEF Deliver, Conn
  <2>3. conn[k].unserved = 0
    BY <1>0, <2>1, <2>2 DEF Answer
  <2>4. PICK reply \in Replies(k) : Under(k, reply)
    BY <1>0, <2>1 DEF Answer
  <2>5. /\ w \in Seq(Piece) /\ t \in Seq(Piece) /\ Len(t) \in Nat /\ Len(t) >= 1
        /\ Len(w) \in Nat /\ Len(raw) \in Nat
    BY <1>0, <2>1, <2>2
  <2>6. /\ Len(u) = Len(t) - 1 /\ \A i \in 1 .. Len(u) : u[i] = t[i + 1]
        /\ Head(t) = t[1] /\ Head(t) \in Piece
    BY <2>2, <2>5
  <2>7. /\ Len(v) = Len(w) + 1 /\ v[Len(w) + 1] = t[1]
        /\ \A i \in 1 .. Len(w) : v[i] = w[i]
    BY <2>2, <2>5, <2>6, Appended
  <2>u. /\ \A i \in 1 .. Len(w) : w[i] = Nth(reply, Len(raw) + i)
        /\ \A i \in 1 .. Len(t) : t[i] = Nth(reply, Len(raw) + Len(w) + i)
        /\ Len(raw) + Len(w) + Len(t) <= reply.pieces
        /\ \A i \in 1 .. Len(raw) : raw[i] = Nth(reply, i)
    BY <2>4 DEF Under
  <2>p. reply.pieces \in Nat
    BY Facts
  <2> HIDE DEF w, t, v, u
  <2>8. \A i \in 1 .. Len(v) : v[i] = Nth(reply, Len(raw) + i)
    <3> SUFFICES ASSUME NEW i \in 1 .. Len(v) PROVE v[i] = Nth(reply, Len(raw) + i)
      OBVIOUS
    <3>1. CASE i <= Len(w)
      BY <2>u, <2>5, <2>7, <3>1
    <3>2. CASE i > Len(w)
      <4>1. i = Len(w) + 1 /\ 1 \in 1 .. Len(t) /\ Len(raw) + Len(w) + 1 = Len(raw) + i
        BY <2>5, <2>7, <3>2
      <4>2. t[1] = Nth(reply, Len(raw) + Len(w) + 1)
        BY <2>u, <4>1
      <4> QED BY <2>7, <4>1, <4>2
    <3> QED BY <2>5, <2>7, <3>1, <3>2
  <2>9. \A i \in 1 .. Len(u) : u[i] = Nth(reply, Len(raw) + Len(v) + i)
    <3> SUFFICES ASSUME NEW i \in 1 .. Len(u) PROVE u[i] = Nth(reply, Len(raw) + Len(v) + i)
      OBVIOUS
    <3>1. i + 1 \in 1 .. Len(t) /\ Len(raw) + Len(w) + (i + 1) = Len(raw) + Len(v) + i
      BY <2>5, <2>6, <2>7
    <3>2. t[i + 1] = Nth(reply, Len(raw) + Len(w) + (i + 1))
      BY <2>u, <3>1
    <3> QED BY <2>6, <3>1, <3>2
  <2>10. Len(raw) + Len(v) + Len(u) <= reply.pieces
    BY <2>p, <2>u, <2>5, <2>6, <2>7
  <2>11. Under(k, reply)'
    BY <2>1, <2>u, <2>8, <2>9, <2>10 DEF Under, Nth, v, u
  <2> QED BY <2>1, <2>2, <2>3, <2>11 DEF Answer, v, u
<1>14. ASSUME NEW k \in Kinds, Cut(k) PROVE Answer'
  <2>1. UNCHANGED <<pc, kind, raw, call>> /\ \A j \in Kinds : j # k => conn'[j] = conn[j]
    BY <1>0, <1>14, Others
  <2>2. CASE k # kind
    BY <1>0, <1>b, <2>1, <2>2
  <2>3. CASE k = kind
    <3>1. conn'[k].unserved = 0 /\ conn'[k].todo = <<>> /\ conn'[k].wire = conn[k].wire
      BY <1>0, <1>14 DEF Cut, Conn
    <3>2. ASSUME NEW reply \in Replies(k), Under(k, reply) PROVE Under(k, reply)'
      <4>1. Len(raw) \in Nat /\ Len(conn[k].wire) \in Nat /\ Len(conn[k].todo) \in Nat
            /\ reply.pieces \in Nat
        BY <1>0, <2>3, Facts
      <4>u. Len(raw) + Len(conn[k].wire) + Len(conn[k].todo) <= reply.pieces
        BY <3>2 DEF Under
      <4>2. Len(raw) + Len(conn[k].wire) <= reply.pieces
        BY <4>1, <4>u, Fits
      <4>3. /\ raw' = raw /\ call' = call /\ conn'[k].wire = conn[k].wire
            /\ Len(conn'[k].todo) = 0
        BY <2>1, <3>1
      <4> QED BY <3>2, <4>1, <4>2, <4>3 DEF Under, Nth
    <3> QED BY <1>0, <2>1, <2>3, <3>1, <3>2 DEF Answer
  <2> QED BY <2>2, <2>3
<1>15. ASSUME NEW c \in Calls, ServeLost(c) PROVE Answer'
  BY <1>15, <1>b DEF ServeLost
<1> QED BY <1>1, <1>2, <1>3, <1>4, <1>5, <1>6, <1>7, <1>10, <1>11, <1>12,
           <1>13, <1>14, <1>15, Steps

-----------------------------------------------------------------------------
(* What parse_response accepts and a call returns. *)
LEMMA Accepted ==
  ASSUME ClientInv, pc = "parse", Parses(raw)
  PROVE  /\ \A i \in DOMAIN raw : raw[i].of = call /\ raw[i].i = i
         /\ raw # <<>> /\ raw[1].reply.framing = "chunked" => Len(raw) = raw[1].reply.total
<1>0. /\ raw \in Seq(Piece) /\ Answer /\ kind \in Kinds /\ conn[kind] \in Conn
  BY DEF ClientInv, Types
<1>1. PICK reply \in Replies(kind) : Under(kind, reply)
  BY <1>0 DEF Answer
<1>2. /\ Len(raw) + Len(conn[kind].wire) + Len(conn[kind].todo) <= reply.pieces
      /\ \A i \in 1 .. Len(raw) : raw[i] = Nth(reply, i)
  BY <1>1 DEF Under
<1>m. \A n : Nth(reply, n).of = call /\ Nth(reply, n).i = n /\ Nth(reply, n).reply = reply
  BY DEF Nth
<1>n. \A i \in 1 .. Len(raw) : /\ raw[i].of = call /\ raw[i].i = i
                               /\ raw[i].reply = reply
  BY <1>2, <1>m
<1>3. \A i \in DOMAIN raw : raw[i].of = call /\ raw[i].i = i
  <2>1. DOMAIN raw = 1 .. Len(raw)
    BY <1>0
  <2> QED BY <1>n, <2>1
<1>4. ASSUME raw # <<>>, raw[1].reply.framing = "chunked" PROVE Len(raw) = raw[1].reply.total
  <2>1. Len(raw) \in Nat /\ Len(raw) >= 1
    BY <1>0, <1>4
  <2>2. raw[1].reply = reply
    BY <1>n, <2>1
  <2>3. Len(raw) >= reply.total
    BY <1>4, <2>2 DEF Parses, Complete, find_header_value
  <2>4. reply.pieces \in Nat /\ reply.total \in Nat /\ reply.pieces <= reply.total
    BY <1>0, <1>1, Facts
  <2>5. Len(conn[kind].wire) \in Nat /\ Len(conn[kind].todo) \in Nat
    BY <1>0 DEF Conn
  <2>6. Len(raw) <= reply.pieces
    BY <1>2, <2>1, <2>4, <2>5, Fits
  <2>7. Len(raw) = reply.total
    BY <2>1, <2>3, <2>4, <2>6
  <2> QED BY <2>2, <2>7
<1> QED BY <1>3, <1>4

LEMMA ReturnedStep ==
  ASSUME ClientInv, [Next]_vars
  PROVE  Returned'
<1>0. Types /\ Returned
  BY DEF ClientInv
<1>a. CASE UNCHANGED <<result, call>>
  BY <1>0, <1>a DEF Returned
<1>b. CASE pc = "parse" /\ Parses(raw) /\ result' = raw /\ call' = call
  BY <1>b, Accepted DEF Returned
<1>1. CASE Waits \/ Failed \/ BeginGoes \/ ConnectGoes \/ SendGoes
  BY <1>1, <1>a DEF Waits, Failed, BeginGoes, ConnectGoes, SendGoes
<1>2. CASE Dialed \/ ReadMore \/ ReadEof \/ session_free
  BY <1>2, <1>a DEF Dialed, Connected, ReadMore, ReadEof, session_free
<1>3. CASE SessionReturns \/ OnceReturns
  BY <1>3, <1>a, <1>b DEF SessionReturns, OnceReturns
<1>4. ASSUME NEW k \in Kinds, Call(k) PROVE Returned'
  <2>1. result' = <<>>
    BY <1>4 DEF Call
  <2>2. DOMAIN result' = {}
    BY <2>1
  <2> QED BY <2>1, <2>2 DEF Returned
<1>5. ASSUME NEW k \in Kinds, Serve(k) \/ Deliver(k) \/ Cut(k) PROVE Returned'
  BY <1>0, <1>5, <1>a, Others
<1>6. ASSUME NEW c \in Calls, ServeLost(c) PROVE Returned'
  BY <1>6, <1>a DEF ServeLost
<1> QED BY <1>1, <1>2, <1>3, <1>4, <1>5, <1>6, Steps

-----------------------------------------------------------------------------
(* Dropping a connection only moves a waiting request to those that are lost. *)
LEMMA RunsDropped ==
  ASSUME ClientInv, NEW k \in Kinds, Drop(k), ran' = ran, sends' = sends, call' = call,
         pc' # "read"
  PROVE  Runs'
<1>0. /\ Types /\ Lines /\ Answer /\ Runs /\ ran \in [Calls -> Nat] /\ sends \in [Calls -> Nat]
      /\ lost \in [Calls -> Nat]
  BY DEF ClientInv, Types
<1>1. \A c \in Calls : lost'[c] = lost[c] + IF c = conn[k].unserved THEN 1 ELSE 0
  BY <1>0, Dropped
<1>2. ASSUME NEW c \in Calls PROVE ran[c] + lost'[c] <= sends[c]
  <2>1. CASE c # conn[k].unserved
    BY <1>0, <1>1, <2>1 DEF Runs
  <2>2. CASE c = conn[k].unserved
    <3>1. c # 0
      BY Facts DEF Calls
    <3>2. pc = "read" /\ kind = k
      BY <1>0, <2>2, <3>1 DEF Lines, Quiet
    <3>3. c = call /\ ran[c] + lost[c] + 1 <= sends[c]
      BY <1>0, <2>2, <3>1, <3>2 DEF Answer, Runs
    <3>4. lost'[c] = lost[c] + 1 /\ ran[c] \in Nat /\ lost[c] \in Nat /\ sends[c] \in Nat
      BY <1>0, <1>1, <2>2
    <3> QED BY <3>3, <3>4
  <2> QED BY <2>1, <2>2
<1> QED BY <1>0, <1>2 DEF Runs

(* One request more is sent. *)
LEMMA RunsSent ==
  ASSUME ClientInv, pc = "send", ran' = ran, lost' = lost, call' = call,
         sends' = [sends EXCEPT ![call] = @ + 1]
  PROVE  Runs' /\ ran[call] + lost[call] + 1 <= sends'[call]
<1>0. /\ Types /\ Runs /\ ran \in [Calls -> Nat] /\ sends \in [Calls -> Nat]
      /\ lost \in [Calls -> Nat] /\ call \in 0 .. MaxCalls /\ call # 0 /\ MaxCalls \in Nat
  BY Facts DEF ClientInv, Types
<1>c. call \in Calls
  BY <1>0 DEF Calls
<1>1. sends'[call] = sends[call] + 1 /\ \A c \in Calls : c # call => sends'[c] = sends[c]
  BY <1>0, <1>c
<1>2. \A c \in Calls : ran[c] \in Nat /\ lost[c] \in Nat /\ sends[c] \in Nat
  BY <1>0
<1>3. ran[call] + lost[call] + 1 <= sends'[call]
  BY <1>0, <1>c, <1>1, <1>2 DEF Runs
<1>4. \A c \in Calls : ran[c] + lost[c] <= sends'[c]
  BY <1>0, <1>1, <1>2 DEF Runs
<1>5. \A c \in Calls : c > call => sends'[c] = 0
  BY <1>0, <1>1, Facts DEF Runs, Calls
<1> QED BY <1>3, <1>4, <1>5 DEF Runs

LEMMA RunsStep ==
  ASSUME ClientInv, [Next]_vars
  PROVE  Runs'
<1>0. /\ Types /\ Lines /\ Answer /\ Runs /\ kind \in Kinds /\ conn \in [Kinds -> Conn]
      /\ ran \in [Calls -> Nat] /\ sends \in [Calls -> Nat] /\ lost \in [Calls -> Nat]
      /\ MaxCalls \in Nat /\ call \in 0 .. MaxCalls
      /\ \A k \in Kinds : conn[k] \in Conn
  BY Facts DEF ClientInv, Types
<1>a. CASE /\ UNCHANGED <<ran, lost, sends, call>>
           /\ pc' = "read" => pc = "read" /\ conn'[kind'].unserved \in {0, conn[kind].unserved}
  BY <1>0, <1>a DEF Runs
<1>1. CASE Waits \/ BeginGoes \/ ConnectGoes
  BY <1>1, <1>a DEF Waits, BeginGoes, ConnectGoes
<1>2. CASE Failed
  <2>1. ran' = ran /\ call' = call /\ pc # "idle" /\ pc' # "read"
    BY <1>2, Retried DEF Failed
  <2>2. CASE sends' = sends
    BY <1>2, <1>a, <2>1, <2>2, RunsDropped, <1>0 DEF Failed
  <2>3. CASE pc = "send" /\ sends' = [sends EXCEPT ![call] = @ + 1]
    <3>1. Quiet(kind)
      BY <1>0, <2>3 DEF Lines
    <3>2. lost' = lost
      BY <1>2, <3>1 DEF Failed, Drop, Quiet
    <3> QED BY <2>1, <2>3, <3>2, RunsSent
  <2> QED BY <1>2, <2>2, <2>3 DEF Failed
<1>3. CASE Dialed \/ ReadEof
  BY <1>3, <1>a DEF Dialed, Connected, ReadEof
<1>4. CASE SendGoes
  BY <1>4, RunsSent DEF SendGoes
<1>5. CASE ReadMore
  <2>1. pc = "read" /\ UNCHANGED <<ran, lost, sends, call, kind>>
    BY <1>5 DEF ReadMore
  <2>2. conn'[kind].unserved = 0
    BY <1>5, CompleteIsAll
  <2> QED BY <1>a, <2>1, <2>2
<1>6. CASE SessionReturns
  <2>1. UNCHANGED <<ran, sends, call>> /\ pc' = "idle"
    BY <1>6 DEF SessionReturns
  <2> QED BY <1>6, <1>a, <2>1, RunsDropped DEF SessionReturns, Kinds
<1>7. CASE OnceReturns
  <2>1. UNCHANGED <<ran, sends, call>> /\ pc' # "read" /\ Drop("once")
    BY <1>7 DEF OnceReturns
  <2> QED BY <2>1, RunsDropped DEF Kinds
<1>8. CASE session_free
  <2>1. UNCHANGED <<ran, sends, call>> /\ pc' # "read" /\ Drop("session")
    BY <1>8 DEF session_free
  <2> QED BY <2>1, RunsDropped DEF Kinds
<1>9. ASSUME NEW k \in Kinds, Call(k) PROVE Runs'
  <2>1. UNCHANGED <<ran, sends, lost>> /\ call' = call + 1 /\ pc' = "turn"
    BY <1>9 DEF Call
  <2>2. \A c \in Calls : c > call + 1 => c > call
    BY <1>0 DEF Calls
  <2> QED BY <1>0, <2>1, <2>2 DEF Runs
<1>10. ASSUME NEW k \in Kinds, Serve(k) PROVE Runs'
  <2>1. pc = "read" /\ kind = k /\ UNCHANGED <<pc, kind, raw, call, sends>> /\ lost' = lost
    BY <1>0, <1>10, Reading, Others DEF Serve
  <2>2. conn[k].unserved # 0 /\ ran' = [ran EXCEPT ![conn[k].unserved] = @ + 1]
    BY <1>10 DEF Serve
  <2>3. conn[k].unserved = call /\ call \in Calls
    BY <1>0, <2>1, <2>2 DEF Answer, Calls
  <2>4. PICK reply \in Replies(k) :
          conn' = [conn EXCEPT ![k].unserved = 0,
                               ![k].todo = Pieces(conn[k].unserved, reply)]
    BY <1>10 DEF Serve
  <2>5. conn'[k].unserved = 0
    BY <1>0, <2>4 DEF Conn
  <2>6. \A c \in Calls : ran'[c] = ran[c] + IF c = call THEN 1 ELSE 0
    BY <1>0, <2>2, <2>3
  <2>7. ran[call] + lost[call] + 1 <= sends[call]
    BY <1>0, <2>1, <2>2 DEF Runs
  <2>8. \A c \in Calls : ran[c] \in Nat /\ lost[c] \in Nat /\ sends[c] \in Nat
    BY <1>0
  <2>9. \A c \in Calls : ran'[c] + lost[c] <= sends[c]
    BY <1>0, <2>6, <2>7, <2>8 DEF Runs
  <2> QED BY <1>0, <2>1, <2>5, <2>9 DEF Runs
<1>11. ASSUME NEW k \in Kinds, Deliver(k) \/ Cut(k) PROVE Runs'
  <2>1. UNCHANGED <<pc, kind, ran, lost, sends, call>>
    BY <1>11 DEF Deliver, Cut
  <2>2. conn'[kind].unserved \in {0, conn[kind].unserved}
    <3>1. CASE Deliver(k)
      BY <1>0, <3>1 DEF Deliver, Conn
    <3>2. CASE Cut(k)
      <4>1. PICK how : conn' = [conn EXCEPT ![k].cut = how, ![k].todo = <<>>, ![k].unserved = 0]
        BY <3>2 DEF Cut
      <4> QED BY <1>0, <4>1 DEF Conn
    <3> QED BY <1>11, <3>1, <3>2
  <2> QED BY <1>a, <2>1, <2>2
<1>12. ASSUME NEW c \in Calls, ServeLost(c) PROVE Runs'
  <2>1. /\ UNCHANGED <<pc, kind, conn, sends, call>>
        /\ lost[c] > 0 /\ lost' = [lost EXCEPT ![c] = @ - 1] /\ ran' = [ran EXCEPT ![c] = @ + 1]
    BY <1>12 DEF ServeLost
  <2>2. \A d \in Calls : ran'[d] + lost'[d] = ran[d] + lost[d]
    BY <1>0, <2>1
  <2>3. call # 0 => call \in Calls
    BY <1>0 DEF Calls
  <2>4. pc = "read" => call # 0
    BY <1>0 DEF Types
  <2> QED BY <1>0, <2>1, <2>2, <2>3, <2>4 DEF Runs
<1> QED BY <1>1, <1>2, <1>3, <1>4, <1>5, <1>6, <1>7, <1>8, <1>9, <1>10, <1>11, <1>12, Steps

-----------------------------------------------------------------------------
(* An exchange that fails leaves the bounds of its call alone. *)
LEMMA TurnsFailed ==
  ASSUME ClientInv, Failed
  PROVE  Turns'
<1>0. /\ Types /\ Turns /\ turn \in Nat /\ call \in Calls /\ kind \in Kinds
      /\ sends \in [Calls -> Nat] /\ hops \in Seq(BOOLEAN)
  <2>1. call \in 0 .. MaxCalls /\ call # 0 /\ MaxCalls \in Nat
    BY Facts DEF Failed, ClientInv, Types
  <2>2. call \in Calls
    BY <2>1 DEF Calls
  <2> QED BY <2>2 DEF ClientInv, Types
<1>1. UNCHANGED <<call, kind, hops>> /\ pc # "idle"
  BY DEF Failed
<1>2. \/ kind = "session" /\ turn = 0 /\ pc' = "turn" /\ turn' = 1
      \/ pc' = "idle" /\ turn' = turn
  BY Retried DEF Failed
<1>3. CASE sends' = sends
  <2>1. sends'[call] = sends[call] /\ sends[call] \in Nat /\ Len(hops) \in Nat
    BY <1>0, <1>3
  <2>2. CASE pc' = "idle" /\ turn' = turn
    BY <1>0, <1>1, <2>1, <2>2 DEF Turns
  <2>3. CASE kind = "session" /\ turn = 0 /\ pc' = "turn" /\ turn' = 1
    <3>1. sends[call] <= 1 /\ hops = <<>>
      BY <1>0, <1>1, <2>1, <2>3 DEF Turns, Types
    <3>2. kind' = "session" /\ hops' = <<>> /\ turn' = 1 /\ sends'[call'] <= 1 /\ sends'[call'] \in Nat
      BY <1>1, <2>1, <2>3, <3>1
    <3> QED BY <2>3, <3>2 DEF Turns
  <2> QED BY <1>2, <2>2, <2>3
<1>4. CASE pc = "send" /\ sends' = [sends EXCEPT ![call] = @ + 1]
  <2>1. sends'[call] = sends[call] + 1 /\ sends[call] \in Nat /\ Len(hops) \in Nat
    BY <1>0, <1>4
  <2> QED BY <1>0, <1>1, <1>2, <1>4, <2>1 DEF Turns, Kinds
<1> QED BY <1>3, <1>4 DEF Failed

LEMMA TurnsStep ==
  ASSUME ClientInv, [Next]_vars
  PROVE  Turns'
<1>0. /\ Types /\ Lines /\ Runs /\ Turns /\ turn \in Nat /\ call \in 0 .. MaxCalls /\ kind \in Kinds
      /\ sends \in [Calls -> Nat] /\ hops \in Seq(BOOLEAN) /\ MaxCalls \in Nat
      /\ MaxRedirects \in Nat /\ Len(hops) \in Nat
  BY Facts DEF ClientInv, Types
<1>c. call # 0 => call \in Calls /\ sends[call] \in Nat
  BY <1>0 DEF Calls
<1>p. pc # "idle" => call # 0
  BY <1>0 DEF Types
<1>a. CASE UNCHANGED <<pc, turn, call, kind, sends, hops>>
  BY <1>0, <1>a DEF Turns
<1>b. CASE /\ UNCHANGED <<turn, call, kind, sends, hops>> /\ pc' \in {"read", "parse", "idle"}
  BY <1>0, <1>b DEF Turns
<1>1. CASE Waits
  BY <1>1, <1>a DEF Waits
<1>2. CASE Failed
  BY <1>2, TurnsFailed
<1>3. CASE BeginGoes
  <2>1. /\ pc = "turn" /\ pc' \in {"send", "connect"} /\ (pc' = "send" => conn[kind].up)
        /\ UNCHANGED <<turn, call, kind, sends, hops>>
    BY <1>3 DEF BeginGoes
  <2>2. kind = "once" => pc' = "connect"
    BY <1>0, <2>1 DEF Lines
  <2> QED BY <1>0, <2>1, <2>2 DEF Turns
<1>4. CASE ConnectGoes
  BY <1>0, <1>4 DEF ConnectGoes, Turns
<1>5. CASE Dialed
  <2>1. /\ pc \in {"secure", "handshake"} /\ pc' = "send" /\ UNCHANGED <<turn, call, kind, sends>>
        /\ hops' = IF kind = "once" THEN Append(hops, secure) ELSE hops
    BY <1>5 DEF Dialed, Connected
  <2>2. CASE kind = "session"
    BY <1>0, <2>1, <2>2 DEF Turns
  <2>3. CASE kind = "once"
    <3>1. Len(hops') = Len(hops) + 1
      BY <1>0, <2>1, <2>3, Appended DEF Types
    <3>2. call # 0 /\ sends[call] \in Nat
      BY <1>c, <1>p, <2>1
    <3> QED BY <1>0, <2>1, <2>3, <3>1, <3>2 DEF Turns
  <2> QED BY <1>0, <2>2, <2>3 DEF Kinds
<1>6. CASE SendGoes
  <2>1. /\ pc = "send" /\ pc' = "read" /\ UNCHANGED <<turn, call, kind, hops>>
        /\ sends' = [sends EXCEPT ![call] = @ + 1]
    BY <1>6 DEF SendGoes
  <2>2. sends'[call] = sends[call] + 1 /\ sends[call] \in Nat
    BY <1>0, <1>c, <1>p, <2>1
  <2> QED BY <1>0, <2>1, <2>2 DEF Turns, Kinds
<1>7. CASE ReadMore \/ ReadEof \/ SessionReturns
  BY <1>7, <1>b DEF ReadMore, ReadEof, SessionReturns
<1>8. CASE OnceReturns
  <2>1. /\ pc = "parse" /\ kind = "once" /\ UNCHANGED <<call, kind, sends, hops>>
        /\ \/ turn < MaxRedirects /\ pc' = "turn" /\ turn' = turn + 1
           \/ pc' = "idle" /\ turn' = turn
    BY <1>8 DEF OnceReturns
  <2> QED BY <1>0, <1>b, <2>1 DEF Turns
<1>9. CASE session_free
  BY <1>9, <1>a DEF session_free
<1>10. ASSUME NEW k \in Kinds, Call(k) PROVE Turns'
  <2>1. /\ pc' = "turn" /\ turn' = 0 /\ hops' = <<>> /\ kind' = k /\ sends' = sends
        /\ call' = call + 1 /\ call < MaxCalls
    BY <1>10 DEF Call
  <2>2. call' \in Calls /\ call' > call
    BY <1>0, <2>1 DEF Calls
  <2>3. sends'[call'] = 0
    BY <1>0, <2>1, <2>2 DEF Runs
  <2>4. Len(hops') = 0
    BY <2>1
  <2> QED BY <1>0, <2>1, <2>3, <2>4 DEF Turns
<1>11. ASSUME NEW k \in Kinds, Serve(k) \/ Deliver(k) \/ Cut(k) PROVE Turns'
  BY <1>0, <1>11, <1>a, Others
<1>12. ASSUME NEW c \in Calls, ServeLost(c) PROVE Turns'
  BY <1>12, <1>a DEF ServeLost
<1> QED BY <1>1, <1>2, <1>3, <1>4, <1>5, <1>6, <1>7, <1>8, <1>9, <1>10, <1>11, <1>12, Steps

-----------------------------------------------------------------------------
LEMMA SecuredStep ==
  ASSUME ClientInv, [Next]_vars
  PROVE  Secured'
<1>0. Types /\ Secured /\ hops \in Seq(BOOLEAN) /\ secure \in BOOLEAN
  BY DEF ClientInv, Types
<1>a. CASE UNCHANGED <<secure, hops>>
  BY <1>0, <1>a DEF Secured
<1>1. CASE Waits \/ Failed \/ BeginGoes \/ ConnectGoes \/ SendGoes
  BY <1>1, <1>a DEF Waits, Failed, BeginGoes, ConnectGoes, SendGoes
<1>2. CASE ReadMore \/ ReadEof \/ SessionReturns \/ session_free
  BY <1>2, <1>a DEF ReadMore, ReadEof, SessionReturns, session_free
<1>3. CASE Dialed
  <2>1. secure' = secure /\ hops' = IF kind = "once" THEN Append(hops, secure) ELSE hops
    BY <1>3 DEF Dialed, Connected
  <2>2. CASE kind # "once"
    BY <1>a, <2>1, <2>2
  <2>3. CASE kind = "once"
    <3>1. /\ hops' \in Seq(BOOLEAN) /\ Len(hops') = Len(hops) + 1
          /\ hops'[Len(hops) + 1] = secure
          /\ \A i \in 1 .. Len(hops) : hops'[i] = hops[i]
      BY <1>0, <2>1, <2>3, Appended
    <3>2. /\ DOMAIN hops = 1 .. Len(hops) /\ DOMAIN hops' = 1 .. Len(hops')
          /\ Len(hops) \in Nat
      BY <1>0, <3>1
    <3>3. \A i \in DOMAIN hops' : i \in DOMAIN hops \/ i = Len(hops) + 1
      BY <3>1, <3>2
    <3>4. \A i \in DOMAIN hops' : hops'[i] => secure'
      BY <1>0, <2>1, <3>1, <3>2, <3>3 DEF Secured
    <3>5. ASSUME NEW i \in DOMAIN hops', NEW j \in DOMAIN hops', i < j, hops'[i]
          PROVE  hops'[j]
      <4>1. i \in DOMAIN hops
        BY <3>1, <3>2, <3>5
      <4>2. CASE j \in DOMAIN hops
        BY <1>0, <3>1, <3>2, <3>5, <4>1, <4>2 DEF Secured
      <4>3. CASE j = Len(hops) + 1
        BY <2>1, <3>1, <3>4, <3>5, <4>3
      <4> QED BY <3>3, <4>2, <4>3
    <3> QED BY <3>4, <3>5 DEF Secured
  <2> QED BY <2>2, <2>3
<1>4. CASE OnceReturns
  <2>1. hops' = hops
    BY <1>4 DEF OnceReturns
  <2>2. secure' = secure \/ (secure => secure')
    BY <1>4 DEF OnceReturns, Followed
  <2> QED BY <1>0, <1>a, <2>1, <2>2 DEF Secured
<1>5. ASSUME NEW k \in Kinds, Call(k) PROVE Secured'
  <2>1. hops' = <<>>
    BY <1>5 DEF Call
  <2>2. DOMAIN hops' = {}
    BY <2>1
  <2> QED BY <2>2 DEF Secured
<1>6. ASSUME NEW k \in Kinds, Serve(k) \/ Deliver(k) \/ Cut(k) PROVE Secured'
  BY <1>0, <1>6, <1>a, Others
<1>7. ASSUME NEW c \in Calls, ServeLost(c) PROVE Secured'
  BY <1>7, <1>a DEF ServeLost
<1> QED BY <1>1, <1>2, <1>3, <1>4, <1>5, <1>6, <1>7, Steps

-----------------------------------------------------------------------------
LEMMA ClientInit == Init => ClientInv
<1> SUFFICES ASSUME Init PROVE ClientInv
  OBVIOUS
<1>1. /\ pc = "idle" /\ call = 0 /\ kind = "once" /\ turn = 0 /\ raw = <<>> /\ result = <<>>
      /\ hops = <<>> /\ conn = [k \in Kinds |-> NoConn]
      /\ lost = [c \in Calls |-> 0] /\ ran = [c \in Calls |-> 0] /\ sends = [c \in Calls |-> 0]
  BY DEF Init
<1>2. secure \in BOOLEAN
  BY DEF Init
<1>3. conn \in [Kinds -> Conn] /\ "once" \in Kinds /\ \A k \in Kinds : conn[k] = NoConn
  BY <1>1, NewConns DEF Kinds
<1>4. Types
  <2>1. hops \in Seq(BOOLEAN) /\ call \in 0 .. MaxCalls
    BY <1>1, Empty
  <2> QED BY <1>1, <1>2, <1>3, <2>1, Empty DEF Types
<1>5. Lines
  BY <1>1, <1>3, NewConns DEF Lines, Quiet
<1>6. Answer
  BY <1>1 DEF Answer
<1>7. Returned
  BY <1>1 DEF Returned
<1>8. Runs
  BY <1>1 DEF Runs
<1>9. Turns
  BY <1>1, Facts DEF Turns
<1>10. Secured
  BY <1>1 DEF Secured
<1> QED BY <1>4, <1>5, <1>6, <1>7, <1>8, <1>9, <1>10 DEF ClientInv

LEMMA ClientInvStep == ClientInv /\ [Next]_vars => ClientInv'
BY TypesStep, LinesStep, AnswerStep, ReturnedStep, RunsStep, TurnsStep, SecuredStep
   DEF ClientInv

(* The whole invariant. *)
THEOREM ClientInvariant == Spec => []ClientInv
BY ClientInit, ClientInvStep, PTL DEF Spec

(* A call of the session or of the one-shot client returns the pieces of its own answer,
   in order and from the first one, whatever became of the calls before it (session_drop
   after every exchange that failed after the request was out); a chunked one is whole. *)
THEOREM CallsGetTheirAnswers == Spec => []AnswersOwnCall
<1>1. ClientInv => AnswersOwnCall
  BY DEF ClientInv, Returned, AnswersOwnCall
<1> QED BY <1>1, ClientInvariant, PTL

(* A request is run at most as often as it was sent, and sent at most twice by
   zcio_http_session_request and once per hop by zcio_http_request_opts. *)
THEOREM NoExtraRuns == Spec => []RunsBounded
<1>1. ClientInv => RunsBounded
  <2> SUFFICES ASSUME ClientInv PROVE RunsBounded
    OBVIOUS
  <2>1. \A c \in Calls : ran[c] + lost[c] <= sends[c]
    BY DEF ClientInv, Runs
  <2>2. ASSUME call # 0 PROVE sends[call] <= IF kind = "session" THEN 2 ELSE Len(hops)
    <3>1. call \in 0 .. MaxCalls /\ MaxCalls \in Nat
      BY Facts DEF ClientInv, Types
    <3>2. call \in Calls
      BY <2>2, <3>1 DEF Calls
    <3>3. sends[call] \in Nat /\ turn \in Nat
      BY <3>2 DEF ClientInv, Types
    <3>4. /\ sends[call] <= IF kind = "session" THEN turn + 1 ELSE Len(hops)
          /\ kind = "session" => turn <= 1
      BY <2>2 DEF ClientInv, Turns
    <3> QED BY <3>3, <3>4
  <2> QED BY <2>1, <2>2 DEF RunsBounded
<1> QED BY <1>1, ClientInvariant, PTL

(* At most MaxRedirects redirects are followed, and none from https to http
   (resolve_redirect). *)
THEOREM RedirectsAreSafe == Spec => []RedirectsSafe
<1>1. ClientInv => RedirectsSafe
  BY Facts DEF ClientInv, Turns, Secured, RedirectsSafe, Types, Kinds
<1> QED BY <1>1, ClientInvariant, PTL
=============================================================================
