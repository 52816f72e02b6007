----------------------------- MODULE WsSession -----------------------------
(***************************************************************************)
(* One WebSocket session (src/src/ws.c), from the opening handshake of     *)
(* either role to zcio_ws_free.  The session is driven by one thread with  *)
(* blocking calls; the peer is arbitrary.                                  *)
(*                                                                         *)
(* The peer's bytes are frames, each in two pieces, its header and the     *)
(* rest, so that a read can end inside a frame.  `got' counts the pieces   *)
(* read into ws->in, `used' the frames consumed from it.  A frame enters   *)
(* the model when its first piece is read: before that nobody looks at it. *)
(***************************************************************************)
EXTENDS Integers, Sequences, FiniteSets, SequencesExt, FiniteSetsExt

CONSTANTS
  MaxRedirects,  \* 3, in zcio_ws_connect
  Caps,          \* values of max_msg_bytes
  MaxFrames,     \* bound on the frames the peer sends
  MaxRead        \* bound on the pieces of frames one read returns

ASSUME WsAssumption ==
  /\ {MaxRedirects, MaxFrames, MaxRead} \subseteq Nat
  /\ Caps \subseteq Nat \ {0}
  /\ \E max \in Caps : \A cap \in Caps : cap <= max

VARIABLES
  pc,            \* where the thread is
  call,          \* the call in progress: recv, recv with a deadline, close, free
  late,          \* its deadline has passed
  target, hops,  \* zcio_ws_connect: the next URL; of those dialled, which were secure
  frag, frag_active, cur_opcode,
  max_msg_bytes, close_sent, close_recv, failed,
  sent,          \* the peer's frames that have begun to arrive
  got, used,
  \* history
  closes,        \* Close frames sent
  after,         \* kinds of frame sent after a Close
  messages,      \* the messages assembled, and whether below the cap
  oom            \* a piece of a message, or bytes read, were lost for lack of memory

opening == <<target, hops>>
reassembly == <<frag, frag_active, cur_opcode>>
flags  == <<close_sent, close_recv, failed>>
output == <<closes, after>>
vars == <<pc, call, late, opening, reassembly, max_msg_bytes, flags, sent, got,
          used, output, messages, oom>>

F(op, fin, len, ok) == [op |-> op, fin |-> fin, len |-> len, ok |-> ok]

(* The frames a peer may send.  `bad' stands for every violation that the  *)
(* header alone shows (a reserved bit or opcode, the wrong masking, a      *)
(* control frame fragmented or too long, a length of 2^63); ok = FALSE for *)
(* text that is not UTF-8 and for a malformed Close payload.               *)
Frames ==
  { F("text", TRUE, 1, TRUE), F("text", TRUE, 2, TRUE), F("text", TRUE, 1, FALSE),
    F("text", FALSE, 1, TRUE), F("bin", FALSE, 1, FALSE),
    F("cont", FALSE, 1, TRUE), F("cont", TRUE, 1, TRUE), F("cont", TRUE, 1, FALSE),
    F("ping", TRUE, 0, TRUE), F("pong", TRUE, 0, TRUE),
    F("close", TRUE, 0, TRUE), F("close", TRUE, 0, FALSE), F("bad", TRUE, 0, TRUE) }

\* A URL is its scheme: ws and http alike, wss and https alike, or one that
\* cannot be parsed.
Urls == {"ws", "wss", "other"}

SumLen(ns) ==
  LET sum[i \in 0..Len(ns)] == IF i = 0 THEN 0 ELSE sum[i - 1] + sent[ns[i]].len
  IN  sum[Len(ns)]

Init ==
  /\ pc \in {"dial", "accept"} /\ call = "none" /\ late = FALSE
  /\ target \in (IF pc = "dial" THEN Urls ELSE {"ws"}) /\ hops = <<>>
  /\ frag = <<>> /\ frag_active = FALSE /\ cur_opcode = "none"
  /\ max_msg_bytes = Max(Caps)
  /\ close_sent = FALSE /\ close_recv = FALSE /\ failed = FALSE
  /\ sent = <<>> /\ got = 0 /\ used = 0
  /\ closes = 0 /\ after = {} /\ messages = <<>> /\ oom = FALSE

-----------------------------------------------------------------------------
DeadlinePasses ==
  /\ pc \in {"top", "pump", "fill"} /\ call # "recv" /\ ~late
  /\ late' = TRUE
  /\ UNCHANGED <<pc, call, opening, reassembly, max_msg_bytes, flags, sent, got,
                 used, output, messages, oom>>

\* n more pieces are read into `in'.
Arrive(n) ==
  LET frames == (got + n + 1) \div 2
  IN  /\ frames <= MaxFrames
      /\ got' = got + n
      /\ \E new \in [1..frames - Len(sent) -> Frames] : sent' = sent \o new

-----------------------------------------------------------------------------
(* The opening handshake.                                                  *)

\* The session begins; what followed the handshake's head is already in `in'.
Begin == pc' = "idle" /\ \E n \in 0..MaxRead : Arrive(n)

\* zcio_ws_accept: the 101 is written and the stream detached from the loop.
ws_accept ==
  /\ pc = "accept"
  /\ \/ Begin
     \/ pc' = "gone" /\ UNCHANGED <<sent, got>>
  /\ UNCHANGED <<call, late, opening, reassembly, max_msg_bytes, flags, used,
                 output, messages, oom>>

\* ws_url_parse: what it makes of a URL, or that it refuses it.
Secure(url) == url = "wss"
UrlRefused(url) == url = "other"

Downgrade == hops # <<>> /\ Last(hops) /\ ~Secure(target)

\* One turn of zcio_ws_connect's loop, up to the request.
Dial ==
  /\ pc = "dial"
  /\ \/ /\ ~UrlRefused(target) /\ ~Downgrade
        /\ pc' = "request" /\ hops' = Append(hops, Secure(target))
     \/ pc' = "gone" /\ hops' = hops        \* refused, or the dial failed
  /\ UNCHANGED <<call, late, target, reassembly, max_msg_bytes, flags, sent, got,
                 used, output, messages, oom>>

\* The request is written, or cannot be.
ws_send_handshake ==
  /\ pc = "request"
  /\ pc' \in {"reply", "gone"}
  /\ UNCHANGED <<call, late, opening, reassembly, max_msg_bytes, flags, sent, got,
                 used, output, messages, oom>>

\* ws_read_head: the stream ends or times out before the head is whole, or the
\* head is too large.
ReadHeadFails ==
  /\ pc = "reply"
  /\ pc' = "gone"
  /\ UNCHANGED <<call, late, opening, reassembly, max_msg_bytes, flags, sent, got,
                 used, output, messages, oom>>

Redirects == Len(hops) - 1                  \* `redir'

\* A Location is an absolute URL or a path on the same host.
ws_resolve(loc) == IF loc = "path" THEN target ELSE loc

\* The rest of the turn: the 101, a redirect, or anything else (a bad 101, an
\* error, no Location or a relative one, a redirect too many).
Reply ==
  /\ pc = "reply"
  /\ \/ Begin /\ target' = "ws" /\ hops' = <<>>
     \/ /\ Redirects < MaxRedirects
        /\ pc' = "dial" /\ \E loc \in Urls \cup {"path"} : target' = ws_resolve(loc)
        /\ UNCHANGED <<hops, sent, got>>
     \/ pc' = "gone" /\ UNCHANGED <<opening, sent, got>>
  /\ UNCHANGED <<call, late, reassembly, max_msg_bytes, flags, used, output,
                 messages, oom>>

-----------------------------------------------------------------------------
(* Output.                                                                 *)

\* ws_send_frame: what it puts on the wire, whole or in part.
ws_send_frame(op) ==
  /\ closes' = IF op = "close" THEN closes + 1 ELSE closes
  /\ after' = IF closes > 0 THEN after \cup {op} ELSE after

\* zcio_ws_send and zcio_ws_ping.  A write that fails part-way is reported to
\* the caller and leaves the session as it is.
Send(op) ==
  /\ pc = "idle" /\ ~failed /\ ~close_sent
  /\ ws_send_frame(op)
  /\ UNCHANGED <<pc, call, late, opening, reassembly, max_msg_bytes, flags, sent,
                 got, used, messages, oom>>

SetMaxMsgBytes(cap) ==
  /\ pc = "idle" /\ cap # max_msg_bytes
  /\ max_msg_bytes' = cap
  /\ UNCHANGED <<pc, call, late, opening, reassembly, flags, sent, got, used, output,
                 messages, oom>>

-----------------------------------------------------------------------------
(* Input.  zcio_ws_recv and the wait of zcio_ws_close both alternate       *)
(* ws_pump, a frame at a time here, and ws_fill.                           *)

Closing == call \in {"close", "free"}
Return == IF call = "free" THEN "gone" ELSE "idle"

\* Back from ws_pump with an error or the peer's Close.
PumpReturns == pc' = Return /\ call' = "none" /\ late' = FALSE

\* zcio_ws_recv, with or without a deadline
Recv(kind) ==
  /\ pc = "idle" /\ ~close_recv /\ ~failed
  /\ pc' = "pump" /\ call' = kind
  /\ UNCHANGED <<late, opening, reassembly, max_msg_bytes, flags, sent, got, used,
                 output, messages, oom>>

HasHead == got > 2 * used
HasFrame == got > 2 * used + 1
Frame == sent[used + 1]
IsData(f) == f.op \in {"text", "bin", "cont"}

\* Mutant: the cap is applied to each fragment, not to the message.
TooBig_PerFrame(f) == IsData(f) /\ f.len > max_msg_bytes

\* The cap, written so that a cap lowered in mid-message cannot underflow.
TooBig(f) ==
  IsData(f) /\ (SumLen(frag) > max_msg_bytes \/ f.len > max_msg_bytes - SumLen(frag))

\* ws_protocol_fail, from a frame that is consumed or not
ws_protocol_fail ==
  /\ IF close_sent THEN UNCHANGED <<closes, after>> ELSE ws_send_frame("close")
  /\ close_sent' = TRUE /\ failed' = TRUE
  /\ PumpReturns

\* A header that ws_pump rejects before the frame is complete, or that shows
\* the frame to be out of place once it is.
PumpReject ==
  /\ pc = "pump" /\ HasHead
  /\ \/ Frame.op = "bad"
     \/ TooBig(Frame)
     \/ HasFrame /\ Frame.op \in {"text", "bin"} /\ frag_active
     \/ HasFrame /\ Frame.op = "cont" /\ ~frag_active
     \/ HasFrame /\ Frame.op = "close" /\ ~Frame.ok
     \/ HasFrame /\ Frame.op = "text" /\ Frame.fin /\ ~Frame.ok
  /\ ws_protocol_fail
  /\ UNCHANGED <<opening, reassembly, max_msg_bytes, close_recv, sent, got, used,
                 messages, oom>>

\* ws_pump needs more bytes: recv looks at its deadline before it reads.
PumpMore ==
  /\ pc = "pump"
  /\ HasHead => ~HasFrame /\ Frame.op # "bad" /\ ~TooBig(Frame)
  /\ IF call = "recv deadline" /\ late THEN PumpReturns
     ELSE pc' = "fill" /\ UNCHANGED <<call, late>>
  /\ UNCHANGED <<opening, reassembly, max_msg_bytes, flags, sent, got, used, output,
                 messages, oom>>

Whole(ops) ==
  pc = "pump" /\ HasFrame /\ Frame.op \in ops /\ used' = used + 1

\* A ping is answered, also after our own Close; if the answer cannot be
\* written, ws_pump returns the error.  A pong is dropped.
PumpPing ==
  /\ Whole({"ping", "pong"})
  /\ IF Frame.op = "ping" THEN ws_send_frame("pong") ELSE UNCHANGED <<closes, after>>
  /\ \/ UNCHANGED <<pc, call, late, failed>>
     \/ /\ Frame.op = "ping"
        /\ PumpReturns /\ failed' = (failed \/ Closing)
  /\ UNCHANGED <<opening, reassembly, max_msg_bytes, close_sent, close_recv, sent,
                 got, messages, oom>>

\* Mutant: the answer goes out whether or not a Close was sent before.
PumpClose_AnswersAgain ==
  /\ Whole({"close"}) /\ Frame.ok
  /\ close_recv' = TRUE /\ close_sent' = TRUE
  /\ ws_send_frame("close")
  /\ PumpReturns
  /\ UNCHANGED <<opening, reassembly, max_msg_bytes, failed, sent, got,
                 messages, oom>>

\* The peer's Close is answered once.
PumpClose ==
  /\ Whole({"close"}) /\ Frame.ok
  /\ close_recv' = TRUE /\ close_sent' = TRUE
  /\ IF close_sent THEN UNCHANGED <<closes, after>> ELSE ws_send_frame("close")
  /\ PumpReturns
  /\ UNCHANGED <<opening, reassembly, max_msg_bytes, failed, sent, got,
                 messages, oom>>

\* A message is complete: recv returns it, close drops it and goes on.
Emit(op, ns) ==
  /\ messages' = Append(messages, [op |-> op, frames |-> ns, fits |-> SumLen(ns) <= max_msg_bytes])
  /\ IF Closing THEN pc' = "top" /\ UNCHANGED <<call, late>> ELSE PumpReturns
  /\ UNCHANGED <<close_sent, failed, closes, after, oom>>

\* ... or there is no memory for it, which is an error.
EmitFails ==
  /\ PumpReturns /\ failed' = (failed \/ Closing) /\ oom' = TRUE
  /\ UNCHANGED <<close_sent, closes, after, messages>>

\* A data frame that is a message, or the first of one.
PumpData ==
  /\ Whole({"text", "bin"}) /\ ~frag_active /\ ~TooBig(Frame)
  /\ \/ /\ Frame.fin /\ (Frame.op = "text" => Frame.ok)
        /\ Emit(Frame.op, <<used + 1>>) \/ EmitFails
        /\ UNCHANGED reassembly
     \/ /\ ~Frame.fin
        /\ frag_active' = TRUE /\ cur_opcode' = Frame.op
        /\ frag' = Append(frag, used + 1)
        /\ UNCHANGED <<pc, call, late, close_sent, failed, closes, after, messages, oom>>
     \/ /\ ~Frame.fin /\ frag_active' = TRUE /\ cur_opcode' = Frame.op
        /\ EmitFails /\ frag' = frag       \* the fragment is lost
  /\ UNCHANGED <<opening, max_msg_bytes, close_recv, sent, got>>

\* The next fragment.  The last one ends the message, whatever becomes of it.
PumpCont ==
  LET ns == Append(frag, used + 1)
      valid == cur_opcode = "text" => \A i \in DOMAIN ns : sent[ns[i]].ok
  IN  /\ Whole({"cont"}) /\ frag_active /\ ~TooBig(Frame)
      /\ \/ /\ Frame.fin
            /\ IF valid THEN Emit(cur_opcode, ns) \/ EmitFails
               ELSE ws_protocol_fail /\ UNCHANGED <<messages, oom>>
            /\ frag' = <<>> /\ frag_active' = FALSE /\ cur_opcode' = cur_opcode
         \/ /\ ~Frame.fin /\ frag' = ns
            /\ UNCHANGED <<pc, call, late, frag_active, cur_opcode, close_sent, failed,
                           closes, after, messages, oom>>
         \/ EmitFails /\ UNCHANGED reassembly  \* the fragment is lost
      /\ UNCHANGED <<opening, max_msg_bytes, close_recv, sent, got>>

\* ws_fill reads what there is, which may be less than a piece: a peer can
\* keep a call busy a byte at a time.
FillReads ==
  /\ pc = "fill"
  /\ \E n \in 0..MaxRead : Arrive(n)
  /\ pc' = IF Closing THEN "top" ELSE "pump"
  /\ UNCHANGED <<call, late, opening, reassembly, max_msg_bytes, flags, used,
                 output, messages, oom>>

\* ws_fill times out: the wait of close looks at its own deadline, a recv
\* without one tries again.
FillTimesOut ==
  /\ pc = "fill"
  /\ CASE call = "recv"          -> pc' = "pump" /\ UNCHANGED <<call, late>>
       [] call = "recv deadline" -> PumpReturns
       [] Closing /\ ~late       -> pc' = "top" /\ UNCHANGED <<call, late>>
       [] OTHER                  -> PumpReturns
  /\ UNCHANGED <<opening, reassembly, max_msg_bytes, flags, sent, got, used, output,
                 messages, oom>>

\* ws_fill meets the end of the stream, or another error, which recv reports
\* without giving the session up.  One such error is that there is no memory
\* for what was read: those bytes are lost, and the frames that arrive from
\* then on are what the parser makes of the bytes after them.
FillFails ==
  /\ pc = "fill"
  /\ \/ failed' = TRUE /\ oom' = oom
     \/ failed' = Closing /\ oom' \in {oom, TRUE}
  /\ PumpReturns
  /\ UNCHANGED <<opening, reassembly, max_msg_bytes, close_sent, close_recv, sent,
                 got, used, output, messages>>

-----------------------------------------------------------------------------
\* zcio_ws_close and zcio_ws_free, up to the wait.
CloseCall(kind) ==
  /\ pc = "idle"
  /\ kind = "free" => ~close_sent /\ ~failed
  /\ \/ /\ ~close_sent /\ ~failed          \* the Close frame goes out
        /\ ws_send_frame("close") /\ close_sent' = TRUE
        /\ pc' = (IF close_recv THEN pc ELSE "top")
        /\ call' = IF close_recv THEN call ELSE kind
        /\ failed' = failed
     \/ /\ ~close_sent /\ ~failed          \* or cannot be written
        /\ ws_send_frame("close") /\ close_sent' = TRUE /\ failed' = TRUE
        /\ pc' = (IF kind = "free" THEN "gone" ELSE "idle") /\ call' = call
     \/ /\ close_sent /\ ~close_recv /\ ~failed
        /\ pc' = "top" /\ call' = kind
        /\ UNCHANGED <<close_sent, failed, closes, after>>
  /\ UNCHANGED <<late, opening, reassembly, max_msg_bytes, close_recv, sent, got,
                 used, messages, oom>>

\* Mutant: the deadline is only looked at when a read times out.
CloseTop_NoDeadline ==
  /\ pc = "top"
  /\ pc' = "pump"
  /\ UNCHANGED <<call, late, opening, reassembly, max_msg_bytes, flags, sent, got,
                 used, output, messages, oom>>

\* The head of the wait's loop
CloseTop ==
  /\ pc = "top"
  /\ IF late THEN PumpReturns ELSE pc' = "pump" /\ UNCHANGED <<call, late>>
  /\ UNCHANGED <<opening, reassembly, max_msg_bytes, flags, sent, got, used, output,
                 messages, oom>>

\* zcio_ws_free of a session that needs no Close
FreeNow ==
  /\ pc = "idle" /\ (close_sent \/ failed)
  /\ pc' = "gone"
  /\ UNCHANGED <<call, late, opening, reassembly, max_msg_bytes, flags, sent, got,
                 used, output, messages, oom>>

Pump == PumpReject \/ PumpMore \/ PumpPing \/ PumpClose \/ PumpData \/ PumpCont
Fill == FillReads \/ FillTimesOut \/ FillFails

Next ==
  \/ DeadlinePasses
  \/ ws_accept \/ Dial \/ ws_send_handshake \/ ReadHeadFails \/ Reply
  \/ Send("data") \/ Send("ping")
  \/ \E cap \in Caps : SetMaxMsgBytes(cap)
  \/ Recv("recv") \/ Recv("recv deadline")
  \/ CloseCall("close") \/ CloseCall("free") \/ FreeNow \/ CloseTop
  \/ Pump \/ Fill

\* The thread runs its calls, reads end, and time passes.
Spec == Init /\ [][Next]_vars
        /\ WF_vars(Pump \/ CloseTop) /\ WF_vars(Fill) /\ WF_vars(DeadlinePasses)

-----------------------------------------------------------------------------
(* The messages in a sequence of frames, by RFC 6455: the reference that   *)
(* ws_pump is compared with.  It ends at the first frame out of place.     *)
NoFrames == [done |-> <<>>, open |-> <<>>, over |-> FALSE]

\* What frame n adds to the messages done and the message open before it.
AddFrame(frames, acc, n) ==
  LET f == frames[n]
      whole == [op |-> IF acc.open = <<>> THEN f.op ELSE frames[acc.open[1]].op,
                frames |-> Append(acc.open, n)]
      valid == whole.op = "text" =>
                 \A i \in DOMAIN whole.frames : frames[whole.frames[i]].ok
      inPlace == IF f.op = "cont" THEN acc.open # <<>> ELSE acc.open = <<>>
  IN  CASE acc.over \/ f.op \in {"ping", "pong"} -> acc
        [] ~acc.over /\ IsData(f) /\ inPlace /\ ~f.fin ->
             [done |-> acc.done, open |-> whole.frames, over |-> FALSE]
        [] ~acc.over /\ IsData(f) /\ inPlace /\ f.fin /\ valid ->
             [done |-> Append(acc.done, whole), open |-> <<>>, over |-> FALSE]
        [] OTHER -> [done |-> acc.done, open |-> acc.open, over |-> TRUE]

Assembly(frames) ==
  LET acc[n \in 0..Len(frames)] ==
        IF n = 0 THEN NoFrames ELSE AddFrame(frames, acc[n - 1], n)
  IN  acc

Assemble(frames) == Assembly(frames)[Len(frames)].done

\* The application is given the peer's messages, whole, in the order they were
\* sent, none twice, none above the cap in force and none that does not follow
\* the protocol, wherever a receive times out or a read splits a frame, and
\* whatever control frames arrive between fragments; until a call has reported
\* that it ran out of memory.
MessagesAsSent ==
  /\ ~oom => IsPrefix([i \in DOMAIN messages |->
                         [op |-> messages[i].op, frames |-> messages[i].frames]],
                      Assemble(sent))
  /\ \A i \in DOMAIN messages : messages[i].fits

\* The closing handshake: one Close is sent, by whichever of ws_close, ws_free,
\* the answer to the peer's Close and ws_protocol_fail comes first, also when
\* both ends close at once; after it only answers to pings; and no Close of the
\* peer stays unanswered.
CloseDiscipline ==
  /\ closes <= 1 /\ after \subseteq {"pong"}
  /\ close_recv => closes = 1
  /\ close_sent <=> closes = 1

\* zcio_ws_close, zcio_ws_free and a receive with a deadline return, whatever
\* the peer sends or fails to send.
CallsReturn == (pc \in {"top", "pump", "fill"} /\ call # "recv") ~> (pc \in {"idle", "gone"})
=============================================================================
