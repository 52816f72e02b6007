----------------------------- MODULE HttpServer -----------------------------
(***************************************************************************)
(* The event loop of the HTTP server (zcio_http_server_run and _poll,      *)
(* src/src/http_server.c) with the threads and signal handlers that call   *)
(* zcio_http_server_stop, the wake pipe between them, the listen backlog,  *)
(* the connection cap, the deadlines and the graceful drain.               *)
(*                                                                         *)
(* What a connection does inside conn_process is the subject of H1Conn and *)
(* H2Conn; here it is in one of five phases and moves between them when    *)
(* its peer acts.  Of HTTP/3 (H3Conn) it matters here whether a connection *)
(* is open.  Deadlines are the ticks left until they pass.                 *)
(***************************************************************************)
EXTENDS Integers, FiniteSets

CONSTANTS Peers,          \* clients, each with at most one connection
          Stoppers,       \* calls of zcio_http_server_stop
          ConnLimits,     \* the values of max_connections
          HeaderTimeout, IdleTimeout, WriteTimeout, DrainTimeout

ASSUME ServerAssumption ==
  /\ IsFiniteSet(Peers) /\ ConnLimits \subseteq Nat
  /\ {HeaderTimeout, IdleTimeout, WriteTimeout, DrainTimeout} \subseteq Nat

VARIABLES
  phase,        \* of each peer's connection; see Phases
  left,         \* ticks until its conn_deadline_ms
  graceful,     \* zh1_graceful_ / zh2_graceful_ was called on it
  acted,        \* what its peer has done that poll() would report: "in", it sent
                \* or closed; "out", it read, so that pending output can be written
  h3Busy,       \* HTTP/3 connections are open: ~zh3_idle_
  stopFlag, wake,                     \* stop_flag; is a byte in the wake pipe?
  listening, stopping, drainLeft,     \* listen_fd, stopping, drain_deadline_ms
  pc,           \* the loop's place in zcio_http_server_poll
  polled,       \* conns[0..nc) of this iteration
  events,       \* the POLLIN that poll() reported and that is not serviced yet:
                \* peers, "wake", "listen"
  spc,          \* each stopper's place in zcio_http_server_stop
  max_connections         \* the server's limit, fixed at its start

connVars == <<phase, left, graceful, acted>>
stopVars == <<listening, stopping, drainLeft>>
vars == <<connVars, h3Busy, stopVars, stopFlag, wake, pc, polled, events, spc,
          max_connections>>

(* "none": no connection; "queued": in the backlog; "new": accepted, the protocol
   not yet known (or the TLS handshake not over); then idle between requests,
   receiving a request (HTTP/1.1), with streams in flight (HTTP/2), or with output
   pending. *)
Phases == {"none", "queued", "new", "idle", "recv", "busy", "send"}
Known  == {"idle", "recv", "busy", "send"}
Connected == Known \cup {"new"}
Open   == {p \in Peers : phase[p] \in Connected}
Queued == {p \in Peers : phase[p] = "queued"}

Init ==
  /\ phase = [p \in Peers |-> "none"]
  /\ left = [p \in Peers |-> 0]
  /\ graceful = [p \in Peers |-> FALSE]
  /\ acted = [p \in Peers |-> {}] /\ h3Busy = FALSE
  /\ stopFlag = FALSE /\ wake = FALSE
  /\ listening = TRUE /\ stopping = FALSE /\ drainLeft = 0
  /\ pc = "top" /\ polled = {} /\ events = {}
  /\ spc = [s \in Stoppers |-> "idle"] /\ max_connections \in ConnLimits

-----------------------------------------------------------------------------
(* The outside: clients, the clock, and zcio_http_server_stop.  Once the run is over
   nothing that clients or the clock do is seen by anyone. *)

Running == pc \notin {"stopped", "failed"}

Connect(p) ==
  /\ Running /\ phase[p] = "none" /\ listening
  /\ phase' = [phase EXCEPT ![p] = "queued"]
  /\ UNCHANGED <<left, graceful, acted, h3Busy, stopVars, stopFlag, wake, pc, polled,
                 events, spc>>

(* The peer sends or closes, or reads what was queued for it. *)
Act(p, what) ==
  /\ Running /\ p \in Open /\ what \notin acted[p]
  /\ what = "out" => phase[p] = "send"
  /\ acted' = [acted EXCEPT ![p] = @ \cup {what}]
  /\ UNCHANGED <<phase, left, graceful, h3Busy, stopVars, stopFlag, wake, pc,
                 polled, events, spc>>

Tick ==
  /\ Running
  /\ drainLeft > 0 \/ \E p \in Peers : left[p] > 0
  /\ left' = [p \in Peers |-> IF left[p] > 0 THEN left[p] - 1 ELSE 0]
  /\ drainLeft' = IF drainLeft > 0 THEN drainLeft - 1 ELSE 0
  /\ UNCHANGED <<phase, graceful, acted, h3Busy, listening, stopping, stopFlag, wake,
                 pc, polled, events, spc>>

(* Mutant: the pipe is poked before the flag is raised. *)
Stop_PokesFirst(s) ==
  /\ \/ spc[s] = "idle" /\ wake' = TRUE /\ UNCHANGED stopFlag
     \/ spc[s] = "poke" /\ stopFlag' = TRUE /\ UNCHANGED wake
  /\ spc' = [spc EXCEPT ![s] = IF @ = "idle" THEN "poke" ELSE "done"]
  /\ UNCHANGED <<connVars, h3Busy, stopVars, pc, polled, events>>

(* zcio_http_server_stop: first the flag, then the pipe.  A pipe too full for
   the byte is not empty, so the failed write loses nothing. *)
Stop(s) ==
  /\ \/ spc[s] = "idle" /\ stopFlag' = TRUE /\ UNCHANGED wake
     \/ spc[s] = "poke" /\ wake' = TRUE /\ UNCHANGED stopFlag
  /\ spc' = [spc EXCEPT ![s] = IF @ = "idle" THEN "poke" ELSE "done"]
  /\ UNCHANGED <<connVars, h3Busy, stopVars, pc, polled, events>>

-----------------------------------------------------------------------------
(* One call of zcio_http_server_poll after another. *)

(* Mutant: the listeners stay open. *)
BeginStop_KeepsListening ==
  /\ UNCHANGED <<listening, phase>>
  /\ graceful' = [p \in Peers |-> graceful[p] \/ phase[p] \in Known]
  /\ stopping' = TRUE
  /\ drainLeft' = DrainTimeout

(* begin_stop: connections whose protocol is known are told. *)
BeginStop ==
  /\ listening' = FALSE
  /\ phase' = [p \in Peers |-> IF phase[p] = "queued" THEN "none" ELSE phase[p]]
  /\ graceful' = [p \in Peers |-> graceful[p] \/ phase[p] \in Known]
  /\ stopping' = TRUE
  /\ drainLeft' = DrainTimeout

(* Mutant: entries of earlier iterations stay in the poll set. *)
BuildPollSet_Stale == polled' = polled \cup {p \in Peers : phase'[p] \in Connected}

(* One entry per connection, rebuilt on every call. *)
BuildPollSet == polled' = {p \in Peers : phase'[p] \in Connected}

(* The top of the call: stop_flag, and the poll set. *)
Top ==
  /\ pc = "top"
  /\ IF stopFlag /\ ~stopping THEN BeginStop
     ELSE UNCHANGED <<phase, graceful, stopVars>>
  /\ BuildPollSet
  /\ pc' = "poll"
  /\ UNCHANGED <<left, acted, h3Busy, stopFlag, wake, events, spc>>

(* Mutant: connections that are waited on for writing are left out. *)
DeadlinePassed_NotSending ==
  (stopping /\ drainLeft = 0) \/ \E p \in polled : left[p] = 0 /\ phase[p] # "send"

(* The timeout given to poll() is the earliest deadline, and it has passed. *)
DeadlinePassed == (stopping /\ drainLeft = 0) \/ \E p \in polled : left[p] = 0

Reported ==
  {p \in polled : "in" \in acted[p]}
    \cup (IF wake THEN {"wake"} ELSE {})
    \cup (IF listening /\ Queued # {} THEN {"listen"} ELSE {})

ToService ==
  /\ pc = "poll"
  /\ events' = Reported
  /\ pc' = "wake"
  /\ UNCHANGED <<connVars, h3Busy, stopVars, stopFlag, wake, polled, spc>>

(* zcio_poll_ returns: descriptors are ready, or the timeout has passed. *)
PollReturns ==
  /\ Reported # {} \/ DeadlinePassed \/ \E p \in polled : "out" \in acted[p]
  /\ ToService

(* It returns for a datagram or a timer of QUIC. *)
QuicWakes == ToService

(* poll() fails or the poll set cannot be allocated: the run ends in an error. *)
PollFails ==
  /\ pc = "poll"
  /\ pc' = "failed"
  /\ UNCHANGED <<connVars, h3Busy, stopVars, stopFlag, wake, polled, events, spc>>

(* wake_drain empties the pipe. *)
WakeDrain ==
  /\ pc = "wake"
  /\ wake' = (wake /\ "wake" \notin events)
  /\ pc' = IF "listen" \in events THEN "accept" ELSE "conns"
  /\ events' = events \ {"wake", "listen"}
  /\ UNCHANGED <<connVars, h3Busy, stopVars, stopFlag, polled, spc>>

(* Mutant: the cap is compared one too late. *)
CapReached_Late == Cardinality(Open) > max_connections

CapReached == Cardinality(Open) >= max_connections

(* One round of accept_loop: over the cap, or when conn_create fails, the socket
   is closed.  A connection of the redirect listener is HTTP/1.1 from the start. *)
Accept(p) ==
  /\ pc = "accept" /\ p \in Queued
  /\ \/ /\ ~CapReached
        /\ \E q \in {"new", "idle"} :
             /\ phase' = [phase EXCEPT ![p] = q]
             /\ left' = [left EXCEPT ![p] = IF q = "new" THEN HeaderTimeout
                                            ELSE IdleTimeout]
     \/ phase' = [phase EXCEPT ![p] = "none"] /\ UNCHANGED left
  /\ UNCHANGED <<graceful, acted, h3Busy, stopVars, stopFlag, wake, pc, polled, events, spc>>

(* accept() fails: the backlog is empty, or the error is a transient one. *)
AcceptDone ==
  /\ pc = "accept"
  /\ pc' = "conns"
  /\ UNCHANGED <<connVars, h3Busy, stopVars, stopFlag, wake, polled, events, spc>>

Writes(p) == phase[p] = "send" /\ "out" \in acted[p]

(* The phases conn_process may take a connection to when its peer has acted; a
   graceful one is not kept alive after its response.  Pending output stays as
   long as the peer does not read.  "none" stands for dead. *)
Moves(p) ==
  CASE phase[p] = "new" -> Known \cup {"new", "none"}
    [] phase[p] = "idle" -> Known \cup {"none"}
    [] phase[p] = "send" -> {"send", "none"}
         \cup (IF Writes(p) THEN {"recv", "busy"} ELSE {})
         \cup (IF Writes(p) /\ ~graceful[p] THEN {"idle"} ELSE {})
    [] OTHER -> {phase[p], "send", "none"}
         \cup (IF graceful[p] THEN {} ELSE {"idle"})

(* Mutant: every read is charged to the request's budget, without a floor. *)
NewLeft_NoFloor(p, q) ==
  CASE q = "none" -> {0}
    [] q = "new" -> {left[p]}
    [] q = "recv" -> {IF phase[p] = "recv" THEN left[p] - 1 ELSE IdleTimeout}
    [] q = "send" -> {WriteTimeout}
    [] q \in {"idle", "busy"} -> {IdleTimeout}

(* Mutant: receiving more of a request moves its deadline. *)
NewLeft_Sliding(p, q) ==
  CASE q = "none" -> {0}
    [] q = "new" -> {left[p]}
    [] q = "recv" -> {IdleTimeout}
    [] q = "send" -> {WriteTimeout}
    [] q \in {"idle", "busy"} -> {IdleTimeout}

(* conn_deadline_ms after the move from phase[p] to q.  For a connection that is
   being received it runs from the first byte (head_start_ms) and does not move;
   the budget is the idle timeout, the larger of the two the code uses.  An HTTP/2
   connection has no such deadline: whatever it reads renews its idle timeout.
   Pending output is given the write timeout again whenever something is written
   or read; an end of file is neither. *)
NewLeft(p, q) ==
  CASE q = "none" -> {0}
    [] q = "new" -> {left[p]}
    [] q = "recv" -> {IF phase[p] = "recv" THEN left[p] ELSE IdleTimeout}
    [] q = "send" -> {WriteTimeout}
         \cup (IF phase[p] = "send" /\ ~Writes(p) THEN {left[p]} ELSE {})
    [] q \in {"idle", "busy"} -> {IdleTimeout}

(* conn_process reads what poll() reported, but tries to write in any case. *)
Ready == {p \in polled : p \in events \/ Writes(p)}

(* zh3_process_: connections come until the stop, and go; when it fails they are
   all freed. *)
ProcessQuic == h3Busy' \in IF stopping THEN {h3Busy, FALSE} ELSE BOOLEAN

(* zh3_process_, and conn_process for conns[0..nc): nothing moves without its
   peer. *)
Process ==
  /\ pc = "conns"
  /\ ProcessQuic
  /\ \E f \in [Ready -> Phases] :
       /\ \A p \in Ready : f[p] \in Moves(p)
       /\ phase' = [p \in Peers |-> IF p \in Ready THEN f[p] ELSE phase[p]]
       /\ \E l \in [Ready -> UNION {NewLeft(p, f[p]) : p \in Ready}] :
            /\ \A p \in Ready : l[p] \in NewLeft(p, f[p])
            /\ left' = [p \in Peers |-> IF p \in Ready THEN l[p] ELSE left[p]]
  /\ acted' = [p \in Peers |-> IF p \notin Ready THEN acted[p]
                               ELSE IF phase'[p] = "none" \/ p \in events THEN {}
                               ELSE acted[p] \ {"out"}]
  /\ graceful' = [p \in Peers |-> graceful[p] /\ phase'[p] # "none"]
  /\ pc' = "sweep" /\ events' = {}
  /\ UNCHANGED <<stopVars, stopFlag, wake, polled, spc>>

(* Mutant: only drained connections are closed, however long it takes. *)
DrainExpired_Never == FALSE

DrainExpired == drainLeft = 0

(* The deadline sweep, the drain bookkeeping and server_remove_dead. *)
Dying ==
  {p \in Open : \/ p \in polled /\ left[p] = 0
                \/ stopping /\ (phase[p] \in {"new", "idle"} \/ DrainExpired)}

Sweep ==
  /\ pc = "sweep"
  /\ phase' = [p \in Peers |-> IF p \in Dying THEN "none" ELSE phase[p]]
  /\ left' = [p \in Peers |-> IF p \in Dying THEN 0 ELSE left[p]]
  /\ acted' = [p \in Peers |-> IF p \in Dying THEN {} ELSE acted[p]]
  /\ graceful' = [p \in Peers |-> graceful[p] /\ p \notin Dying]
  /\ pc' = IF stopping /\ Open \subseteq Dying /\ ~h3Busy THEN "stopped" ELSE "top"
  /\ UNCHANGED <<h3Busy, stopVars, stopFlag, wake, polled, events, spc>>

-----------------------------------------------------------------------------
LoopStep == \/ Top \/ PollReturns \/ WakeDrain \/ AcceptDone \/ Process \/ Sweep
            \/ \E p \in Peers : Accept(p)

Next == /\ \/ LoopStep \/ QuicWakes \/ PollFails \/ Tick
           \/ \E p \in Peers : Connect(p)
           \/ \E p \in Peers, what \in {"in", "out"} : Act(p, what)
           \/ \E s \in Stoppers : Stop(s)
        /\ UNCHANGED max_connections

Spec == Init /\ [][Next]_vars

(* The loop's thread and a thread inside stop() run; time passes.  accept_loop has
   no bound of its own: that it ends rests on clients not refilling the backlog as
   fast as it is emptied for ever, which is the fairness of AcceptDone. *)
FairSpec ==
  /\ Spec
  /\ WF_vars(LoopStep /\ UNCHANGED max_connections)
  /\ WF_vars(Tick /\ UNCHANGED max_connections)
  /\ WF_vars(AcceptDone /\ UNCHANGED max_connections)
  /\ \A s \in Stoppers : WF_vars(spc[s] = "poke" /\ Stop(s) /\ UNCHANGED max_connections)

-----------------------------------------------------------------------------
(* What must hold. *)

(* Every variable keeps its type. *)
TypeOK ==
  /\ phase \in [Peers -> Phases]
  /\ left \in [Peers -> Nat]
  /\ graceful \in [Peers -> BOOLEAN] /\ acted \in [Peers -> SUBSET {"in", "out"}]
  /\ h3Busy \in BOOLEAN /\ max_connections \in ConnLimits
  /\ stopFlag \in BOOLEAN /\ wake \in BOOLEAN
  /\ listening \in BOOLEAN /\ stopping \in BOOLEAN /\ drainLeft \in Nat
  /\ pc \in {"top", "poll", "wake", "accept", "conns", "sweep", "stopped", "failed"}
  /\ polled \in SUBSET Peers
  /\ events \in SUBSET (Peers \cup {"wake", "listen"})
  /\ spc \in [Stoppers -> {"idle", "poke", "done"}]

(* No lost wake-up: a loop that sleeps in poll() although the stop was requested
   has a byte in the pipe, or the stopper is still on its way to write it. *)
NoLostWakeup ==
  pc = "poll" /\ stopFlag /\ ~stopping =>
    wake \/ \E s \in Stoppers : spc[s] = "poke"

(* The connection table never holds more than max_connections. *)
ConnectionCap == Cardinality(Open) <= max_connections

(* The poll set is the connection table: a connection outside it was accepted in
   this very iteration, and nothing in it has been removed meanwhile. *)
PolledIsTable ==
  /\ pc \in {"poll", "wake"} => polled = Open
  /\ pc \in {"accept", "conns"} => polled \subseteq Open

(* A stop closes the door: from then on no connection appears. *)
NoNewConnections ==
  [][stopping => \A p \in Peers : phase[p] = "none" => phase'[p] = "none"]_vars

(* Every requested stop completes, whatever the clients do (or the run ends in an
   error of poll), unless HTTP/3 connections stay open: the drain deadline closes
   the others, and the loop waits for these (http_server.c:852-863). *)
StopCompletes == []<>~h3Busy => (stopFlag ~> pc \in {"stopped", "failed"})

(* Said of zcio_http_server_stop (http_server.h:131-132): work in flight is drained
   up to drain_timeout_ms, so that every requested stop completes. *)
StopWithinDrain == stopFlag ~> pc \in {"stopped", "failed"}

(* Slow senders: a request that is being received does not hold its connection in
   that state for ever, however its bytes trickle in. *)
RequestsEnd ==
  \A p \in Peers : (phase[p] = "recv") ~> (phase[p] # "recv" \/ pc = "failed")

(* Dead readers: pending output does not hold a connection whose peer does nothing
   any more.  The write deadline is renewed by what is read and written, is among
   the timeouts of poll() and ends the connection. *)
DeadPeersCut ==
  \A p \in Peers :
    (phase[p] = "send") ~> (phase[p] # "send" \/ acted[p] # {} \/ pc = "failed")

(* Said of write_timeout_ms, the slow-read guard (http_server.h:109): pending output
   does not hold a connection whose peer does not read, whatever it sends. *)
NonReadersCut ==
  \A p \in Peers :
    (phase[p] = "send") ~> (phase[p] # "send" \/ "out" \in acted[p] \/ pc = "failed")

=============================================================================
