----------------------------- MODULE Datagrams -----------------------------
(***************************************************************************)
(* The datagram objects: the UDP server, which sorts what arrives on its   *)
(* one socket into a buffer per peer (src/src/udp.c), and the three        *)
(* streams that own a socket of their own, the UDP client (udp.c) and the  *)
(* multicast sender and receiver (src/src/mcast.c).                        *)
(*                                                                         *)
(* The network loses, repeats and reorders datagrams: any of them may      *)
(* arrive at any time, any number of times, or never.                      *)
(***************************************************************************)
EXTENDS Sockets, Integers, Sequences, FiniteSets, SequencesExt, FiniteSetsExt

CONSTANTS
  Peers,       \* remote addresses
  Sizes,       \* payload sizes, 0 included
  Timeouts,    \* values of timeout_us, 0 included
  Windows      \* the library is built for Windows (_WIN32)

ASSUME DatagramsAssumption ==
  Sizes \subseteq Nat /\ Timeouts \subseteq Nat /\ Windows \in BOOLEAN

VARIABLES
  client, sender, receiver,   \* udp_clictx, mcast_sctx, mcast_rctx
  server,      \* the UDP server's descriptor, NoFd without one
  peers,       \* its table of peers: address and buffer
  rcvtimeo_us, \* the timeout it last asked for, Unset at first (rcvtimeo_set)
  option,      \* the SO_RCVTIMEO its socket has; 0 is no timeout
  call,        \* the receive in progress
  last, got,   \* (history) by peer: the datagram its buffer was last filled
               \* with and the bytes read from it
  refused      \* (history) a setsockopt of this server has failed

ownerVars == <<client, sender, receiver>>
timeoutVars == <<rcvtimeo_us, option, refused>>
udpVars == <<server, peers, timeoutVars, call, last, got>>
datagramVars == <<ownerVars, udpVars>>

Unset == -1
ForEver == 0
Idle == [non_block |-> FALSE, timeout |-> 0, waiting |-> FALSE]
Datagram == [from : Peers, size : Sizes]   \* one of each size
Bytes(d) == [i \in 1..d.size |-> <<d.from, d.size, i>>]
NoDatagram(p) == [from |-> p, size |-> 0]

DatagramsInit ==
  /\ client = NoOwner /\ sender = NoOwner /\ receiver = NoOwner
  /\ server = NoFd /\ peers = <<>> /\ call = Idle
  /\ rcvtimeo_us = Unset /\ option = ForEver /\ refused = FALSE
  /\ last = [p \in Peers |-> NoDatagram(p)] /\ got = [p \in Peers |-> <<>>]

-----------------------------------------------------------------------------
(* Streams that own their socket.  Opening one fails after the socket was  *)
(* made (an address that does not parse, a bind or a group membership that *)
(* is refused, no memory): the socket is closed.                           *)

udp_client_open ==
  /\ client = NoOwner
  /\ \/ \E fd \in Fds : OpenSocket(fd, "udp client") /\ client' = Owner(fd)
     \/ OpenAndClose /\ client' = client
  /\ UNCHANGED <<sender, receiver, udpVars>>

udp_cli_close ==
  /\ client # NoOwner /\ ~client.closed
  /\ CloseSockets({client.fd}) /\ client' = ClosedOwner
  /\ UNCHANGED <<sender, receiver, udpVars>>

udp_client_free ==
  /\ client # NoOwner
  /\ CloseSockets(ToClose(client)) /\ client' = NoOwner
  /\ UNCHANGED <<sender, receiver, udpVars>>

mcast_sender_open ==
  /\ sender = NoOwner
  /\ \/ \E fd \in Fds : OpenSocket(fd, "mcast sender") /\ sender' = Owner(fd)
     \/ OpenAndClose /\ sender' = sender
  /\ UNCHANGED <<client, receiver, udpVars>>

mcast_send_close ==
  /\ sender # NoOwner /\ ~sender.closed
  /\ CloseSockets({sender.fd}) /\ sender' = ClosedOwner
  /\ UNCHANGED <<client, receiver, udpVars>>

mcast_sender_free ==
  /\ sender # NoOwner
  /\ CloseSockets(ToClose(sender)) /\ sender' = NoOwner
  /\ UNCHANGED <<client, receiver, udpVars>>

mcast_receiver_open ==
  /\ receiver = NoOwner
  /\ \/ \E fd \in Fds : OpenSocket(fd, "mcast receiver") /\ receiver' = Owner(fd)
     \/ OpenAndClose /\ receiver' = receiver
  /\ UNCHANGED <<client, sender, udpVars>>

mcast_recv_close ==
  /\ receiver # NoOwner /\ ~receiver.closed
  /\ CloseSockets({receiver.fd}) /\ receiver' = ClosedOwner
  /\ UNCHANGED <<client, sender, udpVars>>

mcast_receiver_free ==
  /\ receiver # NoOwner
  /\ CloseSockets(ToClose(receiver)) /\ receiver' = NoOwner
  /\ UNCHANGED <<client, sender, udpVars>>

-----------------------------------------------------------------------------
\* zcio_udp_server_bind
udp_server_bind ==
  /\ server = NoFd
  /\ \/ \E fd \in Fds : OpenSocket(fd, "udp server") /\ server' = fd
     \/ OpenAndClose /\ server' = server
  /\ UNCHANGED <<ownerVars, peers, timeoutVars, call, last, got>>

\* zcio_udp_server_free: the buffers and the socket go, and with the socket
\* what waits on it.
udp_server_free ==
  /\ server # NoFd /\ ~call.waiting
  /\ CloseSockets({server})
  /\ server' = NoFd /\ peers' = <<>>
  /\ rcvtimeo_us' = Unset /\ option' = ForEver /\ refused' = FALSE
  /\ last' = [p \in Peers |-> NoDatagram(p)] /\ got' = [p \in Peers |-> <<>>]
  /\ UNCHANGED <<ownerVars, call>>

\* What setsockopt is given: whole milliseconds on Windows.
TimeoutOption(timeout) == IF Windows THEN (timeout \div 1000) * 1000 ELSE timeout

\* Mutant: the socket is given the first timeout that is asked for, and no other.
SetTimeout_Once(timeout) ==
  IF rcvtimeo_us # Unset THEN UNCHANGED timeoutVars
  ELSE /\ rcvtimeo_us' = timeout
       /\ \/ option' = TimeoutOption(timeout) /\ refused' = refused
          \/ option' = option /\ refused' = TRUE

\* The timeout of a call, unless it is the cached one.  Whether setsockopt
\* succeeds is not looked at: the cache is updated in either case.
SetTimeout(timeout) ==
  IF rcvtimeo_us = timeout THEN UNCHANGED timeoutVars
  ELSE /\ rcvtimeo_us' = timeout
       /\ \/ option' = TimeoutOption(timeout) /\ refused' = refused
          \/ option' = option /\ refused' = TRUE

\* zcio_udp_server_receive up to recvfrom
Receive(non_block, timeout) ==
  /\ server # NoFd /\ ~call.waiting
  /\ IF non_block THEN SetTimeout(timeout) ELSE UNCHANGED timeoutVars
  /\ call' = [non_block |-> non_block, waiting |-> TRUE,
               timeout |-> IF non_block THEN timeout ELSE 0]
  /\ UNCHANGED <<ownerVars, server, peers, last, got, files>>

\* recvfrom returns an error and receive returns NULL.  Interrupted by a signal
\* it is called again; on Windows it is called again after every error.
RecvFails ==
  /\ call.waiting /\ ~Windows
  /\ call' = Idle
  /\ UNCHANGED <<ownerVars, server, peers, timeoutVars, last, got, files>>

\* One of the errors is the socket's timeout, which also ends a call that asked
\* for none.
TimedOut == option # ForEver /\ RecvFails

\* server_peer: the index of the peer's entry, past the end if it has none
IndexOf(p) ==
  LET known == {i \in DOMAIN peers : peers[i].addr = p}
  IN  IF known = {} THEN Len(peers) + 1 ELSE CHOOSE i \in known : TRUE

EntryOf(p) ==
  IF IndexOf(p) <= Len(peers) THEN peers[IndexOf(p)]
  ELSE [addr |-> p, buf |-> <<>>, buf_len |-> 0, buf_pos |-> 0]

\* Mutant: the read position of the old datagram stays.
Fill_KeepsPosition(entry, d) ==
  [entry EXCEPT
     !.buf = [i \in 1..Max({Len(entry.buf), d.size}) |->
                IF i <= d.size THEN Bytes(d)[i] ELSE entry.buf[i]],
     !.buf_len = d.size]

\* The tail of receive: grow the buffer if the datagram is larger, copy it
\* over the front, rewind.  What the old datagram left is overwritten.
Fill(entry, d) ==
  [entry EXCEPT
     !.buf = [i \in 1..Max({Len(entry.buf), d.size}) |->
                IF i <= d.size THEN Bytes(d)[i] ELSE entry.buf[i]],
     !.buf_len = d.size, !.buf_pos = 0]

\* The rest of receive, when recvfrom returns a datagram.  An empty one and
\* a lack of memory return NULL; the datagram is gone in either case.
Route(d) ==
  /\ call.waiting
  /\ call' = Idle
  /\ LET at == IndexOf(d.from)
         Put(entry) == [i \in 1..Max({Len(peers), at}) |->
                          IF i = at THEN entry ELSE peers[i]]
     IN  \/ /\ d.size > 0
            /\ peers' = Put(Fill(EntryOf(d.from), d))
            /\ last' = [last EXCEPT ![d.from] = d]
            /\ got' = [got EXCEPT ![d.from] = <<>>]
         \/ /\ d.size = 0 \/ at > Len(peers)          \* no entry made
            /\ UNCHANGED <<peers, last, got>>
         \/ /\ d.size > Len(EntryOf(d.from).buf)      \* buffer not grown
            /\ peers' = Put(EntryOf(d.from))
            /\ UNCHANGED <<last, got>>
  /\ UNCHANGED <<ownerVars, server, timeoutVars, files>>

\* udp_pkt_read of up to n bytes; a drained buffer is WOULDBLOCK.
udp_pkt_read(i, n) ==
  LET e == peers[i]
      take == Min({e.buf_len - e.buf_pos, n})
  IN  /\ ~call.waiting /\ e.buf_len > e.buf_pos
      /\ peers' = [peers EXCEPT ![i].buf_pos = @ + take]
      /\ got' = [got EXCEPT ![e.addr] =
                   @ \o SubSeq(e.buf, e.buf_pos + 1, e.buf_pos + take)]
      /\ UNCHANGED <<ownerVars, server, timeoutVars, call, last, files>>

UdpClientNext == udp_client_open \/ udp_cli_close \/ udp_client_free

McastNext ==
  \/ mcast_sender_open \/ mcast_send_close \/ mcast_sender_free
  \/ mcast_receiver_open \/ mcast_recv_close \/ mcast_receiver_free

UdpServerNext == udp_server_bind \/ udp_server_free

ReceiveNext ==
  \/ \E non_block \in BOOLEAN, timeout \in Timeouts : Receive(non_block, timeout)
  \/ RecvFails \/ \E d \in Datagram : Route(d)
  \/ \E i \in DOMAIN peers, n \in Sizes \ {0} : udp_pkt_read(i, n)

-----------------------------------------------------------------------------
\* Datagrams keep their boundaries and their sender: what the application has
\* read from a peer's stream since its last datagram was routed is a prefix of
\* that datagram, never the rest of an older one or another peer's bytes, and
\* a peer has one buffer (server_peer and the copy at the end of receive).
DatagramsWhole ==
  /\ \A p \in Peers : last[p].from = p /\ IsPrefix(got[p], Bytes(last[p]))
  /\ \A i, j \in DOMAIN peers : peers[i].addr = peers[j].addr => i = j

\* A receive that asks for a timeout returns, whatever timeouts, and calls
\* without one, came before it (udp.c:289-319: the cache spares the setsockopt
\* call, so a stale one would let the call wait for ever), as long as setsockopt
\* did not fail.  A timeout of 0 is no timeout to the socket, and is left out.
TimedReceiveReturns ==
  (call.waiting /\ call.non_block /\ call.timeout > 0 /\ ~refused) ~> ~call.waiting
=============================================================================
