----------------------------- MODULE TcpServer -----------------------------
(***************************************************************************)
(* The TCP objects (src/src/tcp.c): the client, and the server, a table of *)
(* accepted connections indexed by client id, and the list of ids to use   *)
(* again.  Every allocation may fail, and so may the TLS handshake of a    *)
(* connect or an accept.                                                   *)
(***************************************************************************)
EXTENDS Sockets, Integers, Sequences, FiniteSets, SequencesExt, FiniteSetsExt

CONSTANTS
  FirstCap,    \* the first size of the slot array and of the free list (8)
  MaxIds       \* bound on next_id

ASSUME TcpAssumption ==
  FirstCap \in Nat \ {0} /\ MaxIds \in Nat

VARIABLES
  listener,    \* the listening descriptor, NoFd without a server
  next_id, slots, slots_len, free_ids, free_cap,
  callerFd,    \* a listening descriptor that is the application's own
  tcpClient,   \* the tcp_sockctx of a zcio_tcp_client
  \* history
  peak,        \* the most connections open at once
  lost,        \* ids dropped for lack of memory
  adoptLost    \* an adopt ran out of memory and closed the application's socket

callerVars == <<callerFd, adoptLost>>
tcpVars == <<listener, next_id, slots, slots_len, free_ids, free_cap,
             callerVars, peak, lost>>
table == <<next_id, slots, slots_len, free_ids, free_cap, peak, lost>>

Cap == Cardinality(DOMAIN slots)              \* slots_cap
Live == {id \in DOMAIN slots : slots[id] # NoOwner}

EmptyTable ==
  /\ next_id = 0 /\ slots = [id \in {} |-> NoOwner] /\ slots_len = 0
  /\ free_ids = <<>> /\ free_cap = 0 /\ peak = 0 /\ lost = 0

TcpInit ==
  /\ listener = NoFd /\ callerFd = NoFd /\ adoptLost = FALSE /\ EmptyTable
  /\ tcpClient = NoOwner

-----------------------------------------------------------------------------
(* The client.                                                             *)

\* tcp_client_make: the addresses of the host are tried one after another; a
\* candidate that does not connect is closed, and so is the socket when the
\* stream, the TLS overlay or the client object cannot be made.
tcp_client_make ==
  /\ tcpClient = NoOwner
  /\ \/ \E fd \in Fds : OpenSocket(fd, "tcp client") /\ tcpClient' = Owner(fd)
     \/ OpenAndClose /\ tcpClient' = tcpClient

\* tcp_s_close through the client's stream
tcp_client_close ==
  /\ tcpClient # NoOwner /\ ~tcpClient.closed
  /\ CloseSockets({tcpClient.fd}) /\ tcpClient' = ClosedOwner

\* zcio_tcp_client_free; the stream's destroy closes what is still open.
tcp_client_free ==
  /\ tcpClient # NoOwner
  /\ CloseSockets(ToClose(tcpClient)) /\ tcpClient' = NoOwner

TcpClientNext == tcp_client_make \/ tcp_client_close \/ tcp_client_free

-----------------------------------------------------------------------------
(* The server.                                                             *)

\* tcp_server_make: socket, bind and listen; every failure closes the socket.
Listen ==
  /\ listener = NoFd
  /\ \/ \E fd \in Fds : OpenSocket(fd, "tcp server") /\ listener' = fd
     \/ OpenAndClose /\ listener' = listener
  /\ UNCHANGED <<table, callerVars>>

\* The application makes a listening socket of its own.
CallerSocket ==
  /\ callerFd = NoFd /\ listener = NoFd
  /\ \E fd \in Fds : OpenSocket(fd, "tcp server") /\ callerFd' = fd
  /\ UNCHANGED <<listener, table, adoptLost>>

\* The application closes the descriptor it takes for its own.
CallerClose ==
  /\ callerFd # NoFd
  /\ CloseSockets({callerFd}) /\ callerFd' = NoFd
  /\ UNCHANGED <<listener, table, adoptLost>>

\* zcio_tcp_server_adopt takes the socket over, or fails: it cannot be made
\* non-blocking and stays open, or tcp_server_wrap has no memory and closes it.
\* After a failure the application takes the descriptor for its own, as net.h
\* says.
Adopt ==
  /\ callerFd # NoFd /\ listener = NoFd
  /\ \/ listener' = callerFd /\ callerFd' = NoFd /\ UNCHANGED <<files, adoptLost>>
     \/ UNCHANGED <<listener, callerFd, files, adoptLost>>
     \/ CloseSockets({callerFd}) /\ adoptLost' = TRUE /\ UNCHANGED <<listener, callerFd>>
  /\ UNCHANGED table

\* zcio_tcp_server_free
Free ==
  /\ listener # NoFd
  /\ CloseSockets({listener} \cup UNION {ToClose(slots[id]) : id \in Live})
  /\ listener' = NoFd /\ UNCHANGED callerVars
  /\ next_id' = 0 /\ slots' = [id \in {} |-> NoOwner] /\ slots_len' = 0
  /\ free_ids' = <<>> /\ free_cap' = 0 /\ peak' = 0 /\ lost' = 0

-----------------------------------------------------------------------------
\* The growth of server_store: doubling until `id' fits, so that the size
\* before the last doubling did not do.
GrowTo(id, cap) ==
  LET first == IF Cap = 0 THEN FirstCap ELSE 2 * Cap
  IN  IF id < Cap THEN cap = Cap
      ELSE \E k \in 0..id : cap = first * 2^k /\ cap > id /\ (k > 0 => cap <= 2 * id)

\* server_store with the memory it needs
server_store(id, conn) ==
  /\ \E cap \in Cap..2 * (Cap + FirstCap + id) :
       /\ GrowTo(id, cap)
       /\ slots' = [i \in 0..cap - 1 |->
                      IF i = id THEN conn ELSE IF i < Cap THEN slots[i] ELSE NoOwner]
  /\ slots_len' = Max({slots_len, id + 1})

StoreFails(id) ==                             \* realloc returns NULL
  /\ id >= Cap
  /\ UNCHANGED <<slots, slots_len, peak>>
  /\ lost' = lost + 1

\* Mutant: the id is used but stays on the free list.
TakeId_Peeks(id) ==
  IF free_ids # <<>>
  THEN id = Last(free_ids) /\ UNCHANGED <<free_ids, next_id>>
  ELSE id = next_id /\ id < MaxIds /\ next_id' = next_id + 1 /\ free_ids' = free_ids

\* server_pop_free_id, or the next new id
TakeId(id) ==
  IF free_ids # <<>>
  THEN id = Last(free_ids) /\ free_ids' = Front(free_ids) /\ next_id' = next_id
  ELSE id = next_id /\ id < MaxIds /\ next_id' = next_id + 1 /\ free_ids' = free_ids

\* zcio_tcp_server_accept.  When the stream, the TLS session or the connection
\* object cannot be made, or the table cannot grow, the socket is closed.
Accept ==
  /\ listener # NoFd
  /\ \/ /\ OpenAndClose
        /\ UNCHANGED table
     \/ \E id \in 0..next_id, fd \in Fds :
          /\ TakeId(id)
          /\ \/ /\ OpenSocket(fd, "tcp conn")
                /\ server_store(id, Owner(fd))
                /\ peak' = Max({peak, Cardinality(Live) + 1})
                /\ lost' = lost
             \/ OpenAndClose /\ StoreFails(id)
          /\ free_cap' = free_cap
  /\ UNCHANGED <<listener, callerVars>>

\* The push of zcio_tcp_server_close_client: an id the list has no room for,
\* and cannot get room for, is dropped.
Recycle(id) ==
  \/ /\ free_cap' = IF Len(free_ids) < free_cap THEN free_cap
                    ELSE IF free_cap = 0 THEN FirstCap ELSE 2 * free_cap
     /\ free_ids' = Append(free_ids, id) /\ lost' = lost
  \/ /\ Len(free_ids) >= free_cap
     /\ lost' = lost + 1 /\ UNCHANGED <<free_ids, free_cap>>

CloseClient(id) ==
  /\ listener # NoFd /\ id < slots_len /\ slots[id] # NoOwner
  /\ CloseSockets(ToClose(slots[id]))
  /\ slots' = [slots EXCEPT ![id] = NoOwner]
  /\ Recycle(id)
  /\ UNCHANGED <<listener, callerVars, next_id, slots_len, peak>>

\* Mutant: the stream does not remember that it is closed.
StreamClose_Forgets(id) ==
  /\ id \in Live /\ ~slots[id].closed
  /\ CloseSockets({slots[id].fd})
  /\ UNCHANGED <<listener, callerVars, table>>

\* tcp_s_close: the application closes a connection's stream and keeps the
\* connection; destroying the stream later must not close the socket again.
StreamClose(id) ==
  /\ id \in Live /\ ~slots[id].closed
  /\ CloseSockets({slots[id].fd})
  /\ slots' = [slots EXCEPT ![id] = ClosedOwner]
  /\ UNCHANGED <<listener, callerVars, next_id, slots_len, free_ids,
                 free_cap, peak, lost>>

TcpServerNext ==
  \/ Listen \/ CallerSocket \/ CallerClose \/ Adopt \/ Free \/ Accept
  \/ \E id \in DOMAIN slots : CloseClient(id) \/ StreamClose(id)

-----------------------------------------------------------------------------
\* The id table.  No id is in use and free at once, or free twice, so accept
\* never hands out one that still names a connection; every id given out is in
\* use, free, or dropped for lack of memory; and reusing them bounds the table
\* by the most connections ever open at once (the comment at tcp.c:428-430).
IdsSound ==
  /\ Live \cap Range(free_ids) = {} /\ IsInjective(free_ids)
  /\ \A id \in Live : id < slots_len
  /\ slots_len <= Cap
  /\ \A id \in Live \cup Range(free_ids) : id < next_id
  /\ next_id = Cardinality(Live) + Len(free_ids) + lost
  /\ next_id <= peak + lost
=============================================================================
