-------------------------------- MODULE Net --------------------------------
(***************************************************************************)
(* The socket objects of the library in one process: they share nothing    *)
(* but the descriptor table, where a wrong close by one of them ends a     *)
(* connection of another.                                                  *)
(***************************************************************************)
EXTENDS TcpServer, Datagrams

Objects == {"tcp server", "tcp client", "udp client", "mcast", "udp server", "receive"}

CONSTANT Instances            \* sets of objects: what one process may use

ASSUME NetAssumption == Instances \subseteq SUBSET Objects

VARIABLE inUse                \* the one of them, fixed at the start

tcpAll == <<tcpVars, tcpClient>>
vars == <<files, tcpAll, datagramVars, inUse>>

Init == SocketsInit /\ TcpInit /\ DatagramsInit /\ inUse \in Instances

Next ==
  /\ \/ "tcp server" \in inUse /\ TcpServerNext /\ UNCHANGED <<tcpClient, datagramVars>>
     \/ "tcp client" \in inUse /\ TcpClientNext /\ UNCHANGED <<tcpVars, datagramVars>>
     \/ "udp client" \in inUse /\ UdpClientNext /\ UNCHANGED tcpAll
     \/ "mcast" \in inUse /\ McastNext /\ UNCHANGED tcpAll
     \/ "udp server" \in inUse /\ UdpServerNext /\ UNCHANGED tcpAll
     \/ "receive" \in inUse /\ ReceiveNext /\ UNCHANGED tcpAll
  /\ inUse' = inUse

\* The kernel ends a wait whose timeout has passed, unless signals interrupt it
\* for ever; nothing promises that a datagram ever comes.
Spec == Init /\ [][Next]_vars
        /\ WF_vars(TimedOut /\ UNCHANGED <<tcpAll, inUse>>)

-----------------------------------------------------------------------------
\* Every open descriptor has exactly one owner, which will close it, and an
\* object that has not closed its socket still has the socket it was made
\* for: the error paths of open, connect and accept, tcp_s_close before
\* tcp_s_destroy, the adopted listener and the free functions close each socket
\* exactly once; until an adopt has run out of memory.
SocketsOwned ==
  LET conns == {id \in Live : ~slots[id].closed}
  IN  ~adoptLost =>
      /\ \A fd \in Fds :
           CASE files[fd] = "tcp server"     -> fd \in {listener, callerFd}
             [] files[fd] = "tcp conn"       -> \E id \in conns : slots[id].fd = fd
             [] files[fd] = "tcp client"     -> fd \in ToClose(tcpClient)
             [] files[fd] = "udp server"     -> fd = server
             [] files[fd] = "udp client"     -> fd \in ToClose(client)
             [] files[fd] = "mcast sender"   -> fd \in ToClose(sender)
             [] files[fd] = "mcast receiver" -> fd \in ToClose(receiver)
             [] OTHER                        -> TRUE
      /\ Cardinality({fd \in Fds : files[fd] # Closed}) =
           Cardinality(conns)
           + Cardinality({listener, callerFd} \ {NoFd})
           + Cardinality({server} \ {NoFd})
           + Cardinality(UNION {ToClose(o) : o \in {tcpClient, client, sender, receiver}})

\* Said of zcio_tcp_server_adopt (net.h:61-62): after a failure the descriptor is
\* still the caller's, so what the caller takes for its own is the listening
\* socket it made.
CallerKeepsSocket == callerFd # NoFd => files[callerFd] = "tcp server"
=============================================================================
