------------------------------ MODULE Sockets ------------------------------
(***************************************************************************)
(* The process's descriptor table, which belongs to the operating system.  *)
(* socket() and accept() hand out the lowest free descriptor, so a         *)
(* descriptor that is closed twice takes a stranger's socket with it.      *)
(***************************************************************************)
EXTENDS Integers, FiniteSets

CONSTANT Fds                  \* descriptors

ASSUME SocketsAssumption == Fds \subseteq Nat /\ IsFiniteSet(Fds)

VARIABLE files                \* what the socket behind each descriptor was
                              \* opened for, Closed if the descriptor is free

Closed == "closed"
NoFd == -1                    \* ZCIO_INVALID_SOCKET

SocketsInit == files = [fd \in Fds |-> Closed]

LowestFree(fd) ==
  files[fd] = Closed /\ \A f \in Fds : f < fd => files[f] # Closed

\* socket() or accept(): `fd' is handed out for a socket that stays open.
OpenSocket(fd, what) ==
  LowestFree(fd) /\ files' = [files EXCEPT ![fd] = what]

\* A socket that the operation which opened it closes again on its error path.
OpenAndClose ==
  (\E fd \in Fds : LowestFree(fd)) /\ files' = files

CloseSockets(fds) ==
  files' = [fd \in Fds |-> IF fd \in fds THEN Closed ELSE files[fd]]

\* The context of a stream that owns a socket: its descriptor and the flag
\* that its close function sets.
Owner(fd) == [fd |-> fd, closed |-> FALSE]
NoOwner == [fd |-> NoFd, closed |-> FALSE]
ClosedOwner == [fd |-> NoFd, closed |-> TRUE]

\* The descriptor a destroy function still has to close.
ToClose(owner) == IF owner.closed THEN {} ELSE {owner.fd} \ {NoFd}
=============================================================================
