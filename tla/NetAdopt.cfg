SPECIFICATION Spec
CONSTANTS
  Instances = {{"tcp server", "tcp client", "udp client"},
               {"tcp client", "udp client", "mcast", "udp server"},
               {"udp server", "receive"}}
  Fds = {3, 4, 5}
  MaxIds = 3
  FirstCap = 1
  Peers = {p1, p2}
  Sizes = {0, 1, 2}
  Timeouts = {0, 500, 2000}
  Windows = FALSE
INVARIANT
  CallerKeepsSocket
CHECK_DEADLOCK FALSE
