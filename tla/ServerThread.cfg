\* server_thread: four clients, thresholds scaled so that every branch of
\* the preliminary verification and of the compaction is reached.
SPECIFICATION Spec
CONSTANTS
  k1 = k1  k2 = k2  k3 = k3  k4 = k4
  Conns <- MCConns
  NoFd = NoFd
  PendingLimit = 1
  HardDiv = 2
  BackMin = 1
INVARIANTS TypeOK SocketsAccounted
SYMMETRY ConnSymmetry
