CONSTANTS
  Tasks = {t1, t2}
  NoTask = NoTask
  MaxHandle = 2
  Remotes = {r1}
  NoRemote = NoRemote
  BufLen = 1
  Socks = {s1, s2}
  NoSock = NoSock
  Addrs = {"any"}
  BoundPorts = {1}
  PORT_START = 1
  PORT_END = 1
  LISTEN_QUEUE_SIZE = 2
  Workloads <- MCWorkloads
SPECIFICATION FairSpec
INVARIANTS HandlesOwned SocketsBacked
 
CHECK_DEADLOCK FALSE
