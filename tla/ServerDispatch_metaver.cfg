CONSTANTS
  i1 = i1  i2 = i2  i3 = i3  c1 = c1  c2 = c2  p1 = p1  p2 = p2
  NoConn = NoConn
  NoIocb = NoIocb
  Iocbs <- MC_Iocbs2
  Conns <- MC_Conns1
  Pollers <- MC_OnePoller
  PollerOf <- MC_PollerOf1
  Replicas <- MC_Replicas3
  RecvDepth = 1
  LocalRep = 0
  MetaVers = {1, 2}
  MaxReq = 1

SPECIFICATION DiskSpec
INVARIANT MetaVerIsMax
CHECK_DEADLOCK FALSE
