CONSTANTS
  i1 = i1  i2 = i2  i3 = i3  c1 = c1  c2 = c2  p1 = p1  p2 = p2
  NoConn = NoConn
  NoIocb = NoIocb
  Iocbs <- MC_Iocbs2
  Conns <- MC_Conns
  Pollers <- MC_TwoPollers
  PollerOf <- MC_PollerOf2
  Replicas <- MC_Replicas
  RecvDepth = 1
  LocalRep = 0
  MetaVers = {1}
  MaxReq = 2

SPECIFICATION DiskSpec
INVARIANT AllocatedHasConn
CHECK_DEADLOCK FALSE
