CONSTANTS
  i1 = i1  i2 = i2  i3 = i3
  NoIocb = NoIocb
  MaxConns = 5
  MaxSegs = 3
  MaxSegLen = 2
  Iocbs <- MC_Iocbs
  IpSeq <- MC_TwoIps
  StrLen = 3
  MaxSubmit = 3
  MaxLoss = 0
  MaxSeq = 4
  MaxOpen = 2
  PostMayFail = FALSE
  LateReply = FALSE
  ReopenReplies = TRUE
  ReopenMayFail = TRUE
  Ops = {"READ", "WRITE"}

SPECIFICATION Spec
INVARIANT NoNullConn
CHECK_DEADLOCK FALSE
