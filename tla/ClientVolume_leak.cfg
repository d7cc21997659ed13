CONSTANTS
  i1 = i1  i2 = i2  i3 = i3
  NoIocb = NoIocb
  MaxConns = 5
  MaxSegs = 3
  MaxSegLen = 2
  Iocbs <- MC_Iocbs
  IpSeq <- MC_TwoIps
  StrLen = 3
  MaxSubmit = 3
  MaxLoss = 1
  MaxSeq = 4
  MaxOpen = 2
  PostMayFail = FALSE
  LateReply = FALSE
  ReopenReplies = FALSE
  ReopenMayFail = FALSE
  Ops = {"READ", "WRITE"}

SPECIFICATION Spec
INVARIANT ReplyBdConserved
CHECK_DEADLOCK FALSE
