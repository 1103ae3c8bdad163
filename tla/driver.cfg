CONSTANTS
  CmdType = {0, 2}
  SentinelType = 204
  CmdLens = {1, 2}
  SetReplyLen = 1
  MaxOps = 3
  BufSize = 3
  CursorMod = 16
  MaxStream = 9
  HostMayStall = TRUE
  HostMayReject = TRUE
SPECIFICATION FairSpec
INVARIANTS
  DriverInv
  FreshReply
  AcceptedMeansExecuted
  RefusalHasCause
  WindowQuiet
PROPERTIES
  OperationEnds
CHECK_DEADLOCK FALSE
