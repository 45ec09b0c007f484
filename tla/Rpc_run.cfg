SPECIFICATION Spec
CONSTANTS
  RpcStrings = {4085, 4086, 65526}
  RpcBuf = 4096  PongBuf = 65535  JsBuf = 4096  GoPayload = 65533
  PingAsks = {0, 4, 5, 65535}
  MaxParts = 3  MaxExtra = 2  MaxCalls = 2
  Clients = {"lnrpc", "go", "js"}
INVARIANTS TypeOK PrintedIsReply ExitTellsTruth PongsAnswer RepliesMatch
PROPERTIES RpcEnds RpcReturns
