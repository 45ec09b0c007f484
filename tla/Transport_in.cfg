SPECIFICATION Spec
CONSTANTS
  m0 = m0  m1 = m1  m5 = m5  m6 = m6
  Tag = 1  LenSize = 1  RotateAt = 4
  MsgBufMem = 10  LenMod = 6
  Msg = {m0, m1, m5, m6}  NotMsg = NotMsg
  MsgLen <- ScaledLen
  PeerMsgs = {m0, m1, m5}  WriteMsgs = {}  SendMsgs = {}
  MaxPeerSends = 4  MaxWrites = 0
  Lost <- SomeLost
  Chunks <- SomeChunks  Cuts = {}
INVARIANTS TypeOK ClientGotPrefix FailureExplained
PROPERTIES InRefines ReadReturns
