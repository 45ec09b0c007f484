SPECIFICATION Spec
CONSTANTS
  m0 = m0  m1 = m1  m5 = m5  m6 = m6
  Tag = 16  LenSize = 2  RotateAt = 1000
  MsgBufMem = 131072  LenMod = 65536
  Msg = {m0, m1, m5, m6}  NotMsg = NotMsg
  MsgLen <- RealLen
  PeerMsgs = {m0, m1, m5}  WriteMsgs = {m5}  SendMsgs = {m6}
  MaxPeerSends = 1  MaxWrites = 2
  Lost = {1, 65535}
  Chunks = {17}  Cuts = {0, 18}
INVARIANTS ReadLimit
  
