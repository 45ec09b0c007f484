SPECIFICATION Spec
CONSTANTS
  m0 = m0  m1 = m1  m5 = m5  m6 = m6
  Tag = 1  LenSize = 1  RotateAt = 4
  MsgBufMem = 10  LenMod = 6
  Msg = {m0, m1, m5, m6}  NotMsg = NotMsg
  MsgLen <- ScaledLen
  PeerMsgs = {}  WriteMsgs = {m1}  SendMsgs = {m5}
  MaxPeerSends = 0  MaxWrites = 2
  Lost = {}
  Chunks = {1}  Cuts = {0, 3}
INVARIANTS PeerGotPrefix
