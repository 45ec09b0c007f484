SPECIFICATION Spec
CONSTANTS
  m0 = m0  m1 = m1  m5 = m5  m6 = m6
  Tag = 1  LenSize = 1  RotateAt = 4
  MsgBufMem = 10  LenMod = 6
  Msg = {m0, m1, m5, m6}  NotMsg = NotMsg
  MsgLen <- ScaledLen
  PeerMsgs = {}  WriteMsgs = {m0, m1, m5}  SendMsgs = {}
  MaxPeerSends = 0  MaxWrites = 4
  Lost = {}
  Chunks = {}  Cuts <- SomeCuts
INVARIANTS NonceNeverReused PeerGotPrefix
PROPERTIES OutRefines
