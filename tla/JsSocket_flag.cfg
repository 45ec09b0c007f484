SPECIFICATION Spec
CONSTANTS
  Tag = 1  LenSize = 1  RotateAt = 1000
  m1 = m1  m2 = m2  r1 = r1  r2 = r2
  Msg = {m1, m2}  NotMsg = NotMsg  MsgLen <- ShortLens
  ActTwoSize = 2  Caller = {r1, r2}  MaxConns = 2
  Setups <- OnlyReconnects
INVARIANTS NotConnectedIsTrue
