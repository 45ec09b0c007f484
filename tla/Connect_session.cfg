SPECIFICATION Spec
CONSTANTS
  Tag = 16  LenSize = 2  RotateAt = 1000
  NodeKey = NodeKey  OtherKey = OtherKey  OwnKey = OwnKey
  NoKey = NoKey  None = None
  MaxConns = 1  MaxWrites = 1
INVARIANTS WritesNeedSession
