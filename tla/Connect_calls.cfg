SPECIFICATION Spec
CONSTANTS
  Tag = 16  LenSize = 2  RotateAt = 4
  NodeKey = NodeKey  OtherKey = OtherKey  OwnKey = OwnKey
  NoKey = NoKey  None = None
  MaxConns = 2  MaxWrites = 3
INVARIANTS TypeOK SessionAgrees NoncesApartAcrossConnects TorDrained
PROPERTIES ConnectReturns
