SPECIFICATION Spec
CONSTANTS
  StructSize = 3  MsgbufMem = 4  ErrorMem = 8  ErrorText <- Texts  MaxNotes = 4
  Caps <- SomeCaps  Items <- SomeItems  Messages <- SomeMessages
  Foreign <- SomeBytes  MaxItems = 2  StrRoom = 2
  Block = 8  SizeField = 1  HashLen = 4  Jobs <- SomeJobs  MaxPieces = 3
INVARIANTS
  BacktraceTells RoundTrip BuiltWhenItFits Canonical
  CutsDoNotMatter HmacIsRfc2104 HkdfIsRfc5869
PROPERTIES ReadErrorIsTold
\* A computation and a message come to an end.
CHECK_DEADLOCK FALSE
