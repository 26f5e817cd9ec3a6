SPECIFICATION Spec
CHECK_DEADLOCK FALSE
CONSTANTS
  Char <- MCChar
  Space = " "
  Commands <- MCCommands
  MaxLine = 3
  MaxHistory = 2
  MaxQuery = 1
  Paths <- MCPaths
  Pieces <- MCPieces
  MaxPieces = 2
  DiskChunks = 3
  FaultBound = 2
  RingWidth = 4
  CrashBound = 1
  RxBufCount = 2
  TxBufCount = 2
  RingSize = 4
  IdxWidth = 4
  NicBound = 4
  Frame <- MCFrame
  KindOf <- MCKindOf
  MaxUnits = 2
  NetFaultBound = 1
  ResendBound = 1
INVARIANTS
  DevicesTypeOK
  EchoFaithful
  SavedIsOnDisk
  FramesKept
  NeverAcksUnsent
  StreamIntact
PROPERTIES
  BootRestores
