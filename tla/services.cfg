SPECIFICATION Spec
CHECK_DEADLOCK FALSE
CONSTANTS
  Modules = {"m"}
  NumBoxes = 2
  DemoBoxes = {1, 2}
  MaxPid = 3
  CpuMargin = 1
  Watched = {10, 12}
  MaxWatched = 12
  TrustOf <- MCTrustOf
  Bursts <- MCBursts
  MaxBursts = 3
  ScanGap = 60
  MaxScans = 4
  EdgeNodes = {1, 2}
  ProfileOf <- MCProfileOf
  StateOf <- MCStateOf
  Kinds = {"Compute", "Compression", "QuantumOffload"}
  MaxTasks = 2
  Rounds = {1, 2, 4, 6, 21}
  Nodes = {"n1", "n2"}
  Simulated = {"phone"}
  Payloads = {"x"}
  MaxSends = 1
  LossBound = 1
  CaptureInterval = 2
  HistoryBound = 2
  FarTick = 3
  Heaps = {50, 72, 90}
  MonitorTicks = {0, 1, 2, 3}
  MaxAlerts = 3
  Interval = 1
  Cooldown <- MCCooldown
  Period = 2
  PresetSeen = 0
  EarnedAt = 2
  LogBound = 3
  ToastLife = 2
  BootCycles = 1
  MaxTick = 3
  Remote = {"phone"}
  SignedPaths = {"doc"}
  Contents = {"x", "y"}
  MaxSessions = 1
  MaxHandoffs = 2
  MaxWritten = 3
  MaxClock = 2
  Readings <- MCReadings
  RingSize = 4
  WindowSize = 3
  MaxSuggestions = 2
  SuggestEvery = 2
  MaxCycles = 5
  Files <- MCFiles
  SymbolNames = {"init", "table", "print", "count", "lost", "exit", "local"}
  KernelExports <- MCKernelExports
  Bases = {100, 2000}
  Word32 = 512
  WasmModules <- MCWasmModules
  CallArguments <- MCArguments
  MaxInstructions = 40
  MaxCallDepth = 4
  PageSize = 8
  MaxPages = 3
  Radix = 4
  MaxCalls = 2
  ScreenWidth = 3
  ScreenHeight = 3
  BarHeight = 1
  SurfaceBoxes <- MCSurfaceBoxes
  Moves <- MCMoves
  LayerSpan = 10
  EventLimit = 2
  EventsDropped = 1
  FrameTicks = 2
  MaxOperations = 4
  MaxFrameTick = 3
  Circuits <- MCCircuits
  Backends = {"local", "ibm"}
  MaxQubits = 3
  Resolution = 4
  MaxJobs = 2
  Origins = {"a", "b"}
  GossipVersions = {1, 2}
  MaxHops = 1
  SeenLimit = 2
  SeenDrained = 1
  HeartbeatEvery = 2
  MaxGossipTick = 2
  MaxMessages = 4
  RouteOffers <- MCRouteOffers
  ChannelPeers = {"p", "q"}
  BootPeers = {"p"}
  Texts = {"hello", "empty"}
  CounterWord = 3
  SendsPerTick = 2
  MaxChannelTick = 1
  Paths = {"doc"}
  Permissions = {"network", "camera"}
  WriteLengths = {1, 3}
  WriteCap = 2
  MaxProcesses = 3
  MaxAnswers = 3
INVARIANTS
  EvolutionTrue
  ServicesTypeOK
  
  KillOnce
  QuarantineKnown
  SettledOnce
  OnlyRealPeers
  EnginesTrue
  CloudTrue
  ProgramsTrue
  TrailConnected
PROPERTIES
  NoDoubleJeopardy
  EveryTaskSettles
  PeersLive
