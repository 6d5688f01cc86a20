CONSTANTS
  c1 = c1
  c2 = c2
  w1 = w1
  w2 = w2
  q1 = q1
  q2 = q2
  None = None
  Caller <- TwoCallers
  Worker <- TwoWorkers
  Query <- TwoQueries
  MaxPending = 2

  KeyThreads = {1}
  Slots = {1, 2}
  Generations = 4
  Passes = 2
  MaxBirths = 3

  DynamicPages = 8
  SegmentPages = 4
  GranulePages = 2
  SparseAlign = 4
  SegmentUnits = 2
  GranuleUnits = 1
  Units = 4
  InitialUnits = 2
  GrowUnits = 2
  ShrinkUnits = 2
  Quantum = 2
  Chunks = {0}
  AllocSizes = {1, 5}
  Aligns = {1}
  StackUnits = {1}
  Starters = {"s1", "s2"}
  MaxDynamic = 2
  Touched = {1}

  Users = {"u1", "u2"}
  Objects = {"mutex", "rwlock"}
  RwLocks = {"rwlock"}
  Hosts = {"h1", "h2", "h3"}
  NoHost = "none"

  SemThreads = {"x1", "x2", "x3"}
  Sems = {1, 2}
  MaxCount = 2

  Players = {1, 2}
  MAX_PLAYERS = 2
  BQ_SLOTS = 2
  MaxBuffers = 2
  DeviceIds = {1, 2}
  NoPlayer = 0

  Loopers = {1}
  LThreads = {11, 12}
  Fds = {21, 22}
  LSlots = {1, 2}
  MaxRegs = 2
  MaxWakes = 1
  MaxLives = 4
  MaxRefs = 2
  Nobody = Nobody

  Bases = {720, 1080}
  Requests = {0, 540}
  MaxGen = 5
  NoTxn = NoTxn

  Files = {"f1", "f2"}
  Bulk = {"f1"}
  SizeThreads = {"t1", "t2"}
  Records = {1}
  Threshold = 2
  Extent = 3
  MaxSize = 4
  Nothing = Nothing

  Versions = {1, 2, 3}

  EThreads = {1, 2}
  EFds = {1, 2}
  ESlots = {1}
  MaxObjects = 2
  MaxStamp = 3

  Blocks = {1, 2}
  Sizes = {1, 3, 4}
  PageBytes = 2
  LargeBytes = 3
  HeapBytes = 3
  PoolPages = 4
  ExtensionPages = 2
  MaxExtensions = 1

  MapThreads = {1, 2}
  MapFiles = {"f"}
  ArenaPlaces = {1}
  HeapPlaces = {2, 3}
  FallbackMax = 2
  CacheMax = 1
  SharedMax = 1
  MaxStores = 2

  AssetFiles = {"marker", "required", "other"}
  Marker = "marker"
  Required = {"marker", "required"}
  MetaFiles = {1, 2}
  Builds = {1, 2, 3}
  ClientOf <- ClientOfBuilds
  MaxPacks = 3

  PackThreads = {1, 2, 3}
  Numbers = {1, 2, 3}
  PackSlots = {1, 2}
  OpenFiles = {1, 2}
  EntrySize = 1
  LongMax = 1
  Indices = {1, 2, 3}
  EventCap = 2
  PendingCap = 3
  DrainPerFrame = 1
  MaxDepth = 2
  MaxSteps = 1
  Names = {"login_login", "login_logout", "login_init", "login_switch_role"}

  Libraries = {"a", "b", "c", "d", "x"}
  Needs <- BundledNeeds
  Imports <- BundledImports
  Pages <- BundledPages
  OnCard = {"a", "b", "c", "d"}
  Entries = {1, 2, 3}
  ArenaPages = 4
  MaxLoads = 4

  NetThreads = {1, 2}
  NetFds = {1, 2}
  Pollers = {1}
  MaxSockets = 2
  TlsInterval = 2
  BulkInterval = 1
  MinIdle = 1
  Retries = 1

  JniThreads = {1}
  Values = {1, 2}
  MaxLocals = 2
  MaxFrames = 2
  MaxGlobals = 1
  MaxQueue = 1

SPECIFICATION MCSpec
VIEW Moving
INVARIANTS
  JobsAccounted
  NoLostWakeup
  ArenaSound
  OneHostPerObject
  ValuesBelongToTheirKey
  SleeperIsMarked
  AudioSound
  LooperSound
  GeometrySettled
  SizesTrue
  SessionSound
  FramesSound
  EventsOfTheirFd
  QueuedDataIsSeen
  BlocksKept
  PluginsSound
  MappingsSound
  AssetsSound
  PackSound
  JniSound
