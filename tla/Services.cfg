\* Bounds stop a run, and threads may wait for the registry's lock.
SPECIFICATION MCSpec
CONSTANTS
  Pair = {u1, u2}
  Threads = {t1, t2}
  Words = {w1, w2}
  NoThread = NoThread
  NoWord = NoWord
  MaxId = 5
  Foreign = 4
  Size = 2
  Entries <- MCEntries
  FileStreams = {"s"}
  Paths = {"p", "q"}
  Transfers = {0, 3}
  SetBits = 4
  Hosts = {1, 2}
  Data = 1
  AssetHandles = {"h"}
  Dirs = {"d", "e"}
  OnDisk <- MCOnDisk
  AskedFor <- MCAskedFor
  FileLength = 3
  Names <- MCNames
  Began = 100
  Fakes <- MCFakes
  MaxNow = 2
  Times <- MCTimes
  kEarliest = 0
  kLatest = 5
  MaxText = 3
  Room = 3
  ArgRegs = 3
  VecRegs = 2
  NamedRegs = {1, 2}
  Conversions <- MCConversions
  MaxFormat = 4
  Caps = {1, 3}
  PieceSize = 3
  Attributes = {1, 2}
  Textures = {1, 2}
  Skipped = {2}
  CensusAfter = 1
  Dumped = 1
  MaxSaid = 1
  MaxDraws = 1
  MaxFrames = 2
  Lines = {"#version", "precision", "code", "wrong"}
  MaxLines = 3
  Programs <- MCPrograms
  Knobs <- MCKnobs
  Values = {"v"}
  Polls = 1
  MaxCalls = 2
  Memory = 4
  MaxDepth = 2
  Tables <- MCTables
  Chains <- MCChains
SYMMETRY Symmetry
INVARIANTS
  OneObjectPerWord
  FindsItsOwn
  FilesSound
  LeavesOnlyFailed
  StreamsSound
  SystemSound
  FetchesOwn
  DrawsAsSet
  MethodsSound
  ReportsSafely
PROPERTIES
  Binding
  TransfersEnd
CHECK_DEADLOCK FALSE
