\* The lifter ends when the program is written.
SPECIFICATION MCSpec
CONSTANTS
  Names <- MCNames
  Files <- MCFiles
  Span = 3
  PageSlots = 3
  Functions = {"f", "g"}
  Needed <- MCNeeded
  Engine = "engine"
  Steps <- MCSteps
  FrameLimit = 0
  HasThreads = TRUE
  Places = {1, 2}
  MaxFrames = 2
  MaxEvents = 3
  Blocks = 4
  Texts = {"x", "7"}
  Numerals = {"7"}
  MaxAllocs = 5
  MaxHeld = 1
  KeyOrder <- MCKeys
  Spaced = {"Last Login"}
  Values = {"v", "w"}
  MaxCalls = 3
  MaxCrashes = 2
  Fds = {1, 2}
  Ports = {80, 443}
  TlsPort = 443
  MaxConnects = 2
  TextSection <- MCText
  PltSection <- MCPlt
  RecoverMax = 2
  ImageBases <- MCBases
  ImageSpan = 11
  Programs <- MCPrograms
  SwitchStart = 4
  SwitchEnd = 8
  Adrs = {1, 4}
  TableImages <- MCTables
  TableShifts = {0, 1}
  Bytes = {0, 1}
  Loose = {0, 1}
  MaxInsns = 4
  SignBit = 4
  And <- MCAnd
  GuestThreads = {u1, u2}
SYMMETRY Symmetry
INVARIANT TailKept
CHECK_DEADLOCK FALSE
