\* A thread may end in abort(), and a census probe of a full table never ends.
SPECIFICATION MCSpec
CONSTANTS
  Threads = {t1, t2, t3}
  Modulus = 3
  Buffers = {b1, b2, b3}
  JmpSlots = 2
  Heap = {h1, h2}
  MaxDepth = 4
  MaxSp = 4
  NoBuf = NoBuf
  Boot = Boot
  None = None
  Registrars = {r1}
  Dispatchers = {d1, d2}
  HostFunctions = {f1, f2, f3}
  TableMax <- MCTableMax
  Null = Null
  GuestFunctions = {1, 2, 3, 4, 5, 6}
  CensusSlots = 4
  CensusHash <- MCHash
  Marker = 2
  MaxCalls = 7
SYMMETRY Symmetry
PROPERTY JumpRestores
CHECK_DEADLOCK FALSE
