\* The process may end by a trap in an initialiser, and threads may wait for each other's locks.
SPECIFICATION MCSpec
CONSTANTS
  Threads = {t1, t2, t3}
  Mutexes = {m1}
  Conds = {c1}
  NoThread = NoThread
  NoMutex = NoMutex
  NoCond = NoCond
  MaxId = 3
  MaxDepth = 2
  Foreign = 9
  LockThreads = {r1, r2}
  Locks = {l1, l2}
  NoLock = NoLock
  SemThreads = {p1, p2, p3, p4}
  Sems = {s1}
  NoSem = NoSem
  MaxCount = 3
  OnceThreads = {o1, o2, o3}
  Recovering = {o1}
  Controls = {1, 2}
SYMMETRY ThreadSymmetry
INVARIANTS
  MutualExclusion
  HostAgrees
  WriterExcludes
  NoStrandedWaiter
  OnceIsOnce
PROPERTIES
  NoLostWakeup
  Monitor
  PermitsReachWaiters
  OnlyTrapsStrand
CHECK_DEADLOCK FALSE
