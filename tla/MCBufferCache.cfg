SPECIFICATION MCSpec
CONSTANTS
  Users = {u1, u2}
  Flusher = Flusher
  NoThread = NoThread
  Sectors = {s1, s2, s3}
  NoSector = NoSector
  Values = {v0, v1}
  Zero = v0
  CACHE_SIZE = 2
  Worlds = {"kernel", "user"}
SYMMETRY CacheSymmetry
INVARIANTS
  KernelUniqueBlock
  KernelCopyLatest
  FlushComplete
  KernelNoDeadlock
  NoLeakedLock
CHECK_DEADLOCK FALSE
