SPECIFICATION MCSpec
CONSTANTS
  Users = {u1}
  Flusher = Flusher
  NoThread = NoThread
  Sectors = {s1, s2}
  NoSector = NoSector
  Values = {v0, v1}
  Zero = v0
  CACHE_SIZE = 3
  Worlds = {"any"}
INVARIANT
  ReadersSeeWrites
CHECK_DEADLOCK FALSE
