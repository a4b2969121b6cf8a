SPECIFICATION SerialSpec
CONSTANTS
  SectorCount = 14
  BLOCK_SECTOR_SIZE = 2
  DIRECT = 1
  PER_BLOCK = 2
  MaxOpen = 2
  MaxLength = 16
  MaxInodes = 2
  Procs = {p1, p2}
  Names = {x, y}
  DirSectors = 4
  MaxEntries = 2
  MaxLost = 1
  MaxRootOpen = 2
  Parts = {"directory"}
INVARIANT
  CwdNotRemoved
CHECK_DEADLOCK FALSE
