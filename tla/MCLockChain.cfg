SPECIFICATION MCSpec
CONSTANTS
  NoThread = NoThread
  Threads = {t1, t2, t3, t4}
  Locks = {1, 2, 3}
  Priorities = {1, 2, 3, 4}
  MAX_DEPTH = 1
  Fourth = t4
  Worlds = {"calm"}
INVARIANT
  NoInversion
CHECK_DEADLOCK FALSE
