SPECIFICATION MCSpec
CONSTANTS
  NoThread = NoThread
  Threads = {t1, t2, t3, t4}
  Locks = {1, 2, 3}
  Priorities = {1, 2, 3, 4}
  MAX_DEPTH = 1
  Fourth = t4
  Worlds = {"crowd", "pair", "hop", "calm", "single", "chain"}
SYMMETRY LockSymmetry
INVARIANTS
  OnePlace
  LockExclusion
  NoLostWakeup
  SingleNoInversion
  CalmDonations
PROPERTY
  MutexSpec
CHECK_DEADLOCK FALSE
