SPECIFICATION MCFairSpec
CONSTANTS
  Parts = {"sched"}
  HeapElems = {1, 2, 3, 4, 5}
  HeapKeys = {0, 1}
  NULL = NULL
  Threads = {t1, t2, t3, t4}
  t1 = t1
  t2 = t2
  t3 = t3
  t4 = t4
  NoThread = NoThread
  CondPriority <- TwoLevels
  SchedThreads = {main, b, c}
  main = main
  b = b
  c = c
  idle_thread = idle_thread
  Priorities = {1, 2}
  Default = 1
  TIME_SLICE = 2
  MaxSleep = 2
  MaxTick = 2
INVARIANT
  ImmediateYield
