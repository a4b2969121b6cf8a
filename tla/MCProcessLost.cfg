SPECIFICATION MCSpec
CONSTANTS
  MaxTid = 4
  Statuses = {0}
  Worlds = {"preempted"}
INVARIANT
  NoStuckWait
CHECK_DEADLOCK FALSE
