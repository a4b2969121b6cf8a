-------------------------------- MODULE Mutex ---------------------------------
(* What a lock promises: one owner at a time, and only the owner lets go.   *)
CONSTANTS Threads, Locks, NoThread

VARIABLE owner

Init == owner = [l \in Locks |-> NoThread]

Acquire(t, l) == owner[l] = NoThread /\ owner' = [owner EXCEPT ![l] = t]

Release(t, l) == owner[l] = t /\ owner' = [owner EXCEPT ![l] = NoThread]

Next ==
  \E l \in Locks : /\ owner'[l] # owner[l]
                   /\ \E t \in Threads : Acquire(t, l) \/ Release(t, l)

Spec == Init /\ [][Next]_owner
===============================================================================
