---------------------------- MODULE SynchLockProofs ----------------------------
(***************************************************************************)
(* Locks exclude each other and implement Mutex, for any set of threads,   *)
(* locks and priorities and any schedule.                                  *)
(***************************************************************************)
EXTENDS SynchLock, FiniteSetTheorems, TLAPS

\* Nobody is in the middle of anything at the start.
THEOREM InitOwnerInv == Init => OwnerInv
<1> SUFFICES ASSUME Init PROVE OwnerInv
  OBVIOUS
<1>1. \A l \in Locks : Owners(l) = {}
  BY LockAssumption DEF Init, Owners, Owns, Free
<1> QED
  BY <1>1, LockAssumption DEF Init, OwnerInv, Free

\* The steps that move a thread between places of its code where it owns
\* nothing, and change neither holder nor value, keep OwnerInv.
LEMMA MoveKeeps ==
  ASSUME OwnerInv, UNCHANGED <<holder, value>>, NEW t \in Threads,
         DOMAIN pc' = Threads, \A u \in Threads \ {t} : pc'[u] = pc[u],
         DOMAIN pc'[t] = DOMAIN Free,
         pc[t].at \notin {"own", "up"}, pc'[t].at \notin {"own", "up"},
         pc'[t].at \in {"donate", "store", "climb", "down"} => pc'[t].lock \in Locks
  PROVE  OwnerInv'
<1>1. \A l \in Locks : Owners(l)' = Owners(l)
  BY DEF Owners, Owns
<1>2. \A u \in Threads : DOMAIN pc'[u] = DOMAIN Free
  BY DEF OwnerInv
<1>3. \A u \in Threads :
        /\ pc'[u].at \in {"donate", "store", "climb", "down", "own", "up"} => pc'[u].lock \in Locks
        /\ pc'[u].at \in {"own", "up"} => holder'[pc'[u].lock] = NoThread
  BY DEF OwnerInv
<1> QED
  BY <1>1, <1>2, <1>3 DEF OwnerInv

\* Changing one field of pc[t].
LEMMA GotoShape ==
  ASSUME OwnerInv, NEW t \in Threads, NEW a, Goto(t, a)
  PROVE  /\ DOMAIN pc' = Threads
         /\ \A u \in Threads \ {t} : pc'[u] = pc[u]
         /\ DOMAIN pc'[t] = DOMAIN Free
         /\ pc'[t].at = a /\ pc'[t].lock = pc[t].lock /\ pc'[t].try = pc[t].try
  BY DEF OwnerInv, Goto, Free

\* sema_down and sema_try_down on a semaphore that is up make t the owner.
LEMMA TakeKeeps ==
  ASSUME OwnerInv, NEW t \in Threads, pc[t].at = "down",
         value[pc[t].lock] > 0, value' = [value EXCEPT ![pc[t].lock] = @ - 1],
         Goto(t, "own"), UNCHANGED holder
  PROVE  /\ OwnerInv'
         /\ \E l \in Locks : /\ Owners(l) = {} /\ Owners(l)' = {t}
                            /\ \A m \in Locks \ {l} : Owners(m)' = Owners(m)
<1>1. PICK l \in Locks : l = pc[t].lock
  BY DEF OwnerInv
<1>2. value[l] = 1
  BY <1>1 DEF OwnerInv
<1>3. /\ value' \in [Locks -> {0, 1}] /\ value'[l] = 0
      /\ \A m \in Locks \ {l} : value'[m] = value[m]
  BY <1>1, <1>2 DEF OwnerInv
<1>4. /\ DOMAIN pc' = Threads
      /\ \A u \in Threads \ {t} : pc'[u] = pc[u]
      /\ DOMAIN pc'[t] = DOMAIN Free
      /\ pc'[t].at = "own" /\ pc'[t].lock = l
  BY <1>1, GotoShape
<1>5. Owners(l) = {}
  BY <1>1, <1>2 DEF OwnerInv
<1>6. holder[l] = NoThread
  <2>1. holder[l] \notin Threads
    BY <1>5 DEF Owners, Owns
  <2> QED
    BY <2>1, <1>1 DEF OwnerInv
<1>7. Owners(l)' = {t}
  BY <1>4, <1>5, <1>6, LockAssumption DEF Owners, Owns
<1>8. \A m \in Locks \ {l} : Owners(m)' = Owners(m)
  BY <1>1, <1>4 DEF Owners, Owns
<1>9. \A u \in Threads :
        /\ DOMAIN pc'[u] = DOMAIN Free
        /\ pc'[u].at \in {"donate", "store", "climb", "down", "own", "up"} => pc'[u].lock \in Locks
        /\ pc'[u].at \in {"own", "up"} => holder'[pc'[u].lock] = NoThread
  BY <1>1, <1>4, <1>6 DEF OwnerInv
<1>10. \A m \in Locks : /\ value'[m] = 1 => Owners(m)' = {}
                        /\ value'[m] = 0 => \E u \in Threads : Owners(m)' = {u}
  BY <1>3, <1>7, <1>8 DEF OwnerInv
<1>11. OwnerInv'
  BY <1>3, <1>4, <1>9, <1>10 DEF OwnerInv
<1> QED
  BY <1>5, <1>7, <1>8, <1>11

\* BecomeHolder moves the ownership from pc to holder.
LEMMA BecomeKeeps ==
  ASSUME OwnerInv, NEW t \in Threads, BecomeHolder(t)
  PROVE  OwnerInv' /\ \A m \in Locks : Owners(m)' = Owners(m)
<1>0. PICK l \in Locks : l = pc[t].lock
  BY DEF OwnerInv, BecomeHolder, At
<1>1. /\ pc[t].at = "own" /\ l = pc[t].lock /\ value' = value
      /\ holder' = [holder EXCEPT ![l] = t]
      /\ pc' = [pc EXCEPT ![t] = Free]
  BY <1>0 DEF BecomeHolder, At
<1>2. PICK u \in Threads : Owners(l) = {u}
  <2>1. t \in Owners(l)
    BY <1>1 DEF Owners, Owns
  <2>2. value[l] = 0
    BY <1>1, <2>1 DEF OwnerInv
  <2> QED
    BY <1>1, <2>2 DEF OwnerInv
<1>3. Owners(l) = {t}
  BY <1>1, <1>2 DEF Owners, Owns
<1>4. /\ holder' \in [Locks -> Threads \cup {NoThread}] /\ holder'[l] = t
      /\ \A m \in Locks \ {l} : holder'[m] = holder[m]
  BY <1>1 DEF OwnerInv
<1>5. /\ DOMAIN pc' = Threads /\ pc'[t] = Free
      /\ \A w \in Threads \ {t} : pc'[w] = pc[w]
  BY <1>1 DEF OwnerInv
<1>6. pc'[t].at = "free"
  BY <1>5 DEF Free
<1>7. Owners(l)' = {t}
  BY <1>1, <1>3, <1>4, <1>5, <1>6 DEF Owners, Owns
<1>8. \A m \in Locks \ {l} : Owners(m)' = Owners(m)
  BY <1>1, <1>4, <1>5, <1>6 DEF Owners, Owns
<1>9. \A w \in Threads :
        /\ DOMAIN pc'[w] = DOMAIN Free
        /\ pc'[w].at \in {"donate", "store", "climb", "down", "own", "up"} => pc'[w].lock \in Locks
  BY <1>5, <1>6 DEF OwnerInv
<1>10. ASSUME NEW w \in Threads, pc'[w].at \in {"own", "up"}
       PROVE  holder'[pc'[w].lock] = NoThread
  <2>1. w # t /\ pc'[w] = pc[w]
    BY <1>10, <1>5, <1>6
  <2>2. pc[w].lock # l
    BY <2>1, <1>10, <1>3 DEF Owners, Owns
  <2> QED
    BY <2>1, <2>2, <1>10, <1>4 DEF OwnerInv
<1>11. \A m \in Locks : Owners(m)' = Owners(m)
  BY <1>3, <1>7, <1>8
<1> QED
  BY <1>1, <1>4, <1>5, <1>9, <1>10, <1>11 DEF OwnerInv

\* lock_release moves it back from holder to pc.
LEMMA ReleaseKeeps ==
  ASSUME OwnerInv, NEW t \in Threads, NEW l \in Locks, lock_release(t, l)
  PROVE  OwnerInv' /\ \A m \in Locks : Owners(m)' = Owners(m)
<1>1. /\ pc[t].at = "free" /\ holder[l] = t /\ value' = value
      /\ holder' = [holder EXCEPT ![l] = NoThread]
      /\ pc' = [pc EXCEPT ![t] = [Free EXCEPT !.at = "up", !.lock = l]]
  BY DEF lock_release, At
<1>2. Owners(l) = {t}
  <2>1. t \in Owners(l)
    BY <1>1 DEF Owners, Owns
  <2>2. value[l] = 0
    BY <2>1 DEF OwnerInv
  <2> QED
    BY <2>1, <2>2 DEF OwnerInv
<1>4. /\ holder' \in [Locks -> Threads \cup {NoThread}] /\ holder'[l] = NoThread
      /\ \A m \in Locks \ {l} : holder'[m] = holder[m]
  BY <1>1 DEF OwnerInv
<1>5. /\ DOMAIN pc' = Threads /\ DOMAIN pc'[t] = DOMAIN Free
      /\ pc'[t].at = "up" /\ pc'[t].lock = l
      /\ \A w \in Threads \ {t} : pc'[w] = pc[w]
  BY <1>1 DEF OwnerInv, Free
<1>7. Owners(l)' = {t}
  BY <1>1, <1>2, <1>4, <1>5, LockAssumption DEF Owners, Owns
<1>8. \A m \in Locks \ {l} : Owners(m)' = Owners(m)
  BY <1>1, <1>4, <1>5 DEF Owners, Owns
<1>9. \A w \in Threads :
        /\ DOMAIN pc'[w] = DOMAIN Free
        /\ pc'[w].at \in {"donate", "store", "climb", "down", "own", "up"} => pc'[w].lock \in Locks
        /\ pc'[w].at \in {"own", "up"} => holder'[pc'[w].lock] = NoThread
  BY <1>4, <1>5 DEF OwnerInv
<1>11. \A m \in Locks : Owners(m)' = Owners(m)
  BY <1>2, <1>7, <1>8
<1> QED
  BY <1>1, <1>4, <1>5, <1>9, <1>11 DEF OwnerInv

\* sema_up ends the ownership.
LEMMA UpKeeps ==
  ASSUME OwnerInv, NEW t \in Threads, sema_up(t)
  PROVE  /\ OwnerInv'
         /\ pc[t].lock \in Locks
         /\ Owners(pc[t].lock) = {t}
         /\ \A m \in Locks : m = pc[t].lock => Owners(m)' = {}
         /\ \A m \in Locks : m # pc[t].lock => Owners(m)' = Owners(m)
<1>0. PICK l \in Locks : l = pc[t].lock
  BY DEF OwnerInv, sema_up, At
<1>1. /\ pc[t].at = "up" /\ l = pc[t].lock /\ holder' = holder
      /\ value' = [value EXCEPT ![l] = @ + 1]
      /\ pc' = [pc EXCEPT ![t] = Free]
  BY <1>0 DEF sema_up, At
<1>2. value[l] = 0 /\ Owners(l) = {t}
  <2>1. t \in Owners(l)
    BY <1>1 DEF Owners, Owns
  <2>2. value[l] = 0
    BY <2>1 DEF OwnerInv
  <2> QED
    BY <2>1, <2>2 DEF OwnerInv
<1>3. holder[l] = NoThread
  BY <1>1 DEF OwnerInv
<1>4. /\ value' \in [Locks -> {0, 1}] /\ value'[l] = 1
      /\ \A m \in Locks \ {l} : value'[m] = value[m]
  BY <1>1, <1>2 DEF OwnerInv
<1>5. /\ DOMAIN pc' = Threads /\ pc'[t] = Free
      /\ \A w \in Threads \ {t} : pc'[w] = pc[w]
  BY <1>1 DEF OwnerInv
<1>6. pc'[t].at = "free"
  BY <1>5 DEF Free
<1>7. Owners(l)' = {}
  BY <1>1, <1>2, <1>3, <1>5, <1>6, LockAssumption DEF Owners, Owns
<1>8. \A m \in Locks \ {l} : Owners(m)' = Owners(m)
  BY <1>1, <1>5, <1>6 DEF Owners, Owns
<1>9. \A w \in Threads :
        /\ DOMAIN pc'[w] = DOMAIN Free
        /\ pc'[w].at \in {"donate", "store", "climb", "down", "own", "up"} => pc'[w].lock \in Locks
        /\ pc'[w].at \in {"own", "up"} => holder'[pc'[w].lock] = NoThread
  BY <1>1, <1>5, <1>6 DEF OwnerInv
<1>10. \A m \in Locks : /\ value'[m] = 1 => Owners(m)' = {}
                        /\ value'[m] = 0 => \E u \in Threads : Owners(m)' = {u}
  BY <1>4, <1>7, <1>8 DEF OwnerInv
<1>11. OwnerInv'
  BY <1>1, <1>4, <1>5, <1>9, <1>10 DEF OwnerInv
<1> QED
  BY <1>0, <1>2, <1>7, <1>8, <1>11

\* A step of a lock operation that leaves holder and value alone and does not
\* enter or leave a place of ownership.
LEMMA QuietStep ==
  ASSUME OwnerInv, NEW t \in Threads,
         \/ \E l \in Locks, b \in BOOLEAN : Request(t, l, b)
         \/ donate_up(t) \/ StoreDonation(t) \/ Climb(t) \/ Sleep(t) \/ thread_unblock(t)
  PROVE  OwnerInv' /\ \A m \in Locks : Owners(m)' = Owners(m)
<1>1. /\ UNCHANGED <<holder, value>>
      /\ DOMAIN pc' = Threads /\ \A u \in Threads \ {t} : pc'[u] = pc[u]
      /\ DOMAIN pc'[t] = DOMAIN Free
      /\ pc[t].at \notin {"own", "up"} /\ pc'[t].at \notin {"own", "up"}
      /\ pc'[t].at \in {"donate", "store", "climb", "down"} => pc'[t].lock \in Locks
  <2>1. CASE \E l \in Locks, b \in BOOLEAN : Request(t, l, b)
    <3>1. PICK l \in Locks, b \in BOOLEAN : Request(t, l, b)
      BY <2>1
    <3>2. PICK r : r = [Free EXCEPT !.at = "donate", !.lock = l, !.try = b, !.node = t]
      OBVIOUS
    <3>3. DOMAIN r = DOMAIN Free /\ r.at = "donate" /\ r.lock = l
      BY <3>2 DEF Free
    <3>4. UNCHANGED <<holder, value>> /\ pc[t].at = "free" /\ pc' = [pc EXCEPT ![t] = r]
      BY <3>1, <3>2, Zenon DEF Request, At
    <3> QED
      BY <3>3, <3>4 DEF OwnerInv
  <2>2. CASE donate_up(t)
    <3>1. CASE Arrive(t)
      BY <2>2, <3>1 DEF donate_up, At, OwnerInv, Free, Arrive
    <3>2. CASE ~Arrive(t)
      BY <2>2, <3>2 DEF donate_up, At, OwnerInv, Free
    <3> QED
      BY <3>1, <3>2
  <2>3. CASE StoreDonation(t)
    BY <2>3 DEF StoreDonation, At, OwnerInv, Free
  <2>6. CASE Climb(t)
    BY <2>6 DEF Climb, At, OwnerInv, Free
  <2>4. CASE Sleep(t)
    BY <2>4, GotoShape DEF Sleep, At
  <2>5. CASE thread_unblock(t)
    BY <2>5, GotoShape DEF thread_unblock
  <2> QED
    BY <2>1, <2>2, <2>3, <2>4, <2>5, <2>6
<1>2. OwnerInv'
  BY <1>1, MoveKeeps
<1>3. \A m \in Locks : Owners(m)' = Owners(m)
  BY <1>1 DEF Owners, Owns
<1> QED
  BY <1>2, <1>3

\* The steps that change neither pc nor holder nor value.
LEMMA StillStep ==
  ASSUME OwnerInv, UNCHANGED <<pc, holder, value>>
  PROVE  OwnerInv' /\ \A m \in Locks : Owners(m)' = Owners(m)
<1>1. \A m \in Locks : Owners(m)' = Owners(m)
  BY DEF Owners, Owns
<1> QED
  BY <1>1 DEF OwnerInv

Same == \A m \in Locks : Owners(m)' = Owners(m)
Taken(t) ==
  \E l \in Locks : /\ Owners(l) = {} /\ Owners(l)' = {t}
                   /\ \A m \in Locks \ {l} : Owners(m)' = Owners(m)
Dropped(t) ==
  \E l \in Locks : /\ Owners(l) = {t} /\ Owners(l)' = {}
                   /\ \A m \in Locks \ {l} : Owners(m)' = Owners(m)

\* Every step of the lock code and of the scheduler keeps OwnerInv, and gives a
\* free lock to one thread, frees the lock of its owner, or moves no ownership.
THEOREM StepOwnerInv ==
  ASSUME OwnerInv, [Next]_vars
  PROVE  OwnerInv' /\ (Same \/ \E t \in Threads : Taken(t) \/ Dropped(t))
<1>1. ASSUME NEW t \in Threads, sema_down(t) \/ sema_try_down(t)
      PROVE  OwnerInv' /\ (Same \/ Taken(t))
  <2>1. CASE value[pc[t].lock] > 0
    <3>1. /\ pc[t].at = "down" /\ UNCHANGED holder /\ Goto(t, "own")
          /\ value' = [value EXCEPT ![pc[t].lock] = @ - 1]
      BY <1>1, <2>1 DEF sema_down, sema_try_down, At
    <3> QED
      BY <3>1, <2>1, TakeKeeps, Zenon DEF Taken
  <2>2. CASE ~(value[pc[t].lock] > 0) /\ sema_down(t)
    BY <2>2, StillStep DEF sema_down, Same
  <2>3. CASE ~(value[pc[t].lock] > 0) /\ sema_try_down(t)
    <3>1. /\ UNCHANGED <<holder, value>> /\ pc[t].at = "down"
          /\ pc' = [pc EXCEPT ![t] = Free]
      BY <2>3 DEF sema_try_down, At
    <3>2. /\ DOMAIN pc' = Threads /\ \A u \in Threads \ {t} : pc'[u] = pc[u]
          /\ pc'[t] = Free
      BY <3>1 DEF OwnerInv
    <3>3. pc'[t].at = "free"
      BY <3>2 DEF Free
    <3>4. OwnerInv'
      BY <3>1, <3>2, <3>3, MoveKeeps
    <3>5. Same
      BY <3>1, <3>2, <3>3 DEF Same, Owners, Owns
    <3> QED
      BY <3>4, <3>5
  <2> QED
    BY <1>1, <2>1, <2>2, <2>3
<1>2. ASSUME NEW t \in Threads, sema_up(t)
      PROVE  OwnerInv' /\ Dropped(t)
  BY <1>2, UpKeeps DEF Dropped
<1>3. ASSUME NEW t \in Threads, BecomeHolder(t)
      PROVE  OwnerInv' /\ Same
  BY <1>3, BecomeKeeps DEF Same
<1>4. ASSUME NEW t \in Threads, NEW l \in Locks, lock_release(t, l)
      PROVE  OwnerInv' /\ Same
  BY <1>4, ReleaseKeeps DEF Same
<1>5. ASSUME NEW t \in Threads,
             \/ \E l \in Locks, b \in BOOLEAN : Request(t, l, b)
             \/ donate_up(t) \/ StoreDonation(t) \/ Climb(t) \/ Sleep(t) \/ thread_unblock(t)
      PROVE  OwnerInv' /\ Same
  BY <1>5, QuietStep DEF Same
<1>6. ASSUME UNCHANGED <<pc, holder, value>>
      PROVE  OwnerInv' /\ Same
  BY <1>6, StillStep DEF Same
<1>7. CASE Next
  BY <1>1, <1>2, <1>3, <1>4, <1>5, <1>6, <1>7, Zenon
  DEF Next, Tick, thread_set_priority, lock_acquire, lock_try_acquire
<1>8. CASE UNCHANGED vars
  BY <1>6, <1>8 DEF vars
<1> QED
  BY <1>7, <1>8

\* OwnerInv always holds.
THEOREM OwnerInvariance == Spec => []OwnerInv
<1>1. OwnerInv /\ [Next]_vars => OwnerInv'
  BY StepOwnerInv
<1> QED
  BY InitOwnerInv, <1>1, PTL DEF Spec

\* At most one thread is between sema_down and sema_up of a lock, and the
\* semaphore is down exactly then.
THEOREM LockExcludes == Spec => []LockExclusion
<1>1. OwnerInv => LockExclusion
  <2> SUFFICES ASSUME OwnerInv, NEW l \in Locks
               PROVE  Cardinality(Owners(l)) = 1 - value[l]
    BY DEF LockExclusion
  <2>1. CASE value[l] = 1
    <3>1. Owners(l) = {}
      BY <2>1 DEF OwnerInv
    <3>2. Cardinality(Owners(l)) = 0
      BY <3>1, FS_EmptySet
    <3> QED
      BY <3>2, <2>1
  <2>2. CASE value[l] = 0
    <3>1. PICK t \in Threads : Owners(l) = {t}
      BY <2>2 DEF OwnerInv
    <3>2. Cardinality(Owners(l)) = 1
      BY <3>1, FS_Singleton, Zenon
    <3> QED
      BY <3>2, <2>2
  <2> QED
    BY <2>1, <2>2 DEF OwnerInv
<1> QED
  BY <1>1, OwnerInvariance, PTL

\* Locks, with their semaphores, donation and preemption, implement Mutex.
THEOREM LockRefinesMutex == Spec => MutexSpec
<1> DEFINE owner == [l \in Locks |-> OwnerOf(l)]
<1>1. Init => AbsMutex!Init
  <2> SUFFICES ASSUME Init PROVE owner = [l \in Locks |-> NoThread]
    BY DEF AbsMutex!Init
  <2>1. \A l \in Locks : Owners(l) = {}
    BY LockAssumption DEF Init, Owners, Owns, Free
  <2> QED
    BY <2>1 DEF OwnerOf, Owners
<1>2. ASSUME OwnerInv, [Next]_vars
      PROVE  [AbsMutex!Next]_owner
  <2>1. ASSUME NEW l \in Locks, Owners(l)' = Owners(l)
        PROVE  OwnerOf(l)' = OwnerOf(l)
    BY <2>1 DEF OwnerOf, Owners
  <2>2. ASSUME NEW l \in Locks, NEW t \in Threads, Owners(l) = {t}
        PROVE  OwnerOf(l) = t
    BY <2>2 DEF OwnerOf, Owners
  <2>3. ASSUME NEW l \in Locks, NEW t \in Threads, Owners(l)' = {t}
        PROVE  OwnerOf(l)' = t
    BY <2>3 DEF OwnerOf, Owners
  <2>4. CASE Same
    <3>1. owner' = owner
      BY <2>1, <2>4 DEF Same
    <3> QED
      BY <3>1
  <2>5. ASSUME NEW t \in Threads, Taken(t) PROVE AbsMutex!Next
    <3>1. PICK l \in Locks : /\ Owners(l) = {} /\ Owners(l)' = {t}
                             /\ \A m \in Locks \ {l} : Owners(m)' = Owners(m)
      BY <2>5 DEF Taken
    <3>2. OwnerOf(l) = NoThread /\ OwnerOf(l)' = t
      BY <3>1, <2>3 DEF OwnerOf, Owners
    <3>3. \A m \in Locks \ {l} : OwnerOf(m)' = OwnerOf(m)
      BY <3>1, <2>1
    <3>4. owner[l] = NoThread /\ owner' = [owner EXCEPT ![l] = t]
      BY <3>2, <3>3, Zenon
    <3>5. owner'[l] # owner[l]
      BY <3>2, LockAssumption
    <3> QED
      BY <3>4, <3>5, Zenon DEF AbsMutex!Next, AbsMutex!Acquire
  <2>6. ASSUME NEW t \in Threads, Dropped(t) PROVE AbsMutex!Next
    <3>1. PICK l \in Locks : /\ Owners(l) = {t} /\ Owners(l)' = {}
                             /\ \A m \in Locks \ {l} : Owners(m)' = Owners(m)
      BY <2>6 DEF Dropped
    <3>2. OwnerOf(l) = t /\ OwnerOf(l)' = NoThread
      BY <3>1, <2>2 DEF OwnerOf, Owners
    <3>3. \A m \in Locks \ {l} : OwnerOf(m)' = OwnerOf(m)
      BY <3>1, <2>1
    <3>4. owner[l] = t /\ owner' = [owner EXCEPT ![l] = NoThread]
      BY <3>2, <3>3, Zenon
    <3>5. owner'[l] # owner[l]
      BY <3>2, LockAssumption
    <3> QED
      BY <3>4, <3>5, Zenon DEF AbsMutex!Next, AbsMutex!Release
  <2> QED
    BY <1>2, StepOwnerInv, <2>4, <2>5, <2>6
<1> QED
  BY <1>1, <1>2, OwnerInvariance, PTL DEF Spec, MutexSpec, AbsMutex!Spec
===============================================================================
