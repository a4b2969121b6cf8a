------------------------------ MODULE MCThreads -------------------------------
(***************************************************************************)
(* Instances of RWLock, Scheduler, CondVar and PairingHeap: part says      *)
(* which of them a behaviour is of, and the others stay as they are.       *)
(***************************************************************************)
EXTENDS RWLock, TLC

CONSTANTS Parts, t1, t2, t3, t4,
          CondPriority, HeapElems, HeapKeys, NULL,
          SchedThreads, main, b, c, idle_thread, Priorities, Default, TIME_SLICE, MaxSleep, MaxTick

VARIABLES part, running, ready_list, status, priority, thread_ticks, ticks, sleep_que,
          start, length, creating, halted, lag,
          top, size, child, sibling, key, members,
          owner, cond_waiters, value, cond_pc, target, panic

\* idle_thread is not one of the threads that are created, block and exit.
ASSUME SchedAssumption ==
  /\ IsFiniteSet(SchedThreads) /\ main \in SchedThreads /\ idle_thread \notin SchedThreads
  /\ Priorities \subseteq Nat /\ Default \in Priorities
  /\ TIME_SLICE \in Nat \ {0} /\ MaxSleep \in Nat /\ MaxTick \in Nat

Sched == INSTANCE Scheduler WITH Threads <- SchedThreads

\* The effective priorities of threads that wait for a condition.
ASSUME CondAssumption == CondPriority \in [Threads -> Nat]

Cond == INSTANCE CondVar WITH Priority <- CondPriority, waiters <- cond_waiters, pc <- cond_pc

Heap == INSTANCE PairingHeap WITH Elems <- HeapElems, Keys <- HeapKeys

\* One thread above the others.
TwoLevels == [t \in Threads |-> IF t = t1 THEN 2 ELSE 1]

cond_vars == <<owner, cond_waiters, value, cond_pc, target, panic>>
sched_vars == <<running, ready_list, status, priority, thread_ticks, ticks, sleep_que,
                start, length, creating, halted, lag>>
heap_vars == <<top, size, child, sibling, key, members>>

Pair == t1 :> main @@ t2 :> b @@ t3 :> c @@ t4 :> idle_thread

MCInit == part \in Parts /\ Init /\ Sched!Init /\ Cond!Init /\ Heap!Init

\* A failed assertion stops the scheduler, and all threads may wait for the
\* condition; neither is a deadlock.
MCNext ==
  /\ \/ part = "rwlock" /\ Next /\ UNCHANGED <<sched_vars, cond_vars, heap_vars>>
     \/ /\ part = "sched" /\ (Sched!Next \/ (halted /\ UNCHANGED sched_vars))
        /\ UNCHANGED <<vars, cond_vars, heap_vars>>
     \/ /\ part = "condvar" /\ (Cond!Next \/ UNCHANGED cond_vars)
        /\ UNCHANGED <<vars, sched_vars, heap_vars>>
     \/ part = "heap" /\ Heap!Next /\ UNCHANGED <<vars, sched_vars, cond_vars>>
  /\ UNCHANGED part

\* The fairness of RWLock in the one part and of Scheduler in the other: every
\* thread of the one is paired with a fair action of the other.
Fair(t) ==
  \/ part = "rwlock" /\ Step(t) /\ UNCHANGED <<sched_vars, cond_vars, heap_vars>>
  \/ /\ part = "sched" /\ UNCHANGED <<vars, cond_vars, heap_vars>>
     /\ IF Pair[t] = idle_thread THEN Sched!timer_interrupt ELSE Sched!GetOn(Pair[t])

MCFairSpec ==
  /\ MCInit /\ [][MCNext]_<<part, vars, sched_vars, cond_vars, heap_vars>>
  /\ \A t \in Threads : WF_<<vars, sched_vars>>(Fair(t))

\* A status says where the thread is, and its list_elem is linked once at most.
StatusExact == Sched!StatusExact

\* The idle thread runs only if no other thread is ready.
WorkConserving == Sched!WorkConserving

\* The running thread yields at once to a higher one that becomes ready, as
\* doc/threads.texi asks.
ImmediateYield == Sched!ImmediateYield

\* It does so within a time slice.
BoundedLag == Sched!BoundedLag

\* The pointers of the heap are a tree, and it implements a priority queue.
HeapIsQueue == Heap!HeapIsQueue

\* A signal reaches one of the waiters, and the lock stays a lock.
MonitorExact == Cond!SignalDelivered /\ Cond!MonitorExclusion

\* The highest threads share the processor, and every sleeper wakes.
NobodyForgotten == Sched!NobodyForgotten
===============================================================================
