------------------------------- MODULE CondVar --------------------------------
(***************************************************************************)
(* Condition variables (threads/synch.c): cond_wait, cond_signal and       *)
(* cond_broadcast by threads that share one lock and one condition.        *)
(*                                                                         *)
(* The lock is the mutex that SynchLock is shown to implement: owner.  A   *)
(* thread has at most one semaphore_elem at a time, the local variable of  *)
(* its cond_wait, and is its only user, so the element is named after the  *)
(* thread: value[t] is its semaphore's value, and t is in that semaphore's *)
(* list of waiters exactly when pc[t] = "parked".                          *)
(***************************************************************************)
EXTENDS Integers, Sequences, Functions

CONSTANTS
  Threads, NoThread,
  Priority   \* Priority[t]: the effective priority of t

VARIABLES
  owner,    \* of the lock
  waiters,  \* the threads whose elements are in cond->waiters
  value,    \* value[t]: of the semaphore of t's element
  pc,
  target,   \* target[t]: whom t's cond_signal has picked
  panic     \* an ASSERT has failed

vars == <<owner, waiters, value, pc, target, panic>>

Init ==
  /\ owner = NoThread
  /\ waiters = <<>>
  /\ value = [t \in Threads |-> 0]
  /\ pc = [t \in Threads |-> "outside"]
  /\ target = [t \in Threads |-> NoThread]
  /\ panic = FALSE

At(t, a) == ~panic /\ pc[t] = a
Goto(t, a) == pc' = [pc EXCEPT ![t] = a]

\* lock_acquire, by a client or at the end of cond_wait.
lock_acquire(t) ==
  /\ At(t, "outside") \/ At(t, "reacquire")
  /\ owner = NoThread
  /\ owner' = t
  /\ Goto(t, "inside")
  /\ UNCHANGED <<waiters, value, target, panic>>

lock_release(t) ==
  /\ At(t, "inside")
  /\ owner' = NoThread
  /\ Goto(t, "outside")
  /\ UNCHANGED <<waiters, value, target, panic>>

\* cond_wait: the element is queued with the lock held, ...
cond_wait(t) ==
  /\ At(t, "inside")
  /\ value' = [value EXCEPT ![t] = 0]
  /\ waiters' = Append(waiters, t)
  /\ Goto(t, "queued")
  /\ UNCHANGED <<owner, target, panic>>

\* ... the lock is released, ...
WaitRelease(t) ==
  /\ At(t, "queued")
  /\ owner' = NoThread
  /\ Goto(t, "sema_down")
  /\ UNCHANGED <<waiters, value, target, panic>>

\* ... and t waits for its semaphore, unless it is up by now.
sema_down(t) ==
  /\ At(t, "sema_down")
  /\ IF value[t] > 0
       THEN value' = [value EXCEPT ![t] = @ - 1] /\ Goto(t, "reacquire")
       ELSE Goto(t, "parked") /\ UNCHANGED value
  /\ UNCHANGED <<owner, waiters, target, panic>>

\* list_max of the elements: where the first of the highest is.
Highest ==
  CHOOSE i \in DOMAIN waiters :
    /\ \A j \in DOMAIN waiters : Priority[waiters[j]] <= Priority[waiters[i]]
    /\ \A j \in 1..(i - 1) : Priority[waiters[j]] < Priority[waiters[i]]

\* list_max compares every element with another one if there are two, and
\* condvar_less calls thread_list_max on both semaphores, which asserts that
\* somebody waits there.
condvar_less_asserts == Len(waiters) >= 2 => \A i \in DOMAIN waiters : pc[waiters[i]] = "parked"

\* cond_signal up to the call of sema_up; all: called by cond_broadcast.
cond_signal(t, all) ==
  /\ At(t, IF all THEN "broadcast" ELSE "inside")
  /\ waiters # <<>>
  /\ IF condvar_less_asserts
       THEN /\ target' = [target EXCEPT ![t] = waiters[Highest]]
            /\ waiters' = SubSeq(waiters, 1, Highest - 1) \o SubSeq(waiters, Highest + 1, Len(waiters))
            /\ Goto(t, IF all THEN "up_all" ELSE "up")
            /\ UNCHANGED panic
       ELSE panic' = TRUE /\ UNCHANGED <<target, waiters, pc>>
  /\ UNCHANGED <<owner, value>>

\* Mutant: only a thread that waits already is woken.
MutUpForgets(t) ==
  /\ At(t, "up") \/ At(t, "up_all")
  /\ LET w == target[t] IN
       /\ value' = [value EXCEPT ![w] = IF pc[w] = "parked" THEN 1 ELSE 0]
       /\ pc' = [pc EXCEPT ![w] = IF @ = "parked" THEN "sema_down" ELSE @,
                           ![t] = IF @ = "up" THEN "inside" ELSE "broadcast"]
  /\ target' = [target EXCEPT ![t] = NoThread]
  /\ UNCHANGED <<owner, waiters, panic>>

\* sema_up on the element of the thread picked.
sema_up(t) ==
  /\ At(t, "up") \/ At(t, "up_all")
  /\ LET w == target[t] IN
       /\ value' = [value EXCEPT ![w] = @ + 1]
       /\ pc' = [pc EXCEPT ![w] = IF @ = "parked" THEN "sema_down" ELSE @,
                           ![t] = IF @ = "up" THEN "inside" ELSE "broadcast"]
  /\ target' = [target EXCEPT ![t] = NoThread]
  /\ UNCHANGED <<owner, waiters, panic>>

\* The loop of cond_broadcast: entered with waiters, left without.
cond_broadcast(t) ==
  /\ \/ At(t, "inside") /\ waiters # <<>> /\ Goto(t, "broadcast")
     \/ At(t, "broadcast") /\ waiters = <<>> /\ Goto(t, "inside")
  /\ UNCHANGED <<owner, waiters, value, target, panic>>

\* What a thread does once it is in one of the functions.
Step(t) ==
  \/ lock_acquire(t) /\ pc[t] = "reacquire"
  \/ WaitRelease(t) \/ sema_down(t) \/ cond_signal(t, TRUE) \/ sema_up(t)
  \/ At(t, "broadcast") /\ cond_broadcast(t)

Next ==
  \E t \in Threads :
    \/ Step(t)
    \/ lock_acquire(t) /\ pc[t] = "outside"
    \/ lock_release(t) \/ cond_wait(t) \/ cond_signal(t, FALSE)
    \/ At(t, "inside") /\ cond_broadcast(t)

Spec == Init /\ [][Next]_vars

-------------------------------------------------------------------------------
TypeOK ==
  /\ owner \in Threads \cup {NoThread}
  /\ waiters \in Seq(Threads)
  /\ value \in [Threads -> {0, 1}]
  /\ pc \in [Threads -> {"outside", "inside", "queued", "sema_down", "parked", "reacquire",
                         "up", "broadcast", "up_all"}]
  /\ target \in [Threads -> Threads \cup {NoThread}]
  /\ panic \in BOOLEAN

\* Between its cond_wait and its wake-up a thread is in exactly one of three
\* situations: in the list once, picked by one cond_signal, or its semaphore is
\* up.  No signal is lost, doubled or sent to a thread that does not wait, even
\* if it arrives before the sema_down.
SignalDelivered ==
  /\ IsInjective(waiters)
  /\ \A t \in Threads :
       LET listed == t \in Range(waiters)
           picked == {u \in Threads : target[u] = t}
       IN  IF pc[t] \in {"queued", "sema_down", "parked"}
             THEN \/ listed /\ picked = {} /\ value[t] = 0
                  \/ ~listed /\ (\E u \in Threads : picked = {u}) /\ value[t] = 0
                  \/ ~listed /\ picked = {} /\ value[t] = 1 /\ pc[t] # "parked"
             ELSE ~listed /\ picked = {} /\ value[t] = 0

\* The state is well typed, and whoever is inside the monitor owns the lock:
\* also after a wait.
MonitorExclusion ==
  /\ TypeOK
  /\ \A t \in Threads :
       pc[t] \in {"inside", "queued", "up", "broadcast", "up_all"} <=> owner = t

\* What they rest on: a cond_signal has picked somebody exactly while it is
\* between its list_remove and its sema_up.
CondInv ==
  /\ MonitorExclusion /\ SignalDelivered
  /\ \A t \in Threads : pc[t] \in {"up", "up_all"} <=> target[t] # NoThread
===============================================================================
