------------------------------ MODULE SynchLock -------------------------------
(***************************************************************************)
(* Locks, their semaphores and priority donation (threads/synch.c), run by *)
(* the scheduler of threads/thread.c on one processor: lock_acquire,       *)
(* lock_try_acquire, lock_release, donate_up, sema_down, sema_try_down,    *)
(* sema_up, thread_block, thread_unblock, thread_yield,                    *)
(* thread_set_priority and next_thread_to_run.                             *)
(*                                                                         *)
(* Only the running thread takes steps.  A step ends where interrupts are  *)
(* enabled and the code that follows reads or writes shared state, which   *)
(* is where Tick may switch threads; what runs with interrupts off is one  *)
(* step, with the thread_yield or thread_block that ends it.               *)
(***************************************************************************)
EXTENDS Integers, Sequences, FiniteSets, SequencesExt, FiniteSetsExt

CONSTANTS
  Threads,
  NoThread,    \* NULL, and the idle thread as running
  Locks,       \* numbers
  Priorities,  \* numbers
  MAX_DEPTH

ASSUME LockAssumption ==
  /\ NoThread \notin Threads
  /\ Locks \subseteq Nat /\ Priorities \subseteq Nat
  /\ MAX_DEPTH \in Nat

VARIABLES
  running, ready_list,
  priority, extra_priority, parent, locks,  \* of struct thread
  holder, value, waiters,                   \* of struct lock and its semaphore
  pc  \* pc[t]: what t is doing, on which lock, and where donate_up has got to

vars == <<running, ready_list, priority, extra_priority, parent, locks,
          holder, value, waiters, pc>>
sched == <<running, ready_list>>
donation == <<priority, extra_priority, parent>>

Free == [at |-> "free", lock |-> 0, try |-> FALSE,
         node |-> NoThread, up |-> NoThread, depth |-> 0, new |-> 0]

Init ==
  /\ running = NoThread
  /\ ready_list = <<>>
  /\ priority \in [Threads -> Priorities]
  /\ extra_priority = [t \in Threads |-> 0]
  /\ parent = [t \in Threads |-> NoThread]
  /\ locks = [t \in Threads |-> {}]
  /\ holder = [l \in Locks |-> NoThread]
  /\ value = [l \in Locks |-> 1]
  /\ waiters = [l \in Locks |-> <<>>]
  /\ pc = [t \in Threads |-> [Free EXCEPT !.at = "asleep"]]

Larger(a, b) == IF a > b THEN a ELSE b
Eff(t) == Larger(priority[t], extra_priority[t])
thread_less(a, b) == Eff(a) < Eff(b)

\* list_max: the first of the elements that no other one exceeds.
thread_list_max(s) ==
  s[CHOOSE i \in DOMAIN s :
      /\ \A j \in DOMAIN s : ~thread_less(s[i], s[j])
      /\ \A j \in 1..(i - 1) : thread_less(s[j], s[i])]
Without(s, t) == SelectSeq(s, LAMBDA x : x # t)

\* schedule and next_thread_to_run, once the outgoing thread has been queued
\* in ready, if it is to be.  extra_priority is the one before the step.
schedule(ready) ==
  IF ready = <<>>
    THEN running' = NoThread /\ ready_list' = <<>>
    ELSE LET next == thread_list_max(ready)
         IN  running' = next /\ ready_list' = Without(ready, next)

At(t, a) == running = t /\ pc[t].at = a
Goto(t, a) == pc' = [pc EXCEPT ![t].at = a]
\* t has returned from donate_up.
Arrive(t) ==
  pc' = [pc EXCEPT ![t] = [Free EXCEPT !.at = "down", !.lock = pc[t].lock, !.try = pc[t].try]]

\* lock_acquire and lock_try_acquire up to the call of donate_up.
Request(t, l, try) ==
  /\ At(t, "free")
  /\ holder[l] # t
  /\ parent' = [parent EXCEPT ![t] = holder[l]]
  /\ pc' = [pc EXCEPT ![t] = [Free EXCEPT !.at = "donate", !.lock = l, !.try = try, !.node = t]]
  /\ UNCHANGED <<sched, priority, extra_priority, locks, holder, value, waiters>>

lock_acquire(t, l) == Request(t, l, FALSE)

lock_try_acquire(t, l) == Request(t, l, TRUE)

\* Mutant: nobody donates.
MutNoDonation(t) ==
  /\ At(t, "donate")
  /\ Arrive(t)
  /\ UNCHANGED <<sched, donation, locks, holder, value, waiters>>

\* A call of donate_up: the test, and the maximum it computes.  The build (gcc
\* -O) reads t->parent once for the test and the store, ...
donate_up(t) ==
  /\ At(t, "donate")
  /\ LET n == pc[t].node IN
       IF pc[t].depth > MAX_DEPTH \/ n = NoThread \/ parent[n] = NoThread
         THEN Arrive(t)
         ELSE pc' = [pc EXCEPT ![t].at = "store", ![t].up = parent[n],
                       ![t].new = Larger(extra_priority[parent[n]], Eff(n))]
  /\ UNCHANGED <<sched, donation, locks, holder, value, waiters>>

\* ... which does not look again at what it overwrites ...
StoreDonation(t) ==
  /\ At(t, "store")
  /\ extra_priority' = [extra_priority EXCEPT ![pc[t].up] = pc[t].new]
  /\ pc' = [pc EXCEPT ![t].at = "climb", ![t].up = NoThread, ![t].new = 0]
  /\ UNCHANGED <<sched, priority, parent, locks, holder, value, waiters>>

\* ... and once more for the recursive call, when it may have become NULL.
Climb(t) ==
  /\ At(t, "climb")
  /\ pc' = [pc EXCEPT ![t].at = "donate", ![t].node = parent[@], ![t].depth = @ + 1]
  /\ UNCHANGED <<sched, donation, locks, holder, value, waiters>>

\* Mutant: a woken thread does not look at the value again.
MutNoRecheck(t) ==
  /\ At(t, "down") /\ ~pc[t].try
  /\ LET l == pc[t].lock IN
       IF value[l] > 0 \/ pc[t].new < 0
         THEN /\ value' = [value EXCEPT ![l] = Larger(0, @ - 1)]
              /\ Goto(t, "own")
              /\ UNCHANGED <<sched, waiters>>
         ELSE /\ waiters' = [waiters EXCEPT ![l] = Append(@, t)]
              /\ pc' = [pc EXCEPT ![t].new = -1]
              /\ schedule(ready_list)
              /\ UNCHANGED value
  /\ UNCHANGED <<donation, locks, holder>>

\* The loop of sema_down: decrement, or queue up and thread_block.
sema_down(t) ==
  /\ At(t, "down") /\ ~pc[t].try
  /\ LET l == pc[t].lock IN
       IF value[l] > 0
         THEN /\ value' = [value EXCEPT ![l] = @ - 1]
              /\ Goto(t, "own")
              /\ UNCHANGED <<sched, waiters>>
         ELSE /\ waiters' = [waiters EXCEPT ![l] = Append(@, t)]
              /\ schedule(ready_list)
              /\ UNCHANGED <<value, pc>>
  /\ UNCHANGED <<donation, locks, holder>>

sema_try_down(t) ==
  /\ At(t, "down") /\ pc[t].try
  /\ LET l == pc[t].lock IN
       IF value[l] > 0
         THEN value' = [value EXCEPT ![l] = @ - 1] /\ Goto(t, "own")
         ELSE UNCHANGED value /\ pc' = [pc EXCEPT ![t] = Free]
  /\ UNCHANGED <<sched, donation, locks, holder, waiters>>

\* The end of lock_acquire and lock_try_acquire.
BecomeHolder(t) ==
  /\ At(t, "own")
  /\ holder' = [holder EXCEPT ![pc[t].lock] = t]
  /\ locks' = [locks EXCEPT ![t] = @ \cup {pc[t].lock}]
  /\ pc' = [pc EXCEPT ![t] = Free]
  /\ UNCHANGED <<sched, donation, value, waiters>>

\* Mutant: the donations are kept.
MutKeepsDonation(t, l) == extra_priority[t]

\* The priority that the waiters of t's locks other than l still donate.
Donated(t, l) ==
  Max({0} \cup {Eff(u) : u \in UNION {ToSet(waiters[m]) : m \in locks[t] \ {l}}})

\* lock_release up to the call of sema_up.
lock_release(t, l) ==
  /\ At(t, "free")
  /\ holder[l] = t
  /\ parent' = [u \in Threads |-> IF u \in ToSet(waiters[l]) THEN NoThread ELSE parent[u]]
  /\ extra_priority' = [extra_priority EXCEPT ![t] = Donated(t, l)]
  /\ locks' = [locks EXCEPT ![t] = @ \ {l}]
  /\ holder' = [holder EXCEPT ![l] = NoThread]
  /\ pc' = [pc EXCEPT ![t] = [Free EXCEPT !.at = "up", !.lock = l]]
  /\ UNCHANGED <<sched, priority, value, waiters>>

\* Mutant: nobody is woken.
MutNoWake(t) ==
  /\ At(t, "up")
  /\ value' = [value EXCEPT ![pc[t].lock] = @ + 1]
  /\ pc' = [pc EXCEPT ![t] = Free]
  /\ UNCHANGED <<sched, donation, locks, holder, waiters>>

\* Mutant: the woken thread stays in the semaphore's list.
MutStaysQueued(t) ==
  /\ At(t, "up")
  /\ LET l == pc[t].lock IN
       /\ value' = [value EXCEPT ![l] = @ + 1]
       /\ ready_list' = IF waiters[l] = <<>> THEN ready_list ELSE Append(ready_list, waiters[l][1])
  /\ pc' = [pc EXCEPT ![t] = Free]
  /\ UNCHANGED <<running, donation, locks, holder, waiters>>

\* sema_up: the first of the highest waiters becomes ready, and runs at once
\* if it is higher than t.
sema_up(t) ==
  /\ At(t, "up")
  /\ LET l == pc[t].lock
         w == thread_list_max(waiters[l])
         ready == Append(ready_list, w)
     IN  /\ value' = [value EXCEPT ![l] = @ + 1]
         /\ IF waiters[l] = <<>>
              THEN UNCHANGED <<sched, waiters>>
              ELSE /\ waiters' = [waiters EXCEPT ![l] = Without(@, w)]
                   /\ IF thread_less(t, w)
                        THEN schedule(Append(ready, t))
                        ELSE ready_list' = ready /\ UNCHANGED running
  /\ pc' = [pc EXCEPT ![t] = Free]
  /\ UNCHANGED <<donation, locks, holder>>

\* t yields if its new priority leaves it below a ready thread, which is then
\* the one to run.
thread_set_priority(t, p) ==
  /\ At(t, "free") /\ priority[t] # p
  /\ priority' = [priority EXCEPT ![t] = p]
  /\ LET next == thread_list_max(ready_list) IN
       IF ready_list # <<>> /\ Larger(p, extra_priority[t]) < Eff(next)
         THEN running' = next /\ ready_list' = Append(Without(ready_list, next), t)
         ELSE UNCHANGED sched
  /\ UNCHANGED <<extra_priority, parent, locks, holder, value, waiters, pc>>

\* t blocks for a reason that has nothing to do with locks, such as
\* timer_sleep, ...
Sleep(t) ==
  /\ At(t, "free")
  /\ Goto(t, "asleep")
  /\ schedule(ready_list)
  /\ UNCHANGED <<donation, locks, holder, value, waiters>>

\* ... and an interrupt handler calls thread_unblock.
thread_unblock(t) ==
  /\ pc[t].at = "asleep"
  /\ Goto(t, "free")
  /\ ready_list' = Append(ready_list, t)
  /\ UNCHANGED <<running, donation, locks, holder, value, waiters>>

\* A timer interrupt ends the time slice: thread_yield.  The idle thread gives
\* way to any other.
Tick ==
  /\ ready_list # <<>>
  /\ schedule(IF running = NoThread THEN ready_list ELSE Append(ready_list, running))
  /\ UNCHANGED <<donation, locks, holder, value, waiters, pc>>

Next ==
  \/ Tick
  \/ \E t \in Threads :
       \/ donate_up(t) \/ StoreDonation(t) \/ Climb(t) \/ sema_down(t) \/ sema_try_down(t)
       \/ BecomeHolder(t) \/ sema_up(t) \/ Sleep(t) \/ thread_unblock(t)
       \/ \E l \in Locks : lock_acquire(t, l) \/ lock_try_acquire(t, l) \/ lock_release(t, l)
       \/ \E p \in Priorities : thread_set_priority(t, p)

Spec == Init /\ [][Next]_vars
-------------------------------------------------------------------------------
TypeOK ==
  /\ running \in Threads \cup {NoThread}
  /\ ready_list \in Seq(Threads)
  /\ priority \in [Threads -> Priorities]
  /\ extra_priority \in [Threads -> Priorities \cup {0}]
  /\ parent \in [Threads -> Threads \cup {NoThread}]
  /\ locks \in [Threads -> SUBSET Locks]
  /\ holder \in [Locks -> Threads \cup {NoThread}]
  /\ value \in [Locks -> {0, 1}]
  /\ waiters \in [Locks -> Seq(Threads)]
  /\ pc \in [Threads -> [at : {"free", "asleep", "donate", "store", "climb", "down", "own", "up"},
                         lock : Locks \cup {0}, try : BOOLEAN,
                         node : Threads \cup {NoThread}, up : Threads \cup {NoThread},
                         depth : 0..(MAX_DEPTH + 1), new : Priorities \cup {0}]]

Runnable == {t \in Threads : running = t \/ t \in ToSet(ready_list)}
Queued(t, l) == t \in ToSet(waiters[l])

\* Every thread is in exactly one place: it runs, or sleeps, or its one
\* list_elem is in the ready list, or in the list of the one semaphore that its
\* sema_down is about.
Placed ==
  /\ IsInjective(ready_list) /\ running \notin ToSet(ready_list)
  /\ \A l \in Locks : IsInjective(waiters[l])
  /\ \A t \in Threads :
       /\ pc[t].at = "asleep" => t \notin Runnable
       /\ \A l \in Locks :
            Queued(t, l) => t \notin Runnable /\ pc[t].at = "down" /\ pc[t].lock = l
       /\ t \in Runnable \/ pc[t].at = "asleep" \/ \E l \in Locks : Queued(t, l)

\* The state is well typed, and every thread is in exactly one place.
OnePlace == TypeOK /\ Placed

\* The threads past sema_down and not yet past sema_up on l.
Owns(t, l) == holder[l] = t \/ (pc[t].lock = l /\ pc[t].at \in {"own", "up"})
Owners(l) == {t \in Threads : Owns(t, l)}

\* A lock has at most one owner, and the semaphore is down exactly while it
\* has one; holder never names anybody else.
LockExclusion == \A l \in Locks : Cardinality(Owners(l)) = 1 - value[l]

\* The owner of l, from sema_down to sema_up.
OwnerOf(l) ==
  IF \E t \in Threads : Owns(t, l) THEN CHOOSE t \in Threads : Owns(t, l) ELSE NoThread

\* The code implements a mutex: ownership changes by an acquisition of a free
\* lock or a release by its owner, and in no other way.
AbsMutex == INSTANCE Mutex WITH owner <- [l \in Locks |-> OwnerOf(l)]
MutexSpec == AbsMutex!Spec

\* A wake-up is never lost: while threads wait for a semaphore that is up, one
\* that was woken is on its way to look at it again.
NoLostWakeup ==
  \A l \in Locks :
    waiters[l] # <<>> /\ value[l] > 0 =>
      \E t \in Threads \ ToSet(waiters[l]) : pc[t].at = "down" /\ pc[t].lock = l

\* designdoc, Project 1, B4: a thread that blocks donates its priority "along
\* the way" to the root.  Nobody who waits for a lock has a higher effective
\* priority than the holder, once no donation is on its way.
NoInversion ==
  (\A t \in Threads : pc[t].at \notin {"donate", "store", "climb"}) =>
    \A l \in Locks :
      holder[l] # NoThread => \A t \in ToSet(waiters[l]) : Eff(t) <= Eff(holder[l])

\* The threads above t in the tree of parents that donate_up can reach.
Ancestors(t) ==
  LET up[n \in 0..MAX_DEPTH] ==
        IF n = 0 THEN {parent[t]} ELSE up[n - 1] \cup {parent[u] : u \in up[n - 1] \ {NoThread}}
  IN  up[MAX_DEPTH] \ {NoThread}

\* designdoc, Project 1, B4: when t is about to block, it has donated to
\* everybody above it ("we climb up the tree until we reached the root"), up to
\* the MAX_DEPTH + 1 threads that the bound of synch.c:40 leaves.
ClimbComplete ==
  \A t \in Threads :
    At(t, "down") /\ ~pc[t].try /\ value[pc[t].lock] = 0 =>
      \A u \in Ancestors(t) : Eff(u) >= Eff(t)

\* Somebody of at least the priority that t has been given wants a lock of t.
DonationJustified(t) ==
  extra_priority[t] > 0 =>
    \E u \in Threads :
      /\ pc[u].at \in {"donate", "store", "climb", "down"} /\ holder[pc[u].lock] = t
      /\ Eff(u) >= extra_priority[t]

\* What LockExclusion rests on: a semaphore that is up has no owner, one that
\* is down has exactly one, and holder is not set while the owner is on its way
\* in or out.
OwnerInv ==
  /\ value \in [Locks -> {0, 1}]
  /\ holder \in [Locks -> Threads \cup {NoThread}]
  /\ DOMAIN pc = Threads
  /\ \A t \in Threads :
       /\ DOMAIN pc[t] = DOMAIN Free
       /\ pc[t].at \in {"donate", "store", "climb", "down", "own", "up"} => pc[t].lock \in Locks
       /\ pc[t].at \in {"own", "up"} => holder[pc[t].lock] = NoThread
  /\ \A l \in Locks :
       /\ value[l] = 1 => Owners(l) = {}
       /\ value[l] = 0 => \E t \in Threads : Owners(l) = {t}
===============================================================================
