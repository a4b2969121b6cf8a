-------------------------------- MODULE RWLock --------------------------------
(***************************************************************************)
(* The read-write lock of threads/synch.c (rwlock_acquire_reader,          *)
(* rwlock_acquire_writer, rwlock_release).                                 *)
(*                                                                         *)
(* The fields of struct rwlock are protected by rwlock->lock, so the code  *)
(* from lock_acquire to the next operation another thread can see (a       *)
(* sema_up, or the lock_release) is one step.  The hand-off loop of        *)
(* rwlock_release takes one step per waiter: the waiter it wakes runs      *)
(* while the loop is still going on.                                       *)
(*                                                                         *)
(* struct rwlock_waiter lives on the stack of the waiting thread, so a     *)
(* waiter is named by its thread: is_writer[t] and sema[t] are the two     *)
(* fields of the waiter of t.                                              *)
(***************************************************************************)
EXTENDS Naturals, Sequences, FiniteSets

CONSTANTS Threads, NoThread

ASSUME ThreadsAssumption == IsFiniteSet(Threads) /\ NoThread \notin Threads

VARIABLES
  holder,          \* rwlock->lock.holder
  waiters,         \* rwlock->waiters, a FIFO list
  active_readers,
  active_writers,
  is_writer,       \* is_writer[t]: what t asks, or last asked, for
  sema,            \* sema[t]: the value of w.sema of t's waiter
  pc               \* where t is

vars == <<holder, waiters, active_readers, active_writers, is_writer, sema, pc>>

\* idle: not using the lock;     acquire: in lock_acquire of rwlock_acquire_*;
\* go: took the shortcut;        park: queued, the inner lock still held;
\* wait: in sema_down;           held: owns the read-write lock;
\* release: in lock_acquire of rwlock_release;  handoff: in its loop;
\* unlock: at its lock_release;  panic: the PANIC of rwlock_release.
Locations == {"idle", "acquire", "go", "park", "wait", "held",
              "release", "handoff", "unlock", "panic"}

Init ==
  /\ holder = NoThread
  /\ waiters = <<>>
  /\ active_readers = 0
  /\ active_writers = 0
  /\ is_writer = [t \in Threads |-> FALSE]
  /\ sema = [t \in Threads |-> 0]
  /\ pc = [t \in Threads |-> "idle"]

Goto(t, loc) == pc' = [pc EXCEPT ![t] = loc]

\* A call of rwlock_acquire_reader or rwlock_acquire_writer.
Call(t, w) ==
  /\ pc[t] = "idle"
  /\ is_writer' = [is_writer EXCEPT ![t] = w]
  /\ Goto(t, "acquire")
  /\ UNCHANGED <<holder, waiters, active_readers, active_writers, sema>>

\* The queueing half of both acquire functions: waiter_init, list_push_back.
Enqueue(t) ==
  /\ waiters' = Append(waiters, t)
  /\ sema' = [sema EXCEPT ![t] = 0]
  /\ Goto(t, "park")
  /\ UNCHANGED <<active_readers, active_writers>>

\* Mutant: a reader overtakes the queue.
MutReaderBarges == active_writers = 0

ReaderShortcut == waiters = <<>> /\ active_writers = 0

rwlock_acquire_reader(t) ==
  /\ pc[t] = "acquire" /\ ~is_writer[t]
  /\ holder = NoThread
  /\ holder' = t
  /\ IF ReaderShortcut
       THEN /\ active_readers' = active_readers + 1
            /\ Goto(t, "go")
            /\ UNCHANGED <<waiters, active_writers, sema>>
       ELSE Enqueue(t)
  /\ UNCHANGED is_writer

\* Mutant: a writer enters beside readers.
MutWriterBesideReaders == waiters = <<>> /\ active_writers = 0

WriterShortcut == waiters = <<>> /\ active_readers = 0 /\ active_writers = 0

rwlock_acquire_writer(t) ==
  /\ pc[t] = "acquire" /\ is_writer[t]
  /\ holder = NoThread
  /\ holder' = t
  /\ IF WriterShortcut
       THEN /\ active_writers' = active_writers + 1
            /\ Goto(t, "go")
            /\ UNCHANGED <<waiters, active_readers, sema>>
       ELSE Enqueue(t)
  /\ UNCHANGED is_writer

\* lock_release (&rwlock->lock), the last access to the lock in each of the
\* three functions.
Unlock(t) ==
  /\ pc[t] \in {"go", "park", "unlock"}
  /\ holder' = NoThread
  /\ Goto(t, CASE pc[t] = "go" -> "held" [] pc[t] = "park" -> "wait" [] OTHER -> "idle")
  /\ UNCHANGED <<waiters, active_readers, active_writers, is_writer, sema>>

\* sema_down (&w.sema): the waiter was granted the lock by a releaser.
Wake(t) ==
  /\ pc[t] = "wait"
  /\ sema[t] > 0
  /\ sema' = [sema EXCEPT ![t] = @ - 1]
  /\ Goto(t, "held")
  /\ UNCHANGED <<holder, waiters, active_readers, active_writers, is_writer>>

CallRelease(t) ==
  /\ pc[t] = "held"
  /\ Goto(t, "release")
  /\ UNCHANGED <<holder, waiters, active_readers, active_writers, is_writer, sema>>

\* The first half of rwlock_release: the decrement and the test for the
\* hand-off.  The counters alone tell which kind of owner is leaving.
rwlock_release(t) ==
  /\ pc[t] = "release"
  /\ holder = NoThread
  /\ holder' = t
  /\ active_readers' = IF active_readers > 0 THEN active_readers - 1 ELSE active_readers
  /\ active_writers' = IF active_readers = 0 /\ active_writers > 0
                         THEN active_writers - 1 ELSE active_writers
  /\ Goto(t, IF active_readers = 0 /\ active_writers = 0 THEN "panic"
             ELSE IF active_readers' = 0 /\ active_writers' = 0 THEN "handoff"
             ELSE "unlock")
  /\ UNCHANGED <<waiters, is_writer, sema>>

\* May the popped waiter be granted?  Otherwise the loop pushes it back to
\* the front and breaks.
Admissible(w) == active_writers = 0 /\ (w => active_readers = 0)

\* The popped waiter is counted as an owner.
CountOwner(u) ==
  /\ active_writers' = IF is_writer[u] THEN active_writers + 1 ELSE active_writers
  /\ active_readers' = IF is_writer[u] THEN active_readers ELSE active_readers + 1

PopWaiter == waiters # <<>> /\ Admissible(is_writer[Head(waiters)]) /\ waiters' = Tail(waiters)

\* Mutants of the loop body: it stops after one grant; the granted waiter is
\* not counted.
MutOneGrant(t) ==
  /\ pc[t] = "handoff"
  /\ PopWaiter
  /\ CountOwner(Head(waiters))
  /\ sema' = [sema EXCEPT ![Head(waiters)] = @ + 1]
  /\ Goto(t, "unlock")
  /\ UNCHANGED <<holder, is_writer>>

MutUncounted(t) ==
  /\ pc[t] = "handoff"
  /\ PopWaiter
  /\ sema' = [sema EXCEPT ![Head(waiters)] = @ + 1]
  /\ UNCHANGED <<holder, active_readers, active_writers, is_writer, pc>>

\* One iteration of the loop of rwlock_release that grants the lock.
HandOff(t) ==
  /\ pc[t] = "handoff"
  /\ PopWaiter
  /\ CountOwner(Head(waiters))
  /\ sema' = [sema EXCEPT ![Head(waiters)] = @ + 1]
  /\ UNCHANGED <<holder, is_writer, pc>>

\* The loop ends: no waiter is left, or the first one has to wait.
EndHandOff(t) ==
  /\ pc[t] = "handoff"
  /\ waiters # <<>> => ~Admissible(is_writer[Head(waiters)])
  /\ Goto(t, "unlock")
  /\ UNCHANGED <<holder, waiters, active_readers, active_writers, is_writer, sema>>

Step(t) ==
  \/ rwlock_acquire_reader(t)
  \/ rwlock_acquire_writer(t)
  \/ Unlock(t)
  \/ Wake(t)
  \/ CallRelease(t)
  \/ rwlock_release(t)
  \/ HandOff(t)
  \/ EndHandOff(t)

Next == \E t \in Threads : Step(t) \/ \E w \in BOOLEAN : Call(t, w)

Spec == Init /\ [][Next]_vars

\* A thread inside an operation keeps being scheduled, and an owner releases
\* the lock sooner or later.  Nobody is obliged to call.
FairSpec == Spec /\ \A t \in Threads : WF_vars(Step(t))
-------------------------------------------------------------------------------
Queued == {waiters[i] : i \in 1..Len(waiters)}

\* The threads that own the read-write lock, or were granted it and are on
\* their way out of the acquire function.
Owns(t) == pc[t] \in {"go", "held", "release"} \/ (pc[t] = "wait" /\ t \notin Queued)

Readers == {t \in Threads : Owns(t) /\ ~is_writer[t]}
Writers == {t \in Threads : Owns(t) /\ is_writer[t]}

TypeOK ==
  /\ holder \in Threads \cup {NoThread}
  /\ waiters \in Seq(Threads)
  /\ active_readers \in Nat
  /\ active_writers \in Nat
  /\ is_writer \in [Threads -> BOOLEAN]
  /\ sema \in [Threads -> Nat]
  /\ pc \in [Threads -> Locations]

\* "only one thread to write to it at a time", and no reader beside it: the
\* comment of rwlock_init, through shortcuts and hand-offs alike.
Exclusion ==
  \A t, u \in Threads :
    pc[t] = "held" /\ is_writer[t] /\ pc[u] = "held" => t = u

\* The counters that rwlock_release trusts to tell readers from writers count
\* the owners exactly, also while granted waiters have not run yet.
CountersExact ==
  /\ active_readers = Cardinality(Readers)
  /\ active_writers = Cardinality(Writers)

\* The PANIC of rwlock_release is never reached by a thread that owns the lock.
NoPanic == \A t \in Threads : pc[t] # "panic"

\* No lost hand-off: if someone is queued then an owner will have to release,
\* or a releaser is in its loop.
NobodyStranded ==
  waiters # <<>> => \/ active_readers + active_writers > 0
                    \/ \E t \in Threads : pc[t] = "handoff"

\* Outside a hand-off a queued reader never stands first in line while readers
\* own the lock: the last hand-off admitted every reader it could.
HeadMustWait ==
  (waiters # <<>> /\ \A t \in Threads : pc[t] # "handoff")
    => ~Admissible(is_writer[Head(waiters)])

\* A waiter's struct is on a live stack frame, in the list at most once, and
\* its semaphore is up exactly when it has been taken off the list.
WaitersLive ==
  /\ \A i, j \in 1..Len(waiters) : waiters[i] = waiters[j] => i = j
  /\ \A t \in Queued : pc[t] \in {"park", "wait"}
  /\ \A t \in Threads : sema[t] = IF pc[t] = "wait" /\ t \notin Queued THEN 1 ELSE 0

\* The inductive invariant behind the safety properties: who holds the inner
\* lock, who is queued, and that one writer or any number of readers own the
\* read-write lock.
HolderInv ==
  \A t \in Threads : holder = t <=> pc[t] \in {"go", "park", "handoff", "unlock", "panic"}

ParkedQueued == \A t \in Threads : pc[t] = "park" => t \in Queued

OneKind == active_writers = 0 \/ (active_writers = 1 /\ active_readers = 0)

IInv ==
  /\ TypeOK
  /\ HolderInv
  /\ ParkedQueued
  /\ WaitersLive
  /\ CountersExact
  /\ OneKind
  /\ NoPanic

\* Everybody who asks for the lock gets it, writers among streams of readers
\* included ("a fair read-write lock", synch.h), as long as owners release.
NoStarvation == \A t \in Threads : t \in Queued ~> pc[t] = "held"

\* The code implements the FIFO read-write lock.
Abs == INSTANCE FairRWLock WITH
  queue <- waiters, writer <- is_writer, readers <- Readers, writers <- Writers

AbsSpec == Abs!Spec
===============================================================================
