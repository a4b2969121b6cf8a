------------------------------ MODULE FairRWLock ------------------------------
(***************************************************************************)
(* What a "fair read-write lock" (threads/synch.h, struct rwlock) promises *)
(* its callers, with no mention of the inner lock, of the counters or of   *)
(* the per-waiter semaphores.                                              *)
(*                                                                         *)
(* A request that cannot be granted at once joins a queue; only the head   *)
(* of the queue is ever granted, and a newcomer is granted at once only    *)
(* when nobody is queued.                                                  *)
(***************************************************************************)
EXTENDS Naturals, Sequences

CONSTANT Threads

VARIABLES
  queue,    \* the waiting threads, the oldest request first
  writer,   \* writer[t]: t's request, the present or the next one, is for writing
  readers,  \* threads that own the lock for reading
  writers   \* threads that own the lock for writing

absVars == <<queue, writer, readers, writers>>

Init ==
  /\ queue = <<>>
  /\ writer = [t \in Threads |-> FALSE]
  /\ readers = {}
  /\ writers = {}

\* A writer needs the lock for itself, a reader only needs no writer.
Compatible(w) == writers = {} /\ (w => readers = {})

Own(t, w) ==
  /\ readers' = IF w THEN readers ELSE readers \cup {t}
  /\ writers' = IF w THEN writers \cup {t} ELSE writers

Idle(t) ==
  /\ t \notin readers \cup writers
  /\ \A i \in 1..Len(queue) : queue[i] # t

\* A thread that has no request makes up its mind what to ask for.
Ask(t, w) ==
  /\ Idle(t)
  /\ writer' = [writer EXCEPT ![t] = w]
  /\ UNCHANGED <<queue, readers, writers>>

\* Granted on arrival.
Enter(t) ==
  /\ Idle(t)
  /\ queue = <<>>
  /\ Compatible(writer[t])
  /\ Own(t, writer[t])
  /\ UNCHANGED <<queue, writer>>

\* Queued on arrival.
Wait(t) ==
  /\ Idle(t)
  /\ queue' = Append(queue, t)
  /\ UNCHANGED <<writer, readers, writers>>

\* The oldest request is granted.
Grant ==
  /\ queue # <<>>
  /\ Compatible(writer[Head(queue)])
  /\ Own(Head(queue), writer[Head(queue)])
  /\ queue' = Tail(queue)
  /\ UNCHANGED writer

Release(t) ==
  /\ t \in readers \cup writers
  /\ readers' = readers \ {t}
  /\ writers' = writers \ {t}
  /\ UNCHANGED <<queue, writer>>

Next ==
  \/ \E t \in Threads, w \in BOOLEAN : Ask(t, w)
  \/ \E t \in Threads : Enter(t) \/ Wait(t) \/ Release(t)
  \/ Grant

Spec == Init /\ [][Next]_absVars

\* A grantable head of the queue is granted sooner or later.
FairSpec == Spec /\ WF_absVars(Grant)
===============================================================================
