------------------------------ MODULE Scheduler -------------------------------
(***************************************************************************)
(* The priority scheduler of threads/thread.c (not the mlfqs mode) and the *)
(* sleeping of devices/timer.c: thread_create, thread_exit, thread_yield,  *)
(* thread_set_priority, timer_sleep and timer_interrupt, on one processor. *)
(*                                                                         *)
(* sleep_que is the priority queue that PairingHeap is shown to implement. *)
(* Priority donation is in SynchLock; here extra_priority is 0.  A call of *)
(* thread_create that gets no page changes nothing and is no step.  The    *)
(* clock stops at MaxTick, after every sleeper is due, while the time      *)
(* slices go on.                                                           *)
(***************************************************************************)
EXTENDS Integers, Sequences, FiniteSets, SequencesExt

CONSTANTS
  Threads, main,      \* main is the thread that boots
  idle_thread,
  Priorities, Default,
  TIME_SLICE,
  MaxSleep,           \* longest timer_sleep
  MaxTick             \* bound on the clock

VARIABLES
  running, ready_list, status, priority,
  thread_ticks,            \* ticks since the last switch
  ticks, sleep_que,
  start,                   \* start[t], length[t]: of the timer_sleep of t
  length,
  creating,                \* creating[t]: whom the thread_create of t has just made ready
  halted,                  \* an assertion has failed
  lag                      \* history: ticks that t has been ready and above the running thread

vars == <<running, ready_list, status, priority, thread_ticks, ticks, sleep_que,
          start, length, creating, halted, lag>>
sleepers == <<sleep_que, start, length>>

NotSleeping == -1
Nobody == idle_thread

Init ==
  /\ running = main
  /\ ready_list = <<>>
  /\ status = [t \in Threads |-> IF t = main THEN "RUNNING" ELSE "UNBORN"]
  /\ priority = [t \in Threads |-> Default]
  /\ thread_ticks = 0
  /\ ticks = 0
  /\ sleep_que = {}
  /\ start = [t \in Threads |-> NotSleeping]
  /\ length = [t \in Threads |-> 0]
  /\ creating = [t \in Threads |-> Nobody]
  /\ halted = FALSE
  /\ lag = [t \in Threads |-> 0]

\* The first of the highest threads of s, under priorities p.
thread_list_max(s, p) ==
  s[CHOOSE i \in DOMAIN s :
      /\ \A j \in DOMAIN s : p[s[j]] <= p[s[i]]
      /\ \A j \in 1..(i - 1) : p[s[j]] < p[s[i]]]

\* schedule: ready, st and p are the ready list, the statuses and the
\* priorities once the outgoing thread has been dealt with.
schedule(ready, st, p) ==
  LET next == IF ready = <<>> THEN idle_thread ELSE thread_list_max(ready, p)
  IN  /\ running' = next
      /\ ready_list' = SelectSeq(ready, LAMBDA x : x # next)
      /\ status' = [t \in Threads |-> IF t = next THEN "RUNNING" ELSE st[t]]
      /\ thread_ticks' = 0

\* Mutant: the outgoing thread still counts as running.
MutYieldStatus(ready, st, p) ==
  schedule(IF running = idle_thread THEN ready ELSE Append(ready, running), st, p)

\* Mutant: the outgoing thread goes to the front of the list.
MutYieldFront(ready, st, p) ==
  IF running = idle_thread
    THEN schedule(ready, st, p)
    ELSE schedule(<<running>> \o ready, [st EXCEPT ![running] = "READY"], p)

\* thread_yield when ready and st are the ready list and the statuses before.
YieldWith(ready, st, p) ==
  IF running = idle_thread
    THEN schedule(ready, st, p)
    ELSE schedule(Append(ready, running), [st EXCEPT ![running] = "READY"], p)

\* The history variable: a thread that is no longer ready and above the
\* running one starts again at 0.
Lags(tick) ==
  lag' = [t \in Threads |->
            IF status'[t] = "READY" /\ running' # idle_thread /\ priority'[t] > priority'[running']
              THEN IF tick THEN lag[t] + 1 ELSE lag[t]
              ELSE 0]

\* When t is due; timer_sleep stores it in struct thread.
wakeup_tick(t) == start[t] + length[t]

\* t runs, outside of timer_sleep and thread_create.
Runs(t) == running = t /\ start[t] = NotSleeping /\ creating[t] = Nobody /\ ~halted

thread_yield(t) ==
  /\ Runs(t)
  /\ YieldWith(ready_list, status, priority)
  /\ UNCHANGED <<priority, ticks, sleepers, creating, halted>>
  /\ Lags(FALSE)

\* thread_create makes the new thread ready ...
thread_create(t, u, p) ==
  /\ Runs(t)
  /\ status[u] = "UNBORN"
  /\ priority' = [priority EXCEPT ![u] = p]
  /\ ready_list' = Append(ready_list, u)
  /\ status' = [status EXCEPT ![u] = "READY"]
  /\ creating' = [creating EXCEPT ![t] = u]
  /\ UNCHANGED <<running, thread_ticks, ticks, sleepers, halted>>
  /\ Lags(FALSE)

\* ... and then, with interrupts on, yields to it if it is higher.  If it has run
\* and exited by then, its page is free: is_thread fails, unless the page is
\* another thread's by now.
thread_create_yield(t) ==
  /\ running = t /\ creating[t] # Nobody /\ ~halted
  /\ creating' = [creating EXCEPT ![t] = Nobody]
  /\ LET u == creating[t] IN
       \/ /\ status[u] = "DYING" \/ priority[t] < priority[u]
          /\ YieldWith(ready_list, status, priority)
          /\ UNCHANGED halted
       \/ /\ status[u] = "DYING" \/ priority[t] >= priority[u]
          /\ UNCHANGED <<running, ready_list, status, thread_ticks, halted>>
       \/ /\ status[u] = "DYING"
          /\ halted' = TRUE
          /\ UNCHANGED <<running, ready_list, status, thread_ticks>>
  /\ UNCHANGED <<priority, ticks, sleepers>>
  /\ Lags(FALSE)

thread_set_priority(t, p) ==
  /\ Runs(t)
  /\ priority[t] # p
  /\ priority' = [priority EXCEPT ![t] = p]
  /\ IF ready_list # <<>> /\ p < priority[thread_list_max(ready_list, priority)]
       THEN YieldWith(ready_list, status, priority')
       ELSE UNCHANGED <<running, ready_list, status, thread_ticks>>
  /\ UNCHANGED <<ticks, sleepers, creating, halted>>
  /\ Lags(FALSE)

\* The page of a dying thread is freed by the next one to run.
thread_exit(t) ==
  /\ Runs(t)
  /\ schedule(ready_list, [status EXCEPT ![t] = "DYING"], priority)
  /\ UNCHANGED <<priority, ticks, sleepers, creating, halted>>
  /\ Lags(FALSE)

\* timer_sleep reads the clock ...
timer_sleep(t, n) ==
  /\ Runs(t)
  /\ ticks + n <= MaxTick
  /\ start' = [start EXCEPT ![t] = ticks]
  /\ length' = [length EXCEPT ![t] = n]
  /\ UNCHANGED <<running, ready_list, status, priority, thread_ticks, ticks, sleep_que,
                 creating, halted, lag>>

\* ... and then, with interrupts off, queues t and blocks.
timer_sleep_block(t) ==
  /\ running = t /\ start[t] # NotSleeping /\ ~halted
  /\ sleep_que' = sleep_que \cup {t}
  /\ schedule(ready_list, [status EXCEPT ![t] = "BLOCKED"], priority)
  /\ UNCHANGED <<priority, ticks, start, length, creating, halted>>
  /\ Lags(FALSE)

\* timer_wakeup_threads pops the queue while its top is due.
timer_wakeup_threads(now) == {t \in sleep_que : wakeup_tick(t) <= now}

\* The orders in which it may unblock them.
WakeOrders(due) ==
  {s \in SetToSeqs(due) : \A i, j \in DOMAIN s : i < j => wakeup_tick(s[i]) <= wakeup_tick(s[j])}

\* Mutant: the idle thread keeps the processor for its time slice.
MutIdleSlice == thread_ticks + 1 >= TIME_SLICE

\* Mutant: the time slice lasts one tick longer.
MutSliceLonger == running = idle_thread \/ thread_ticks + 1 > TIME_SLICE

\* thread_tick: the time slice is over.  The idle thread blocks again after
\* every interrupt.
SliceOver == running = idle_thread \/ thread_ticks + 1 >= TIME_SLICE

\* timer_interrupt and thread_tick, and on the way out thread_yield if the time
\* slice is over.
timer_interrupt ==
  ~halted /\
  LET now == IF ticks < MaxTick THEN ticks + 1 ELSE ticks
      due == timer_wakeup_threads(now)
      st == [t \in Threads |-> IF t \in due THEN "READY" ELSE status[t]]
  IN  /\ ticks' = now
      /\ sleep_que' = sleep_que \ due
      /\ start' = [t \in Threads |-> IF t \in due THEN NotSleeping ELSE start[t]]
      /\ length' = [t \in Threads |-> IF t \in due THEN 0 ELSE length[t]]
      /\ \E woken \in WakeOrders(due) :
           IF SliceOver
             THEN YieldWith(ready_list \o woken, st, priority)
             ELSE /\ ready_list' = ready_list \o woken
                  /\ status' = st
                  /\ thread_ticks' = thread_ticks + 1
                  /\ UNCHANGED running
      /\ UNCHANGED <<priority, creating, halted>>
      /\ Lags(TRUE)

Next ==
  \/ timer_interrupt
  \/ \E t \in Threads :
       \/ thread_yield(t) \/ thread_exit(t) \/ timer_sleep_block(t) \/ thread_create_yield(t)
       \/ \E n \in 0..MaxSleep : timer_sleep(t, n)
       \/ \E p \in Priorities : thread_set_priority(t, p)
       \/ \E u \in Threads, p \in Priorities : thread_create(t, u, p)

Spec == Init /\ [][Next]_vars

\* What a thread that runs does next inside a call.
GetOn(t) == timer_sleep_block(t) \/ thread_create_yield(t)

\* The timer never stops, and a thread that runs gets on with what it has begun.
FairSpec == Spec /\ WF_vars(timer_interrupt) /\ \A t \in Threads : WF_vars(GetOn(t))
-------------------------------------------------------------------------------
TypeOK ==
  /\ running \in Threads \cup {idle_thread}
  /\ ready_list \in Seq(Threads)
  /\ status \in [Threads -> {"UNBORN", "READY", "RUNNING", "BLOCKED", "DYING"}]
  /\ priority \in [Threads -> Priorities]
  /\ thread_ticks \in 0..(TIME_SLICE - 1)
  /\ ticks \in 0..MaxTick
  /\ sleep_que \subseteq Threads
  /\ start \in [Threads -> {NotSleeping} \cup 0..MaxTick]
  /\ length \in [Threads -> 0..MaxSleep]
  /\ creating \in [Threads -> Threads \cup {Nobody}]
  /\ halted \in BOOLEAN
  /\ lag \in [Threads -> Nat]

\* The state is well typed; the status of a thread says where it is, and its one list_elem is linked
\* once: ready threads are in the ready list once, the running thread and the
\* blocked ones are not in it.
StatusExact ==
  /\ TypeOK
  /\ \A t \in Threads :
       /\ status[t] = "RUNNING" <=> running = t
       /\ status[t] = "BLOCKED" <=> t \in sleep_que
       /\ status[t] = "READY" <=> \E i \in DOMAIN ready_list : ready_list[i] = t
  /\ \A i, j \in DOMAIN ready_list : ready_list[i] = ready_list[j] => i = j

\* The idle thread runs only if nobody else can.
WorkConserving == running = idle_thread => ready_list = <<>>

\* doc/threads.texi: "When a thread is added to the ready list that has a higher
\* priority than the currently running thread, the current thread should
\* immediately yield the processor to the new thread."
ImmediateYield ==
  \A t \in Threads :
    status[t] = "READY" /\ running # idle_thread /\ creating[running] # t =>
      priority[t] <= priority[running]

\* What is left of that: timer_wakeup_threads does not yield, but a ready thread
\* above the running one gets the processor before TIME_SLICE ticks have passed,
\* whatever the others create, raise or lower in the meantime.
BoundedLag == \A t \in Threads : lag[t] < TIME_SLICE

\* t is ready, and no thread that could run is above it.
TopReady(t) ==
  /\ status[t] = "READY"
  /\ \A u \in Threads : status[u] \in {"READY", "RUNNING"} => priority[u] <= priority[t]

\* Threads of the highest priority share the processor: none of them stays
\* ready for ever; and no sleeper sleeps for ever, not even one that was
\* preempted in timer_sleep and is queued when it is already due.  A failed
\* assertion ends all that.
NobodyForgotten ==
  \A t \in Threads : []<>(~TopReady(t) \/ halted) /\ []<>(status[t] # "BLOCKED" \/ halted)
===============================================================================
