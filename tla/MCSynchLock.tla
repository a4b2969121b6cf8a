----------------------------- MODULE MCSynchLock ------------------------------
(***************************************************************************)
(* Instances of SynchLock.  A behaviour is one of a few worlds, which it   *)
(* keeps: who takes part, with what priorities, and what may happen.       *)
(*                                                                         *)
(* crowd: three threads with one priority contend for one lock, and the    *)
(* timer may preempt anywhere.                                             *)
(* pair: two threads, two locks, two priorities; lock_try_acquire on one   *)
(* and thread_set_priority besides, and the timer may preempt anywhere.    *)
(* hop: three threads with one priority, of which the one of rank r uses   *)
(* the locks r - 1 and r; the timer may preempt the third anywhere and the *)
(* others outside the lock code.                                           *)
(* calm: three threads with distinct priorities and two locks, and         *)
(* lock_try_acquire by the second besides; the timer preempts outside the  *)
(* lock code only.                                                         *)
(* single: the same with one lock, and lock_try_acquire by all.            *)
(* chain: four threads, with ranks as in hop, which are their priorities;  *)
(* the timer preempts outside the lock code only.                          *)
(***************************************************************************)
EXTENDS SynchLock, TLC

CONSTANTS
  Worlds,
  Fourth  \* the thread that takes part in chain only

VARIABLES
  world,
  rank,   \* the part of a thread in its world, 0 for none
  misled  \* who has been given a priority by a thread that does not wait for it

Calm == world \in {"calm", "single", "chain"}

MCInit ==
  /\ Init
  /\ misled = {}
  /\ world \in Worlds
  /\ rank \in [Threads -> 0..4]
  /\ LET who == {t \in Threads : rank[t] > 0} IN
       /\ Fourth \in who => world = "chain" /\ rank[Fourth] = 4
       /\ IF world \in {"crowd", "pair"}
            THEN /\ Cardinality(who) = IF world = "pair" THEN 2 ELSE 3
                 /\ \A t \in who : rank[t] = 1
            ELSE {rank[t] : t \in who} = 1..(IF world = "chain" THEN 4 ELSE 3)
  /\ \A t \in Threads : priority[t] = IF Calm THEN Larger(rank[t], 1) ELSE 1

\* The step is a Tick inside lock code.
TickInside ==
  /\ running # NoThread /\ pc[running].at # "free"
  /\ UNCHANGED <<pc, waiters>>

\* The locks that t may use.
Usable(t) ==
  CASE world \in {"crowd", "single"} -> {1}
    [] world \in {"hop", "chain"} -> {rank[t] - 1, rank[t]} \cap 1..(IF world = "hop" THEN 2 ELSE 3)
    [] OTHER -> {1, 2}

\* t, at u, waits for a lock of parent[u], or is about to.
Waits(u) == pc[u].at \in {"donate", "store", "climb", "down"} /\ ~pc[u].try

\* A failed lock_try_acquire leaves its parent and its donation behind, and
\* whoever then donates to the thread that called it donates to that parent,
\* until the thread that was given the priority releases a lock.
Misled ==
  misled' = IF ~Calm THEN {} ELSE
    ( misled \cup { pc[t].up : t \in {u \in Threads :
        /\ At(u, "store") /\ pc'[u].at = "climb"
        /\ ~Waits(pc[u].node) \/ pc[u].node \in misled} } )
      \ {t \in Threads : pc[t].at = "free" /\ pc'[t].at = "up"}

MCNext ==
  /\ Next
  /\ \A t \in Threads : rank[t] = 0 => pc'[t] = pc[t]
  /\ world = "pair" => \A t \in Threads : priority'[t] <= 2
  /\ world # "pair" => UNCHANGED priority
  /\ \A t \in Threads :
       pc'[t].try => \/ world \in {"pair", "single"} /\ pc'[t].lock = 1
                     \/ world = "calm" /\ rank[t] = 2
  /\ ~Calm => \A t \in Threads : pc'[t].at = "asleep" => pc[t].at = "asleep"
  /\ \A t \in Threads : pc'[t].lock \in Usable(t) \cup {0}
  /\ TickInside => ~Calm /\ (world = "hop" => rank[running] = 3)
  /\ Misled
  /\ UNCHANGED <<world, rank>>

MCSpec == MCInit /\ [][MCNext]_<<vars, world, rank, misled>>

LockSymmetry == Permutations(Threads \ {Fourth})

\* While nobody is preempted inside the lock code and nobody holds two locks,
\* a donation reaches the holder in time: no waiter is above the holder.
SingleNoInversion == world = "single" => NoInversion

\* While nobody is preempted inside the lock code, a thread that is about to
\* block has donated to the MAX_DEPTH + 1 threads above it, and a donation lasts
\* no longer than its reason.  Where lock_try_acquire has failed it may: that
\* leaves both the donation and the parent behind (synch.c:241-244).
CalmDonations ==
  Calm => ClimbComplete /\ \A t \in Threads \ misled : DonationJustified(t)
===============================================================================
