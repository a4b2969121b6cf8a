---------------------------- MODULE MCBufferCache -----------------------------
(***************************************************************************)
(* Instances of BufferCache.  A behaviour is in one of a few worlds: in    *)
(* "kernel" the buffers stay in memory; in "user" the memcpy may fault,    *)
(* and all is one value in two sectors; "any" is not restricted.  In the   *)
(* first two nobody queues for cache_lock behind a waiting thread: a call  *)
(* that waits for it has changed nothing and might as well start later.    *)
(***************************************************************************)
EXTENDS BufferCache, TLC

CONSTANTS Worlds

VARIABLES world, where

MCInit ==
  /\ Init
  /\ world \in Worlds
  /\ where \in SUBSET Sectors
  /\ IF world = "user" THEN Cardinality(where) = 2 ELSE where = Sectors

\* At most one thread waits for cache_lock, and at most one is in cache_flush or
\* cache_free, which hold it from their first line to their last.
NoQueue ==
  LET Outer(P(_)) == {t \in Threads : stack[t] # <<>> /\ P(stack[t][1])}
  IN  /\ Cardinality(Outer(LAMBDA f : f.at = "enter")) <= 1
      /\ Cardinality(Outer(LAMBDA f : f.op \in {"flush", "free"})) <= 1

MCNext ==
  /\ CacheNext \/ (world # "kernel" /\ FaultNext)
  /\ \A t \in Threads : \A i \in DOMAIN stack'[t] : stack'[t][i].sector \in where \cup {NoSector}
  /\ world = "user" => UNCHANGED latest
  /\ world = "any" \/ NoQueue'
  /\ UNCHANGED <<world, where>>

MCSpec == MCInit /\ [][MCNext]_<<vars, world, where>>

\* While no buffer is paged out: no sector is cached twice, ...
KernelUniqueBlock == world = "kernel" => UniqueBlock

\* ... who is at the memcpy has the wanted sector and its latest contents, ...
KernelCopyLatest == world = "kernel" => CopyLatest

\* ... and the calls never wait for each other in a circle.
KernelNoDeadlock == world = "kernel" => NoDeadlock

CacheSymmetry == Permutations(Users) \cup Permutations(Sectors)
===============================================================================
