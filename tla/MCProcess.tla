------------------------------- MODULE MCProcess ------------------------------
(***************************************************************************)
(* Instances of Process.  A behaviour is one of a few worlds, which it     *)
(* keeps.                                                                  *)
(*                                                                         *)
(* orderly: process_execute does not lose the processor between            *)
(* thread_create and its sema_down (its time slice does not end there),    *)
(* memory does not run out, and nobody waits for a process that did not    *)
(* load.                                                                   *)
(* preempted: the same, but process_execute may lose the processor.        *)
(* hard: anything, with one process less.                                  *)
(***************************************************************************)
EXTENDS Process, TLC

CONSTANTS Worlds

VARIABLE world

MCInit == Init /\ world \in Worlds

\* Nobody but t is between thread_create and sema_down in process_execute.
Undisturbed(t) ==
  \A u \in Tids \ {t} : at[u] \notin {"lookup", "inherit", "init_exit_data"}

MCNext ==
  /\ fault = "none"
  /\ \E t \in Tids :
       /\ world = "orderly" => Undisturbed(t)
       /\ Step(t) \/ (world = "hard" /\ NoMemory(t))
  /\ IF world = "hard"
       THEN at'[MaxTid] = "unborn"
       ELSE \A t \in Tids : At(t, "user") /\ at'[t] = "wait" => ~FailedToLoad(child'[t])
  /\ UNCHANGED world

MCSpec == MCInit /\ [][MCNext]_<<vars, world>>

\* process_wait returns the status its child gave to process_exit, in every world.
WaitExact == [][WaitReturnsTruth]_vars

\* When process_execute is not preempted and memory does not run out: nobody
\* waits for a dead process without being woken, and exec returns once the child
\* has reported, ...
OrderlyNobodyStuck == world = "orderly" => NoStuckWait /\ NoStuckExec

\* ... a child finds its creator alive when it stores the outcome of its load
\* there and raises ch_load_sema, since the creator cannot leave process_execute,
\* let alone exit, before; and the creator, woken, finds an outcome stored, ...
OrderlyReportLands == world = "orderly" => fault \notin {"assert", "freed thread"}

\* ... and what exec returns says whether the child has loaded.
OrderlyExecTruthful == [][world = "orderly" => ExecReturnsTruth]_vars
===============================================================================
