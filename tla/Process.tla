-------------------------------- MODULE Process -------------------------------
(***************************************************************************)
(* The life of processes (userprog/process.c): process_execute with        *)
(* init_exit_data, start_process up to the jump to user code,              *)
(* process_wait, and process_exit, together with the parts of              *)
(* threads/thread.c they rest on (thread_create, tid_to_thread,            *)
(* thread_exit).                                                           *)
(*                                                                         *)
(* A process is its tid; tids are handed out in order, and tid 1 is the    *)
(* kernel's main thread, which runs the first program and waits for it     *)
(* (run_task).  The struct exit_data of a process is named after its tid.  *)
(*                                                                         *)
(* Interrupts are on in these functions, so a step is what happens between *)
(* two accesses to state another process can change.  A step that touches  *)
(* a freed struct thread or exit_data, or fails an ASSERT, sets fault, and *)
(* nothing is said of what follows it.                                     *)
(***************************************************************************)
EXTENDS Integers, Sequences, FiniteSets, Functions

CONSTANTS
  MaxTid,    \* bound: processes ever created
  Statuses   \* the arguments of exit(); -1 for a process the kernel kills

ASSUME ProcessAssumption ==
  /\ MaxTid \in Nat \ {0}
  /\ Statuses \subseteq Int

Tids == 1..MaxTid
NULL == 0
TID_ERROR == -1
Main == 1
Codes == Statuses \union {-1}

VARIABLES
  at,             \* at[t]: where t is
  child,          \* child[t]: the tid t is executing or waiting for
  status,         \* status[t]: the argument of t's process_exit
  creator,        \* creator[t], NULL for Main
  ch_load_status, \* ch_load_status[t]
  ch_load_sema,   \* ch_load_sema[t]: its value; only t waits for it
  all_list,       \* the threads, in the order they were created
  hash_exit_data, \* the exit_data in the hash table
  ch_exit_data,   \* ch_exit_data[t]: the exit_data of t's children
  data,           \* data[t]: the contents of t's exit_data
  fault           \* a freed object was used, or an ASSERT failed

exits == <<hash_exit_data, ch_exit_data, data>>
loads == <<ch_load_status, ch_load_sema>>
births == <<all_list, creator>>
vars == <<at, child, status, births, loads, exits, fault>>

NoData == [live |-> FALSE, father |-> NULL, called_process_wait |-> FALSE,
           exit_code |-> -1, die_sema |-> 0]

Init ==
  /\ at = [t \in Tids |-> IF t = Main THEN "user" ELSE "unborn"]
  /\ child = [t \in Tids |-> NULL]
  /\ status = [t \in Tids |-> -1]
  /\ creator = [t \in Tids |-> NULL]
  /\ ch_load_status = [t \in Tids |-> "LOAD_READY"]
  /\ ch_load_sema = [t \in Tids |-> 0]
  /\ all_list = <<Main>>
  /\ hash_exit_data = {}
  /\ ch_exit_data = [t \in Tids |-> <<>>]
  /\ data = [t \in Tids |-> NoData]
  /\ fault = "none"

At(t, a) == at[t] = a
Goto(t, a) == at' = [at EXCEPT ![t] = a]
\* Back to user code; the locals of the system call are gone.
Return(t) == /\ Goto(t, "user")
             /\ child' = [child EXCEPT ![t] = NULL]
Fault(f) == fault' = f

\* The struct thread does not exist, or not any more.
Gone(t) == at[t] \in {"unborn", "dead", "failed"}

-------------------------------------------------------------------------------
(* process_execute.  When there is no page for a copy of the command line it *)
(* returns TID_ERROR and changes nothing.                                    *)

\* thread_create fails: tid_to_thread asserts that it is not given TID_ERROR.
ExecNoThread(t) ==
  /\ At(t, "user")
  /\ Fault("assert")
  /\ UNCHANGED <<at, child, status, births, loads, exits>>

\* thread_create: init_thread puts the new thread at the end of all_list, and
\* from thread_unblock on it can run.
ExecCreate(t) ==
  /\ At(t, "user")
  /\ \E c \in Tids :
       /\ At(c, "unborn")
       /\ \A u \in 1..(c - 1) : ~At(u, "unborn")
       /\ at' = [at EXCEPT ![t] = "lookup", ![c] = "start"]
       /\ child' = [child EXCEPT ![t] = c]
       /\ creator' = [creator EXCEPT ![c] = t]
       /\ all_list' = Append(all_list, c)
  /\ UNCHANGED <<status, loads, exits, fault>>

\* list_rbegin (&all_list).
Last == all_list[Len(all_list)]

\* tid_to_thread: the walk begins at list_rbegin and moves by list_next, so the
\* second element it looks at is the tail, past which list_next asserts.
tid_to_thread(t) ==
  /\ At(t, "lookup")
  /\ IF Last = child[t]
       THEN Goto(t, "inherit") /\ UNCHANGED fault
       ELSE Fault("assert") /\ UNCHANGED at
  /\ UNCHANGED <<child, status, births, loads, exits>>

\* new_thread->cwd = cur->cwd; which directory it is does not matter here.
InheritCwd(t) ==
  /\ At(t, "inherit")
  /\ IF Gone(child[t])
       THEN Fault("freed thread") /\ UNCHANGED at
       ELSE Goto(t, "init_exit_data") /\ UNCHANGED fault
  /\ UNCHANGED <<child, status, births, loads, exits>>

\* init_exit_data: malloc fails, and the caller does not wait for the child.
InitDataFails(t) ==
  /\ At(t, "init_exit_data")
  /\ Return(t)
  /\ UNCHANGED <<status, births, loads, exits, fault>>

init_exit_data(t) ==
  /\ At(t, "init_exit_data")
  /\ IF Gone(child[t])
       THEN Fault("freed thread") /\ UNCHANGED <<at, exits>>
       ELSE /\ data' = [data EXCEPT ![child[t]] =
                          [NoData EXCEPT !.live = TRUE, !.father = t]]
            /\ hash_exit_data' = hash_exit_data \union {child[t]}
            /\ ch_exit_data' = [ch_exit_data EXCEPT ![t] = Append(@, child[t])]
            /\ Goto(t, "ch_load_sema")
            /\ UNCHANGED fault
  /\ UNCHANGED <<child, status, births, loads>>

\* Mutant: the parent does not wait for the child's report.
MutNoLoadWait(t) ==
  /\ At(t, "ch_load_sema")
  /\ ch_load_status' = [ch_load_status EXCEPT ![t] = "LOAD_READY"]
  /\ Return(t)
  /\ UNCHANGED <<status, births, ch_load_sema, exits, fault>>

\* What process_execute returns once it has the child's report.
ExecResult(t) ==
  IF ch_load_status[t] = "LOAD_SUCCESS" THEN child[t] ELSE TID_ERROR

\* The parent waits for the child to report, and takes the report.
ExecLoaded(t) ==
  /\ At(t, "ch_load_sema")
  /\ ch_load_sema[t] > 0
  /\ ch_load_sema' = [ch_load_sema EXCEPT ![t] = @ - 1]
  /\ IF ch_load_status[t] = "LOAD_READY"
       THEN Fault("assert") /\ UNCHANGED <<at, child, ch_load_status>>
       ELSE /\ Return(t)
            /\ ch_load_status' = [ch_load_status EXCEPT ![t] = "LOAD_READY"]
            /\ UNCHANGED fault
  /\ UNCHANGED <<status, births, exits>>

-------------------------------------------------------------------------------
(* start_process                                                             *)

\* load may or may not succeed: at[t] says which.
load(t) ==
  /\ At(t, "start")
  /\ \E s \in {"loaded", "not loaded"} : Goto(t, s)
  /\ UNCHANGED <<child, status, births, loads, exits, fault>>

\* The creator learns the outcome.
ReportLoad(t) ==
  /\ at[t] \in {"loaded", "not loaded"}
  /\ IF Gone(creator[t])
       THEN Fault("freed thread") /\ UNCHANGED <<at, ch_load_status>>
       ELSE /\ ch_load_status' =
                 [ch_load_status EXCEPT ![creator[t]] =
                    IF At(t, "loaded") THEN "LOAD_SUCCESS" ELSE "LOAD_FAIL"]
            /\ Goto(t, IF At(t, "loaded") THEN "post" ELSE "post and die")
            /\ UNCHANGED fault
  /\ UNCHANGED <<child, status, births, ch_load_sema, exits>>

\* It is woken up, and the child goes to user code or dies (thread_exit, not
\* process_exit).
PostLoad(t) ==
  /\ at[t] \in {"post", "post and die"}
  /\ IF Gone(creator[t])
       THEN Fault("freed thread") /\ UNCHANGED <<at, ch_load_sema>>
       ELSE /\ ch_load_sema' = [ch_load_sema EXCEPT ![creator[t]] = @ + 1]
            /\ Goto(t, IF At(t, "post") THEN "user" ELSE "thread_exit")
            /\ UNCHANGED fault
  /\ UNCHANGED <<child, status, births, ch_load_status, exits>>

-------------------------------------------------------------------------------
(* process_wait                                                              *)

FailedToLoad(c) ==
  at[c] \in {"not loaded", "post and die", "thread_exit", "failed"}

\* wait() is given any tid.  If tid_to_exit_data does not find it, -1 is
\* returned and nothing changes.
process_wait(t) ==
  /\ At(t, "user")
  /\ \E c \in hash_exit_data :
       /\ child' = [child EXCEPT ![t] = c]
       /\ Goto(t, "wait")
  /\ UNCHANGED <<status, births, loads, exits, fault>>

\* Mutant: a second wait for the same child is not refused.
MutWaitTwice(t) ==
  /\ At(t, "wait")
  /\ IF data[child[t]].father # t
       THEN Return(t)
       ELSE Goto(t, "die_sema") /\ UNCHANGED child
  /\ UNCHANGED <<status, births, loads, exits, fault>>

\* Mutant: anybody may wait for a process.
MutWaitAnybody(t) ==
  /\ At(t, "wait")
  /\ IF data[child[t]].called_process_wait
       THEN Return(t) /\ UNCHANGED data
       ELSE /\ data' = [data EXCEPT ![child[t]].called_process_wait = TRUE]
            /\ Goto(t, "die_sema")
            /\ UNCHANGED child
  /\ UNCHANGED <<status, births, loads, hash_exit_data, ch_exit_data, fault>>

\* Not a child, or already waited for: -1.  Otherwise t waits.
WaitChecks(t) ==
  /\ At(t, "wait")
  /\ LET d == data[child[t]] IN
       \/ ~d.live /\ Fault("freed data") /\ UNCHANGED <<at, child, data>>
       \/ /\ d.live
          /\ d.father # t \/ d.called_process_wait
          /\ Return(t)
          /\ UNCHANGED <<data, fault>>
       \/ /\ d.live
          /\ d.father = t /\ ~d.called_process_wait
          /\ data' = [data EXCEPT ![child[t]].called_process_wait = TRUE]
          /\ Goto(t, "die_sema")
          /\ UNCHANGED <<child, fault>>
  /\ UNCHANGED <<status, births, loads, hash_exit_data, ch_exit_data>>

\* What process_wait returns once the child has died.
WaitResult(t) == data[child[t]].exit_code

\* The child has died.  Its exit_data stays until the parent exits.
WaitDone(t) ==
  /\ At(t, "die_sema")
  /\ data[child[t]].die_sema > 0
  /\ data' = [data EXCEPT ![child[t]].die_sema = @ - 1]
  /\ Return(t)
  /\ UNCHANGED <<status, births, loads, hash_exit_data, ch_exit_data, fault>>

-------------------------------------------------------------------------------
(* process_exit, by exit() or by a fault the kernel kills the process for.   *)
(* Main never calls it.                                                      *)

\* tid_to_exit_data finds the process's own exit_data, or none.
process_exit(t) ==
  /\ At(t, "user") /\ t # Main
  /\ \E s \in Statuses : status' = [status EXCEPT ![t] = s]
  /\ Goto(t, IF t \in hash_exit_data THEN "exit" ELSE "orphan")
  /\ UNCHANGED <<child, births, loads, exits, fault>>

\* Mutant: the exit code is not stored.
MutNoCode(t) ==
  /\ At(t, "exit")
  /\ Goto(t, "raise")
  /\ UNCHANGED <<child, status, births, loads, exits, fault>>

\* The exit code is left in the exit_data found before, ...
ExitReport(t) ==
  /\ At(t, "exit")
  /\ IF data[t].live
       THEN /\ data' = [data EXCEPT ![t].exit_code = status[t]]
            /\ Goto(t, "raise")
            /\ UNCHANGED fault
       ELSE Fault("freed data") /\ UNCHANGED <<at, data>>
  /\ UNCHANGED <<child, status, births, loads, hash_exit_data, ch_exit_data>>

\* ... and the parent is woken.
ExitRaise(t) ==
  /\ At(t, "raise")
  /\ IF data[t].live
       THEN /\ data' = [data EXCEPT ![t].die_sema = @ + 1]
            /\ Goto(t, "orphan")
            /\ UNCHANGED fault
       ELSE Fault("freed data") /\ UNCHANGED <<at, data>>
  /\ UNCHANGED <<child, status, births, loads, hash_exit_data, ch_exit_data>>

\* destroy_exit_data of every child, one at a time.
destroy_exit_data(t) ==
  /\ At(t, "orphan")
  /\ ch_exit_data[t] # <<>>
  /\ LET c == Head(ch_exit_data[t]) IN
       /\ hash_exit_data' = hash_exit_data \ {c}
       /\ data' = [data EXCEPT ![c].live = FALSE]
  /\ ch_exit_data' = [ch_exit_data EXCEPT ![t] = Tail(@)]
  /\ UNCHANGED <<at, child, status, births, loads, fault>>

\* thread_exit, at the end of process_exit or after a failed load.
thread_exit(t) ==
  /\ \/ At(t, "orphan") /\ ch_exit_data[t] = <<>> /\ Goto(t, "dead")
     \/ At(t, "thread_exit") /\ Goto(t, "failed")
  /\ \E i \in DOMAIN all_list :
       /\ all_list[i] = t
       /\ all_list' = SubSeq(all_list, 1, i - 1) \o SubSeq(all_list, i + 1, Len(all_list))
  /\ UNCHANGED <<child, status, creator, loads, exits, fault>>

-------------------------------------------------------------------------------
\* palloc_get_page or malloc has nothing left.
NoMemory(t) == ExecNoThread(t) \/ InitDataFails(t)

Step(t) ==
  \/ ExecCreate(t) \/ tid_to_thread(t) \/ InheritCwd(t) \/ init_exit_data(t)
  \/ ExecLoaded(t) \/ load(t) \/ ReportLoad(t) \/ PostLoad(t)
  \/ process_wait(t) \/ WaitChecks(t) \/ WaitDone(t)
  \/ process_exit(t) \/ ExitReport(t) \/ ExitRaise(t) \/ destroy_exit_data(t) \/ thread_exit(t)

Next == fault = "none" /\ \E t \in Tids : Step(t) \/ NoMemory(t)

Spec == Init /\ [][Next]_vars

-------------------------------------------------------------------------------
(* Properties                                                                *)

Places == {"unborn", "user", "lookup", "inherit", "init_exit_data",
           "ch_load_sema", "start", "loaded", "not loaded", "post",
           "post and die", "wait", "die_sema", "exit", "raise", "orphan", "thread_exit",
           "dead", "failed"}

\* Types; the threads in all_list are those that exist, and die_sema is raised
\* at most once before it is taken.
TypeOK ==
  /\ at \in [Tids -> Places]
  /\ child \in [Tids -> Tids \union {NULL}]
  /\ status \in [Tids -> Codes]
  /\ creator \in [Tids -> Tids \union {NULL}]
  /\ ch_load_status \in [Tids -> {"LOAD_READY", "LOAD_SUCCESS", "LOAD_FAIL"}]
  /\ ch_load_sema \in [Tids -> Nat]
  /\ IsInjective(all_list) /\ Range(all_list) = {t \in Tids : ~Gone(t)}
  /\ hash_exit_data \subseteq Tids
  /\ data \in [Tids -> [live : BOOLEAN, father : Tids \union {NULL},
                        called_process_wait : BOOLEAN, exit_code : Codes,
                        die_sema : 0..1]]
  /\ fault \in {"none", "assert", "freed thread", "freed data"}

\* process_wait returns the very status its child gave to process_exit, and not
\* before the child has reported it.
WaitReturnsTruth ==
  \A t \in Tids :
    At(t, "die_sema") /\ at'[t] = "user" =>
      at[child[t]] \in {"orphan", "dead"} /\ WaitResult(t) = status[child[t]]

\* Nobody waits for a process that is dead without finding die_sema raised:
\* process_exit never fails to wake the parent, and a second wait is refused.
NoStuckWait ==
  \A t \in Tids :
    At(t, "die_sema") /\ Gone(child[t]) => data[child[t]].die_sema > 0

\* Nobody waits for a child to load that has made its report and gone on, or is
\* dead, without finding ch_load_sema raised.
NoStuckExec ==
  \A t \in Tids :
    At(t, "ch_load_sema") /\ at[child[t]] \notin {"start", "loaded", "not loaded", "post",
                                                 "post and die"}
      => ch_load_sema[t] > 0

\* process_execute returns only when the child has loaded or failed to load,
\* and returns its tid exactly when it has loaded.
ExecReturnsTruth ==
  \A t \in Tids :
    At(t, "ch_load_sema") /\ at'[t] = "user" =>
      /\ at[child[t]] \notin {"start", "loaded", "not loaded"}
      /\ ExecResult(t) = IF FailedToLoad(child[t]) THEN TID_ERROR ELSE child[t]

\* The hash table and the lists of children hold the same exit_data, all of it
\* live, each under a father who still exists: nothing leaks, and
\* process_wait's data->father->tid reads a live thread.  Only the
\* process that created a child waits for it, and the exit_data it waits on is
\* not freed under it.
ExitDataOwned ==
  /\ TypeOK
  /\ hash_exit_data = UNION {Range(ch_exit_data[t]) : t \in Tids}
  /\ hash_exit_data = {c \in Tids : data[c].live}
  /\ \A c \in hash_exit_data :
       /\ ~Gone(data[c].father)
       /\ c \in Range(ch_exit_data[data[c].father])
  /\ \A t \in Tids :
       At(t, "die_sema") => creator[child[t]] = t /\ data[child[t]].live

===============================================================================
