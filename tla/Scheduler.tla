----------------------------- MODULE Scheduler -----------------------------
(***************************************************************************)
(* createtask (kernel/scheduler/task.c) and dotask, is_function_valid      *)
(* (scheduler.c): a pool of tasks, linked in the order of their creation,  *)
(* of which dotask runs the PRIORITY ones first and then, in ROUNDS rounds *)
(* at most, one of the others each.  No interrupt handler touches the      *)
(* pool, so the actions are the two halves of a round.                     *)
(***************************************************************************)
EXTENDS Integers

CONSTANTS
  POOL,     \* entries of TaskPool (64)
  ROUNDS    \* of the loop in dotask (10)

ASSUME RoundsAssumption == POOL \in Nat /\ ROUNDS \in 1 .. POOL

\* A task's function is 0, in FunctionList, or another one.  The levels are
\* those of ENUM_TASK; an entry never used has level 0, which is RUNNING.
Functions == {"null", "listed", "unlisted"}
Levels    == {"RUNNING", "READY", "WAITING", "TERMINATED", "PRIORITY"}
Unused    == [Task |-> "RUNNING", function |-> "null"]
NULL      == POOL
Entries   == 0 .. POOL - 1

VARIABLES
  TaskPool, TaskCount,
  pc, i, CurrentTask,  \* dotask
  runs                 \* history: how often dotask has run each task

vars == <<TaskPool, TaskCount, pc, i, CurrentTask, runs>>

Init ==
  /\ TaskPool = [t \in Entries |-> Unused] /\ TaskCount = 0
  /\ pc = "idle" /\ i = 0 /\ CurrentTask = 0
  /\ runs = [t \in Entries |-> 0]

createtask(function, level) ==
  /\ pc = "idle"
  /\ TaskCount < POOL
  /\ TaskPool' = [TaskPool EXCEPT ![TaskCount] = [Task |-> level, function |-> function]]
  /\ TaskCount' = TaskCount + 1
  /\ UNCHANGED <<pc, i, CurrentTask, runs>>

\* (Mutant: the task created last is not linked.)
NextOfUnlinked(t) == IF t + 2 < TaskCount THEN t + 1 ELSE NULL
NextOf(t) == IF t + 1 < TaskCount THEN t + 1 ELSE NULL

is_function_valid(t) == TaskPool[t].function = "listed"

dotask ==
  /\ pc = "idle"
  /\ pc' = "scan" /\ i' = 0 /\ CurrentTask' = 0
  /\ runs' = [t \in Entries |-> 0]
  /\ UNCHANGED <<TaskPool, TaskCount>>

(***************************************************************************)
(* The scan for PRIORITY tasks.  A task without a function stays as it is; *)
(* for the others it is CurrentTask's function that is looked up, and they *)
(* run twice or not at all, and end up TERMINATED.                         *)
(***************************************************************************)
\* (Mutant: the last task is not looked at.)
UrgentButLast ==
  {t \in 0 .. TaskCount - 2 : TaskPool[t].Task = "PRIORITY" /\ TaskPool[t].function # "null"}
Urgent ==
  {t \in 0 .. TaskCount - 1 : TaskPool[t].Task = "PRIORITY" /\ TaskPool[t].function # "null"}

Scan ==
  /\ pc = "scan"
  /\ TaskPool' = [t \in Entries |->
       IF t \in Urgent THEN [TaskPool[t] EXCEPT !.Task = "TERMINATED"] ELSE TaskPool[t]]
  /\ IF Urgent # {} /\ ~is_function_valid(CurrentTask)
     THEN UNCHANGED runs
     ELSE runs' = [t \in Entries |-> runs[t] + (IF t \in Urgent THEN 2 ELSE 0)]
  /\ pc' = "task"
  /\ UNCHANGED <<TaskCount, i, CurrentTask>>

(***************************************************************************)
(* The rest of the round                                                   *)
(***************************************************************************)
NoTask == TaskPool[i].Task = "RUNNING"

Break ==
  /\ pc = "task"
  /\ NoTask
  /\ pc' = "idle"
  /\ UNCHANGED <<TaskPool, TaskCount, i, CurrentTask, runs>>

NextRound ==
  /\ i' = i + 1
  /\ pc' = IF i + 1 < ROUNDS THEN "scan" ELSE "idle"

Skipped(t) == TaskPool[t].Task = "TERMINATED" \/ TaskPool[t].function = "null"

Continue ==
  /\ pc = "task"
  /\ ~NoTask
  /\ Skipped(CurrentTask)
  /\ NextRound
  /\ UNCHANGED <<TaskPool, TaskCount, CurrentTask, runs>>

\* (Mutant: a task that has run stays the current one.)
RunWithoutAdvance ==
  /\ pc = "task"
  /\ ~NoTask
  /\ ~Skipped(CurrentTask)
  /\ runs' = IF is_function_valid(CurrentTask)
             THEN [runs EXCEPT ![CurrentTask] = @ + 1] ELSE runs
  /\ NextRound
  /\ UNCHANGED <<TaskPool, TaskCount, CurrentTask>>

Run ==
  /\ pc = "task"
  /\ ~NoTask
  /\ ~Skipped(CurrentTask)
  /\ runs' = IF is_function_valid(CurrentTask)
             THEN [runs EXCEPT ![CurrentTask] = @ + 1] ELSE runs
  /\ CurrentTask' = NextOf(CurrentTask)
  /\ NextRound
  /\ UNCHANGED <<TaskPool, TaskCount>>

Next ==
  \/ \E f \in Functions, l \in Levels : createtask(f, l)
  \/ dotask \/ Scan \/ Break \/ Continue \/ Run

Spec == Init /\ [][Next]_vars

(***************************************************************************)
(* What is promised                                                        *)
(***************************************************************************)
\* Types; a round looks only at entries of the pool.
TypeOK ==
  /\ TaskPool \in [Entries -> [Task : Levels, function : Functions]]
  /\ TaskCount \in 0 .. POOL
  /\ pc \in {"idle", "scan", "task"}
  /\ i \in 0 .. ROUNDS /\ (pc # "idle" => i < ROUNDS)
  /\ CurrentTask \in Entries \cup {NULL}
  /\ runs \in [Entries -> Nat]

\* The end of the list is never followed: when CurrentTask has become NULL,
\* no PRIORITY task is left to look it up for, and the round's entry is the
\* unused one that ends the loop.
NullNotFollowed ==
  CurrentTask = NULL =>
     /\ pc = "scan" => Urgent = {}
     /\ pc = "task" => NoTask

\* A dotask runs a task once, or twice when it was a PRIORITY one; never both.
RunsBounded ==
  \A t \in Entries : runs[t] <= (IF TaskPool[t].Task = "TERMINATED" THEN 2 ELSE 1)

\* No other task runs while a PRIORITY task that has a function waits.
PriorityFirst ==
  [][\A t \in Entries :
       runs'[t] > runs[t] /\ TaskPool[t].Task # "PRIORITY" =>
         \A u \in 0 .. TaskCount - 1 :
           TaskPool[u].Task = "PRIORITY" => TaskPool[u].function = "null"]_vars
=============================================================================
