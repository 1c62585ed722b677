---------------------------- MODULE TaskManager -----------------------------
(***************************************************************************)
(* The end of a task: task_exit of kernel/core/task.c, the list of all     *)
(* tasks and the cleanup tasks of kernel/core/task_manager.c.  Every CPU   *)
(* has a cleanup task, and all of them look for dead tasks in the one list *)
(* of the task manager.                                                    *)
(***************************************************************************)
EXTENDS Scheduler

VARIABLES
    tasks,      \* TaskManager.tasks
    dead,       \* dead[c]: the local variable of the cleanup task of CPU c
    freed       \* the tasks whose stack and Task object were freed

lifeVars == <<tasks, dead, freed>>

ManagerInit ==
    /\ dead = [c \in Cpus |-> Null]
    /\ freed = {}

\* task_exit asks for a cleanup, ...
ExitFlag(c, t, from) ==
    /\ At(c, t, from)
    /\ needs_cleanup' = [needs_cleanup EXCEPT ![c] = TRUE]
    /\ Go(t, "exit_dead")
    /\ UNCHANGED <<taskVars, queueVars, current, needs_resched, next, left, now, exiting, cpu,
                   faults, lifeVars>>

\* ... marks the task dead under the lock of the task manager, ...
ExitDead(c, t) ==
    /\ At(c, t, "exit_dead")
    /\ state' = [state EXCEPT ![t] = "DEAD"]
    /\ Go(t, "exit_yield")
    /\ UNCHANGED <<waiting_on, sleep_until, queueVars, cpuVars, now, exiting, cpu, faults,
                   lifeVars>>

\* ... and leaves for good.
ExitYield(c, t) ==
    /\ At(c, t, "exit_yield")
    /\ CallSwitch(c, t, "gone")
    /\ UNCHANGED <<taskVars, queueVars, cpuVars, now, exiting, faults, lifeVars>>

-----------------------------------------------------------------------------
(* task_cleanup                                                            *)

\* task_manager_find_dead_task: the first dead task of the list.
FindDead(c) ==
    LET corpses == {i \in DOMAIN tasks : state[tasks[i]] = "DEAD"} IN
    /\ At(c, Cleanup[c], "find")
    /\ dead' = [dead EXCEPT ![c] = IF corpses = {} THEN Null ELSE tasks[Min(corpses)]]
    /\ Go(Cleanup[c], IF corpses = {} THEN "clear" ELSE "remove")
    /\ UNCHANGED <<taskVars, queueVars, cpuVars, now, exiting, cpu, faults, tasks, freed>>

ClearCleanup(c) ==
    /\ At(c, Cleanup[c], "clear")
    /\ needs_cleanup' = [needs_cleanup EXCEPT ![c] = FALSE]
    /\ Go(Cleanup[c], "rest")
    /\ UNCHANGED <<taskVars, queueVars, current, needs_resched, next, left, now, exiting, cpu,
                   faults, lifeVars>>

CleanupYield(c) ==
    /\ At(c, Cleanup[c], "rest")
    /\ CallSwitch(c, Cleanup[c], "find")
    /\ UNCHANGED <<taskVars, queueVars, cpuVars, now, exiting, faults, lifeVars>>

\* intrusivelist_remove of the node of t: a node that is in no list any more
\* has null links, and unlinking it again empties the list.
Unlink(list, t) ==
    IF Contains(list, t) THEN RemoveAt(list, CHOOSE i \in DOMAIN list : list[i] = t) ELSE <<>>

\* The stack CPU c executes on.
StackOf(c) == IF cpu[c] = "ctx" THEN left[c] ELSE current[c]

\* The node of t in the queue has neighbours.
Linked(queue, t) == Contains(queue, t) /\ Len(queue) > 1

\* Mutant: the dead task stays in the list of the task manager.
MutRemoveDead(c, to) ==
    LET t == dead[c] IN
    /\ At(c, Cleanup[c], "remove")
    /\ Go(Cleanup[c], to)
    /\ faults' = faults \cup (IF t \in freed THEN {"freed task used"} ELSE {})
    /\ UNCHANGED <<taskVars, queueVars, cpuVars, now, exiting, cpu, lifeVars>>

\* The assertions on the dead task, then task_manager_remove_task.
RemoveDead(c, to) ==
    LET t == dead[c]
        waits == waiting_on[t] # Null \/ Linked(sleeping[Home[t]], t)
                                     \/ Linked(runnable[Home[t]], t) IN
    /\ At(c, Cleanup[c], "remove")
    /\ \/ /\ waits
          /\ Panic(c, "dead task is still waiting on")
          /\ UNCHANGED <<tasks, pc>>
       \/ /\ ~waits
          /\ tasks' = Unlink(tasks, t)
          /\ Go(Cleanup[c], to)
          /\ faults' = faults \cup (IF t \in freed THEN {"freed task used"} ELSE {})
          /\ UNCHANGED cpu
    /\ UNCHANGED <<taskVars, queueVars, cpuVars, now, exiting, dead, freed>>

\* task_destroy frees the stack and the Task object.
DestroyDead(c) ==
    LET t == dead[c] IN
    /\ At(c, Cleanup[c], "destroy")
    /\ freed' = freed \cup {t}
    /\ faults' = faults \cup
          (IF t \in freed THEN {"task freed twice"} ELSE {}) \cup
          (IF \E d \in Cpus : cpu[d] # "halted" /\ StackOf(d) = t
           THEN {"stack freed in use"} ELSE {})
    /\ dead' = [dead EXCEPT ![c] = Null]
    /\ Go(Cleanup[c], "find")
    /\ UNCHANGED <<taskVars, queueVars, cpuVars, now, exiting, cpu, tasks>>

MemoryFaults == {"freed task used", "task freed twice", "stack freed in use"}

=============================================================================
