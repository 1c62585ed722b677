----------------------------- MODULE Scheduler ------------------------------
(***************************************************************************)
(* The scheduler core of kernel/sched/scheduler.c with the run queues and  *)
(* the timer interrupt that drives it: scheduler_switch, its policy, the   *)
(* sleep queue, preemption and the operations by which one CPU wakes a     *)
(* task of another.  Modules that extend this one add the code the tasks   *)
(* run: TaskLife, Mutex and the others.                                    *)
(*                                                                         *)
(* A critical section under a spin lock is one step (SpinLock proves that  *)
(* it excludes other contexts and is not interrupted).  What happens       *)
(* between two critical sections, and every unlocked read or write that    *)
(* another CPU can see, is a step of its own.  A failed ASSERT halts the   *)
(* CPU that evaluates it: panic executes brk, whose handler never returns. *)
(***************************************************************************)
EXTENDS Naturals, Sequences, FiniteSets, SequencesExt

CONSTANTS Cpus,          \* the CPUs
          Tasks,         \* the tasks the task manager creates
          Home,          \* Home[t]: the CPU of task t (Task.cpu), never changed
          Idle,          \* Idle[c]: the idle task of CPU c
          Cleanup,       \* Cleanup[c]: the cleanup task of CPU c
          Null,          \* nullptr
          MaxTime        \* bound: the last value of the timer counter

AllTasks == DOMAIN Home

ASSUME SchedAssumption ==
    /\ Cpus \subseteq Nat /\ MaxTime \in Nat
    /\ Home \in [AllTasks -> Cpus]
    /\ Idle \in [Cpus -> AllTasks] /\ Cleanup \in [Cpus -> AllTasks]
    /\ \A c \in Cpus : Home[Idle[c]] = c /\ Home[Cleanup[c]] = c /\ Idle[c] # Cleanup[c]
    /\ Tasks = AllTasks \ UNION {{Idle[c], Cleanup[c]} : c \in Cpus}
    /\ Null \notin AllTasks

VARIABLES
    state,          \* Task.state, or "NONE" for a task not created yet
    waiting_on,     \* Task.waiting_on: the wait queue a task is in, or Null
    sleep_until,    \* Task.sleep_until
    runnable,       \* Cpu.runnable_tasks
    sleeping,       \* Cpu.sleeping_tasks
    current,        \* Cpu.current
    needs_resched,  \* Cpu.needs_resched
    needs_cleanup,  \* Cpu.needs_cleanup
    now,            \* the timer's counter
    exiting,        \* the tasks whose process has Process.exiting set
    cpu,            \* what a CPU executes: a task, or a point of scheduler_switch
    next,           \* the local variable of scheduler_switch: the task picked, or Null
    left,           \* the task whose stack a CPU uses until context_switch ends
    pc,             \* the point of its own code a task is at
    faults          \* the assertions that have failed, and misuses of freed memory

taskVars  == <<state, waiting_on, sleep_until>>
queueVars == <<runnable, sleeping>>
cpuVars   == <<current, needs_resched, needs_cleanup, next, left>>
schedVars == <<taskVars, queueVars, cpuVars, now, exiting, cpu, pc, faults>>

SleepQueue == "sleeping_tasks"

CpuPoints == {"boot", "run", "enter", "pick", "loop", "check", "commit", "ctx", "halted"}

-----------------------------------------------------------------------------
(* Helpers                                                                 *)

\* Task t executes its own code on CPU c.
Runs(c, t) == cpu[c] = "run" /\ current[c] = t

\* Task t executes on CPU c and is at the given point of its code.
At(c, t, point) == Runs(c, t) /\ pc[t] = point

Go(t, to) == pc' = [pc EXCEPT ![t] = to]

\* ASSERT fails: the CPU stops for good.
Panic(c, why) ==
    /\ cpu' = [cpu EXCEPT ![c] = "halted"]
    /\ faults' = faults \cup {why}

\* A call of scheduler_switch by the running task, which continues at to.
CallSwitch(c, t, to) ==
    /\ cpu' = [cpu EXCEPT ![c] = "enter"]
    /\ pc' = [pc EXCEPT ![t] = to]

\* scheduler_pick_cpu: the first CPU with the shortest run queue.
PickCpu ==
    LET least == {c \in Cpus : \A d \in Cpus : Len(runnable[c]) <= Len(runnable[d])}
    IN  Min(least)

\* runqueue_enqueue
RunqueueEnqueue(c, t) == runnable' = [runnable EXCEPT ![c] = Append(@, t)]

\* scheduler_enqueue of a task that task_init has just made READY and waiting
\* for nothing, as its assertions ask for.
EnqueueNew(t) ==
    /\ state' = [state EXCEPT ![t] = "READY"]
    /\ RunqueueEnqueue(Home[t], t)

\* Mutant: the woken task is queued on the CPU of the waker.
MutWake(c, t) ==
    /\ state' = [state EXCEPT ![t] = "READY"]
    /\ RunqueueEnqueue(c, t)
    /\ UNCHANGED <<cpu, faults>>

\* scheduler_wake_blocked and scheduler_enqueue, executed by CPU c for task t.
\* The assertions of the second are about what those of the first leave.
Wake(c, t) ==
    \/ /\ state[t] = "BLOCKED" /\ waiting_on[t] = Null
       /\ state' = [state EXCEPT ![t] = "READY"]
       /\ RunqueueEnqueue(Home[t], t)
       /\ UNCHANGED <<cpu, faults>>
    \/ /\ state[t] # "BLOCKED" \/ waiting_on[t] # Null
       /\ Panic(c, "wake of a task that is not blocked")
       /\ UNCHANGED <<state, runnable>>

\* Mutant: sleepers are appended, as in any other wait queue.
MutInsertSorted(queue, t, deadline) == Append(queue, t)

\* intrusivelist_insert_sorted with task_comparator_sleep_until: before the
\* first sleeper with a later deadline.
InsertSorted(queue, t, deadline) ==
    LET later == {i \in DOMAIN queue : sleep_until[queue[i]] > deadline}
    IN  InsertAt(queue, IF later = {} THEN Len(queue) + 1 ELSE Min(later), t)

-----------------------------------------------------------------------------
(* scheduler_switch                                                        *)

\* The assertion scheduler_switch fails for the task p it leaves, if any.
LeaveFault(p) ==
    CASE p = Null -> "none"
      [] p # Null /\ state[p] = "BLOCKED" /\ waiting_on[p] = Null ->
            "blocked task has nothing waiting on"
      [] p # Null /\ state[p] = "READY" /\ waiting_on[p] # Null ->
            "ready task is waiting on a wait queue"
      [] p \in Tasks /\ state[p] = "RUNNING" /\ waiting_on[p] # Null ->
            "running task is waiting on a wait queue"
      [] OTHER -> "none"

\* Mutant: the idle and the cleanup task return to the run queue as well.
MutSwitchEnter(c) ==
    LET p == current[c]
        requeue == p # Null /\ state[p] = "RUNNING" IN
    /\ cpu[c] = "enter" /\ LeaveFault(p) = "none"
    /\ cpu' = [cpu EXCEPT ![c] = "pick"]
    /\ state' = IF requeue THEN [state EXCEPT ![p] = "READY"] ELSE state
    /\ runnable' = IF requeue THEN [runnable EXCEPT ![c] = Append(@, p)] ELSE runnable
    /\ UNCHANGED <<faults, waiting_on, sleep_until, sleeping, cpuVars, now, exiting, pc>>

\* The checks on the task that leaves, which returns to the run queue if it
\* can still run.
SwitchEnter(c) ==
    LET p == current[c]
        requeue == p \in Tasks /\ state[p] = "RUNNING" IN
    /\ cpu[c] = "enter"
    /\ \/ /\ LeaveFault(p) # "none"
          /\ Panic(c, LeaveFault(p))
          /\ UNCHANGED <<state, runnable>>
       \/ /\ LeaveFault(p) = "none"
          /\ cpu' = [cpu EXCEPT ![c] = "pick"]
          /\ state' = IF requeue THEN [state EXCEPT ![p] = "READY"] ELSE state
          /\ runnable' = IF requeue THEN [runnable EXCEPT ![c] = Append(@, p)] ELSE runnable
          /\ UNCHANGED faults
    /\ UNCHANGED <<waiting_on, sleep_until, sleeping, cpuVars, now, exiting, pc>>

\* The pick of task n, where queue is the run queue of the CPU after it.
Pick(c, n, queue, to) ==
    /\ next' = [next EXCEPT ![c] = n]
    /\ runnable' = [runnable EXCEPT ![c] = queue]
    /\ cpu' = [cpu EXCEPT ![c] = to]
    /\ UNCHANGED <<taskVars, sleeping, current, needs_resched, needs_cleanup, left, now, exiting,
                   pc, faults>>

\* scheduler_pick_next: the cleanup task goes first.
PickCleanup(c) ==
    /\ cpu[c] = "pick" /\ needs_cleanup[c]
    /\ Pick(c, Cleanup[c], runnable[c], "commit")

\* The loop of scheduler_pick_next, which does not look at needs_cleanup again.
Picking(c) == cpu[c] = "loop" \/ (cpu[c] = "pick" /\ ~needs_cleanup[c])

PickIdle(c) ==
    /\ Picking(c) /\ runnable[c] = <<>>
    /\ Pick(c, Idle[c], runnable[c], "commit")

\* Mutant: the policy peeks at the first task and leaves it in the queue.
MutPickPeek(c) ==
    /\ Picking(c) /\ runnable[c] # <<>>
    /\ Pick(c, Head(runnable[c]), runnable[c], "check")

\* Mutant: the policy takes the task queued last.
MutPickLast(c) ==
    /\ Picking(c) /\ runnable[c] # <<>>
    /\ Pick(c, Last(runnable[c]), Front(runnable[c]), "check")

\* scheduler_policy_pick_next, under the lock of the run queue.
PickFirst(c) ==
    /\ Picking(c) /\ runnable[c] # <<>>
    /\ Pick(c, Head(runnable[c]), Tail(runnable[c]), "check")

\* is_task_process_exiting says no, and the task will be switched to, whatever
\* another CPU does to its process from now on.
CheckLive(c) ==
    /\ cpu[c] = "check" /\ next[c] \notin exiting
    /\ cpu' = [cpu EXCEPT ![c] = "commit"]
    /\ UNCHANGED <<taskVars, queueVars, cpuVars, now, exiting, pc, faults>>

\* Mutant: the policy does not ask whether the process is exiting.
MutCheckExiting(c) ==
    /\ cpu[c] = "check" /\ next[c] \in exiting
    /\ cpu' = [cpu EXCEPT ![c] = "commit"]
    /\ UNCHANGED <<taskVars, queueVars, cpuVars, now, exiting, pc, faults>>

\* The task picked belongs to a process that is exiting: it dies here.
CheckExiting(c) ==
    /\ cpu[c] = "check" /\ next[c] \in exiting
    /\ state' = [state EXCEPT ![next[c]] = "DEAD"]
    /\ needs_cleanup' = [needs_cleanup EXCEPT ![c] = TRUE]
    /\ next' = [next EXCEPT ![c] = Null]
    /\ cpu' = [cpu EXCEPT ![c] = "loop"]
    /\ UNCHANGED <<waiting_on, sleep_until, queueVars, current, needs_resched, left,
                   now, exiting, pc, faults>>

\* The assertions on the task that was picked, which becomes the current one.
SwitchTo(c) ==
    LET n == next[c] IN
    /\ cpu[c] = "commit"
    /\ next' = [next EXCEPT ![c] = Null]
    /\ \/ /\ waiting_on[n] = Null /\ (n \in Tasks => state[n] = "READY")
          /\ state' = [state EXCEPT ![n] = "RUNNING"]
          /\ current' = [current EXCEPT ![c] = n]
          /\ left' = [left EXCEPT ![c] = IF current[c] = n THEN Null ELSE current[c]]
          /\ cpu' = [cpu EXCEPT ![c] = IF current[c] = n THEN "run" ELSE "ctx"]
          /\ UNCHANGED faults
       \/ /\ waiting_on[n] # Null \/ (n \in Tasks /\ state[n] # "READY")
          /\ Panic(c, "scheduler selected a task that is not ready")
          /\ UNCHANGED <<state, current, left>>
    /\ UNCHANGED <<waiting_on, sleep_until, queueVars, needs_resched, needs_cleanup, now, exiting, pc>>

\* switch_address_space and context_switch: the CPU leaves the old stack.
ContextSwitch(c) ==
    /\ cpu[c] = "ctx" /\ left[c] # Null
    /\ cpu' = [cpu EXCEPT ![c] = "run"]
    /\ left' = [left EXCEPT ![c] = Null]
    /\ UNCHANGED <<taskVars, queueVars, current, needs_resched, needs_cleanup, next, now,
                   exiting, pc, faults>>

\* The first switch of a CPU leaves the boot stack, and asserts that the idle
\* task was not picked over a runnable one.
BootContextSwitch(c) ==
    /\ cpu[c] = "ctx" /\ left[c] = Null
    /\ \/ /\ current[c] = Idle[c] /\ runnable[c] # <<>>
          /\ Panic(c, "idle selected while runnable task exists")
       \/ /\ current[c] # Idle[c] \/ runnable[c] = <<>>
          /\ cpu' = [cpu EXCEPT ![c] = "run"]
          /\ UNCHANGED faults
    /\ UNCHANGED <<taskVars, queueVars, cpuVars, now, exiting, pc>>

-----------------------------------------------------------------------------
(* The timer                                                               *)

\* The sleepers of CPU c whose deadline has passed: a prefix of the queue, up
\* to the first sleeper that is not due.
Due(c) ==
    LET late == {i \in DOMAIN sleeping[c] : now < sleep_until[sleeping[c][i]]}
    IN  IF late = {} THEN sleeping[c] ELSE SubSeq(sleeping[c], 1, Min(late) - 1)

\* Mutant: the sleepers are made ready but not queued to run.
MutTimerIrq(c) ==
    LET due == Due(c) IN
    /\ cpu[c] \in {"boot", "run"}
    /\ sleeping' = [sleeping EXCEPT ![c] = SubSeq(@, Len(due) + 1, Len(@))]
    /\ waiting_on' = [t \in AllTasks |-> IF Contains(due, t) THEN Null ELSE waiting_on[t]]
    /\ sleep_until' = [t \in AllTasks |-> IF Contains(due, t) THEN 0 ELSE sleep_until[t]]
    /\ state' = [t \in AllTasks |-> IF Contains(due, t) THEN "READY" ELSE state[t]]
    /\ needs_resched' = [needs_resched EXCEPT ![c] = current[c] = Null]
    /\ cpu' = [cpu EXCEPT ![c] = IF current[c] = Null THEN "boot" ELSE "enter"]
    /\ UNCHANGED <<faults, runnable, current, needs_cleanup, next, left, now, exiting, pc>>

\* timer_tick on CPU c, from irq_handle: mark the CPU, wake the due sleepers
\* (scheduler_wake_sleepers) and, unless the CPU has no task yet, preempt.
TimerIrq(c) ==
    LET due == Due(c) IN
    /\ cpu[c] \in {"boot", "run"}
    /\ sleeping' = [sleeping EXCEPT ![c] = SubSeq(@, Len(due) + 1, Len(@))]
    /\ waiting_on' = [t \in AllTasks |-> IF Contains(due, t) THEN Null ELSE waiting_on[t]]
    /\ sleep_until' = [t \in AllTasks |-> IF Contains(due, t) THEN 0 ELSE sleep_until[t]]
    /\ \/ /\ \A t \in ToSet(due) : state[t] = "BLOCKED"
          /\ state' = [t \in AllTasks |-> IF Contains(due, t) THEN "READY" ELSE state[t]]
          /\ runnable' = [runnable EXCEPT ![c] = @ \o due]
          /\ needs_resched' = [needs_resched EXCEPT ![c] = current[c] = Null]
          /\ cpu' = [cpu EXCEPT ![c] = IF current[c] = Null THEN "boot" ELSE "enter"]
          /\ UNCHANGED faults
       \/ /\ \E t \in ToSet(due) : state[t] # "BLOCKED"
          /\ Panic(c, "wake of a task that is not blocked")
          /\ UNCHANGED <<state, runnable, needs_resched>>
    /\ UNCHANGED <<current, needs_cleanup, next, left, now, exiting, pc>>

\* The counter of the generic timer advances.
Tick ==
    /\ now < MaxTime
    /\ now' = now + 1
    /\ UNCHANGED <<taskVars, queueVars, cpuVars, exiting, cpu, pc, faults>>

-----------------------------------------------------------------------------
(* Boot, the idle task and voluntary calls                                 *)

\* kernel_main and init_secondary_cpu end in the first scheduler_switch.
BootSwitch(c) ==
    /\ cpu[c] = "boot"
    /\ cpu' = [cpu EXCEPT ![c] = "enter"]
    /\ UNCHANGED <<taskVars, queueVars, cpuVars, now, exiting, pc, faults>>

\* task_idle yields when its CPU has runnable tasks.
IdleYield(c) ==
    /\ Runs(c, Idle[c])
    /\ runnable[c] # <<>>
    /\ CallSwitch(c, Idle[c], "idle")
    /\ UNCHANGED <<taskVars, queueVars, cpuVars, now, exiting, faults>>

\* Mutant: the sleeper does not record the queue it waits in.
MutSleepCurrent(c, t, ticks, to) ==
    LET deadline == now + ticks IN
    /\ Runs(c, t) /\ deadline <= MaxTime
    /\ sleep_until' = [sleep_until EXCEPT ![t] = deadline]
    /\ sleeping' = [sleeping EXCEPT ![c] = InsertSorted(@, t, deadline)]
    /\ state' = [state EXCEPT ![t] = "BLOCKED"]
    /\ pc' = [pc EXCEPT ![t] = to]
    /\ UNCHANGED <<waiting_on, runnable, cpuVars, now, exiting, cpu, faults>>

\* The assertions and the critical section of scheduler_sleep_current; the
\* switch follows once its lock is released, and an interrupt may come first.
SleepCurrent(c, t, ticks, to) ==
    LET deadline == now + ticks
        sound == t # Idle[c] /\ Home[t] = c /\ state[t] = "RUNNING" IN
    /\ Runs(c, t) /\ deadline <= MaxTime
    /\ \/ /\ sound
          /\ sleep_until' = [sleep_until EXCEPT ![t] = deadline]
          /\ sleeping' = [sleeping EXCEPT ![c] = InsertSorted(@, t, deadline)]
          /\ waiting_on' = [waiting_on EXCEPT ![t] = SleepQueue]
          /\ state' = [state EXCEPT ![t] = "BLOCKED"]
          /\ pc' = [pc EXCEPT ![t] = to]
          /\ UNCHANGED <<cpu, faults>>
       \/ /\ ~sound
          /\ Panic(c, "only a running task of the CPU can sleep")
          /\ UNCHANGED <<sleep_until, sleeping, waiting_on, state, pc>>
    /\ UNCHANGED <<runnable, cpuVars, now, exiting>>

\* No CPU has switched to its first task; the tasks in created are queued.
SchedInit(created) ==
    /\ state = [t \in AllTasks |-> IF t \in Tasks \ created THEN "NONE" ELSE "READY"]
    /\ waiting_on = [t \in AllTasks |-> Null]
    /\ sleep_until = [t \in AllTasks |-> 0]
    /\ runnable \in [Cpus -> UNION {SetToSeqs({t \in created : Home[t] = c}) : c \in Cpus}]
    /\ \A c \in Cpus : ToSet(runnable[c]) = {t \in created : Home[t] = c}
    /\ sleeping = [c \in Cpus |-> <<>>]
    /\ current = [c \in Cpus |-> Null]
    /\ needs_resched = [c \in Cpus |-> FALSE]
    /\ needs_cleanup = [c \in Cpus |-> FALSE]
    /\ now = 0
    /\ exiting = {}
    /\ cpu = [c \in Cpus |-> "boot"]
    /\ next = [c \in Cpus |-> Null]
    /\ left = [c \in Cpus |-> Null]
    /\ faults = {}

\* A step of scheduler_switch on CPU c.
SwitchStep(c) ==
    \/ SwitchEnter(c) \/ PickCleanup(c) \/ PickIdle(c) \/ PickFirst(c)
    \/ CheckLive(c) \/ CheckExiting(c) \/ SwitchTo(c)
    \/ ContextSwitch(c) \/ BootContextSwitch(c)

=============================================================================
