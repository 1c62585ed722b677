------------------------------ MODULE TaskLife ------------------------------
(***************************************************************************)
(* The life of a kernel task: created and queued (task_manager_create and  *)
(* scheduler_enqueue), running, yielding, sleeping and preempted under the *)
(* scheduler, exiting (task_exit), and reclaimed by a cleanup task         *)
(* (task_cleanup).                                                         *)
(***************************************************************************)
EXTENDS TaskManager

CONSTANTS BootCpu,       \* the CPU that runs kernel_main
          SleepTimes     \* the delays, in timer ticks, tasks sleep for

ASSUME BootAssumption == BootCpu \in Cpus /\ SleepTimes \subseteq Nat /\ Null # SleepQueue

vars == <<schedVars, lifeVars>>

Init ==
    /\ SchedInit({})
    /\ pc = [t \in AllTasks |-> IF t \in Tasks THEN "body"
                                ELSE IF \E c \in Cpus : t = Idle[c] THEN "idle" ELSE "find"]
    /\ tasks = <<>>
    /\ ManagerInit

-----------------------------------------------------------------------------
(* What tasks do                                                           *)

\* The boot code or a running task creates t, on the CPU the scheduler picks,
\* and queues it.
Create(c, t) ==
    /\ \/ c = BootCpu /\ cpu[c] = "boot"
       \/ \E u \in Tasks : At(c, u, "body")
    /\ state[t] = "NONE" /\ Home[t] = PickCpu
    /\ EnqueueNew(t)
    /\ tasks' = Append(tasks, t)
    /\ UNCHANGED <<waiting_on, sleep_until, sleeping, cpuVars, now, exiting, cpu, pc,
                   faults, dead, freed>>

Yield(c, t) ==
    /\ At(c, t, "body")
    /\ CallSwitch(c, t, "body")
    /\ UNCHANGED <<taskVars, queueVars, cpuVars, now, exiting, faults, lifeVars>>

Sleep(c, t) ==
    /\ pc[t] = "body"
    /\ \E ticks \in SleepTimes : SleepCurrent(c, t, ticks, "sleep_switch")
    /\ UNCHANGED lifeVars

SleepSwitch(c, t) ==
    /\ At(c, t, "sleep_switch")
    /\ CallSwitch(c, t, "body")
    /\ UNCHANGED <<taskVars, queueVars, cpuVars, now, exiting, faults, lifeVars>>

-----------------------------------------------------------------------------
CleanupStep(c) ==
    FindDead(c) \/ ClearCleanup(c) \/ CleanupYield(c) \/ RemoveDead(c, "destroy") \/ DestroyDead(c)

SchedStep(c) ==
    /\ SwitchStep(c) \/ TimerIrq(c) \/ BootSwitch(c) \/ IdleYield(c)
    /\ UNCHANGED lifeVars

TaskStep(c, t) ==
    Yield(c, t) \/ Sleep(c, t) \/ SleepSwitch(c, t) \/ ExitFlag(c, t, "body") \/ ExitDead(c, t) \/ ExitYield(c, t)

\* After a use of freed memory the program means nothing any more: the model
\* stops there.
Next ==
    /\ faults \cap MemoryFaults = {}
    /\ \/ \E c \in Cpus : SchedStep(c) \/ CleanupStep(c)
       \/ \E c \in Cpus, t \in Tasks : Create(c, t) \/ TaskStep(c, t)
       \/ Tick /\ UNCHANGED lifeVars

\* A CPU that is not halted keeps executing: scheduler_switch, the idle and
\* the cleanup task and the code between a call and its switch all go on.  A
\* task may stay in its own code for ever.  The timer's interrupt stays
\* pending while interrupts are masked, so it is taken if they are enabled
\* again and again.
Fairness ==
    /\ WF_vars(Tick /\ UNCHANGED lifeVars)
    /\ \A c \in Cpus :
        /\ WF_vars(SwitchStep(c) /\ UNCHANGED lifeVars)
        /\ WF_vars(BootSwitch(c) /\ UNCHANGED lifeVars)
        /\ WF_vars(IdleYield(c) /\ UNCHANGED lifeVars)
        /\ SF_vars(TimerIrq(c) /\ UNCHANGED lifeVars)
        /\ SF_vars(CleanupStep(c))
        /\ \A t \in Tasks : SF_vars(SleepSwitch(c, t) \/ ExitDead(c, t) \/ ExitYield(c, t))

Spec == Init /\ [][Next]_vars
FairSpec == Spec /\ Fairness

-----------------------------------------------------------------------------
(* Properties                                                              *)

\* Every variable keeps its type.
TypeOK ==
    /\ state \in [AllTasks -> {"NONE", "READY", "RUNNING", "BLOCKED", "DEAD"}]
    /\ waiting_on \in [AllTasks -> {Null, SleepQueue}]
    /\ sleep_until \in [AllTasks -> 0..MaxTime]
    /\ runnable \in [Cpus -> Seq(Tasks)] /\ sleeping \in [Cpus -> Seq(Tasks)]
    /\ current \in [Cpus -> AllTasks \cup {Null}]
    /\ next \in [Cpus -> AllTasks \cup {Null}] /\ left \in [Cpus -> AllTasks \cup {Null}]
    /\ cpu \in [Cpus -> CpuPoints]
    /\ tasks \in Seq(Tasks)
    /\ dead \in [Cpus -> Tasks \cup {Null}]

\* A task is where its state says, and only there: ready tasks once in the run
\* queue of their CPU (and in no other) or picked from it and not yet switched
\* to, blocked ones once in its sleep queue, the running one on its CPU, dead
\* and uncreated ones in no queue.
TaskInOnePlace ==
    /\ \A c \in Cpus : IsInjective(runnable[c]) /\ IsInjective(sleeping[c])
    /\ \A t \in Tasks, c \in Cpus :
        /\ Contains(runnable[c], t) <=> c = Home[t] /\ state[t] = "READY" /\ next[c] # t
        /\ next[c] = t => c = Home[t] /\ state[t] = "READY"
        /\ Contains(sleeping[c], t) <=> c = Home[t] /\ state[t] = "BLOCKED"
        /\ state[t] = "RUNNING" => current[Home[t]] = t

\* Types, and the place of every task.
TasksConsistent == TypeOK /\ TaskInOnePlace

\* None of the assertions of the scheduler, the queues and the cleanup task
\* fails once the CPUs have left their boot stacks.
OnlyBootPanics == faults \subseteq MemoryFaults \cup {"idle selected while runnable task exists"}

\* The sleep queue is sorted by deadline, which scheduler_wake_sleepers relies
\* on when it stops at the first sleeper that is not due.
SleepersSorted ==
    \A c \in Cpus : \A i, j \in DOMAIN sleeping[c] :
        i < j => sleep_until[sleeping[c][i]] <= sleep_until[sleeping[c][j]]

\* Round robin: a ready task does run, whatever the other tasks of its CPU do
\* and however often they are preempted, unless its CPU halts.
ReadyRuns ==
    \A t \in Tasks : state[t] = "READY" ~> (state[t] = "RUNNING" \/ cpu[Home[t]] = "halted")

\* A sleeper whose task went through scheduler_sleep_current runs again.
SleeperWakes ==
    \A t \in Tasks : state[t] = "BLOCKED" ~> (state[t] = "RUNNING" \/ cpu[Home[t]] = "halted")

\* The memory of a task is freed once, and never while a CPU still executes
\* on its stack or another cleanup task still refers to it.
FreedOnceAndUnused == faults \cap MemoryFaults = {}

\* A dead task is reclaimed.
DeadIsReclaimed ==
    \A t \in Tasks : state[t] = "DEAD" ~> t \in freed

\* The assertion of the first switch of a CPU.
NoBootPanic == "idle selected while runnable task exists" \notin faults

=============================================================================
