---------------------------- MODULE ProcessLife -----------------------------
(***************************************************************************)
(* Processes: fork, exit and wait4 of kernel/syscall/sys_process.c with    *)
(* the process manager, the family links of kernel/core/process.c and the  *)
(* part of the cleanup task that takes a dead thread out of its process.   *)
(*                                                                         *)
(* System calls run with interrupts masked, so the steps of one are only   *)
(* interleaved with what other CPUs do.  The model stops at the first      *)
(* failed assertion or use of memory that is not a live object.            *)
(***************************************************************************)
EXTENDS TaskManager, WaitQueue

CONSTANTS Procs,         \* the processes
          Root,          \* the process that is started at boot
          First,         \* its first thread
          Forkers,       \* the processes that call fork
          Wild,          \* what a member that was never written may hold
          MayFail        \* BOOLEAN: allocations, and accesses to user memory, may fail

ASSUME ProcessAssumption ==
    /\ Root \in Procs /\ First \in Tasks /\ Forkers \subseteq Procs /\ MayFail \in BOOLEAN
    /\ Queues = Procs /\ Null \notin Procs /\ Wild \notin Procs \cup {Null}
    /\ SleepQueue \notin Procs

VARIABLES
    process,    \* Task.process, Null before the task is created
    pstate,     \* Process.state, "NONE" before creation and "FREED" after kfree
    threads,    \* Process.threads
    parent,     \* Process.parent
    children,   \* Process.children
    space,      \* the processes whose address space exists
    child       \* child[t]: the local variable of fork and wait4

procVars == <<process, pstate, threads, parent, children, space, child>>
vars == <<schedVars, lifeVars, waitVars, procVars>>

\* The boot code has started the first process.  Nobody writes its parent.
Init ==
    /\ SchedInit({First})
    /\ WaitInit
    /\ ManagerInit
    /\ tasks = <<First>>
    /\ pc = [t \in AllTasks |-> IF t \in Tasks THEN "user"
                                ELSE IF \E c \in Cpus : t = Idle[c] THEN "idle" ELSE "find"]
    /\ process = [t \in Tasks |-> IF t = First THEN Root ELSE Null]
    /\ pstate = [p \in Procs |-> IF p = Root THEN "RUNNING" ELSE "NONE"]
    /\ threads = [p \in Procs |-> IF p = Root THEN {First} ELSE {}]
    /\ parent = [p \in Procs |-> Wild]
    /\ children = [p \in Procs |-> <<>>]
    /\ space = {Root}
    /\ child = [t \in Tasks |-> Null]

Fault(why) == faults' = faults \cup {why}

\* What a step of a system call leaves alone unless it says otherwise.
kept == <<sleep_until, sleeping, cpuVars, now>>

-----------------------------------------------------------------------------
(* User code and threads                                                   *)

\* sys_yield, or the end of a system call that asks for a switch
UserYield(c, t) ==
    /\ At(c, t, "user")
    /\ CallSwitch(c, t, "user")
    /\ UNCHANGED <<kept, state, waiting_on, runnable, exiting, faults, lifeVars, waitVars, procVars>>

\* A Task or a Process that the heap gives out next.  Objects of one kind are
\* alike, but for the CPU a task is created for.
NewTask(t) == t = CHOOSE u \in Tasks : state[u] = "NONE" /\ Home[u] = PickCpu
NewProcess(q) == q = CHOOSE p \in Procs : pstate[p] = "NONE"

\* A further thread of a process that runs: task_manager_create_user,
\* process_add_thread and scheduler_enqueue.
AddThread(c, t, u) ==
    /\ At(c, t, "user")
    /\ state[u] = "NONE" /\ Home[u] = PickCpu /\ NewTask(u)
    /\ EnqueueNew(u)
    /\ tasks' = Append(tasks, u)
    /\ process' = [process EXCEPT ![u] = process[t]]
    /\ threads' = [threads EXCEPT ![process[t]] = @ \cup {u}]
    /\ exiting' = IF t \in exiting THEN exiting \cup {u} ELSE exiting
    /\ UNCHANGED <<kept, waiting_on, cpu, pc, faults, dead, freed, waitVars,
                   pstate, parent, children, space, child>>

-----------------------------------------------------------------------------
(* fork                                                                    *)

\* Mutant: the caller does not get the process it has created.
MutForkCreate(c, t, q, u) ==
    /\ At(c, t, "user") /\ process[t] \in Forkers
    /\ pstate[q] = "NONE" /\ NewProcess(q)
    /\ state[u] = "NONE" /\ Home[u] = PickCpu /\ NewTask(u)
    /\ pstate' = [pstate EXCEPT ![q] = "RUNNING"]
    /\ process' = [process EXCEPT ![u] = q]
    /\ threads' = [threads EXCEPT ![q] = {u}]
    /\ space' = space \cup {q}
    /\ tasks' = Append(tasks, u)
    /\ EnqueueNew(u)
    /\ Go(t, "fork_add")
    /\ UNCHANGED <<kept, waiting_on, exiting, cpu, faults, dead, freed, waitVars, parent, children, child>>

\* proc_manager_create_exec_from, under the lock of the process manager: the
\* child process, its thread, and the thread is queued.
ForkCreate(c, t, q, u) ==
    /\ At(c, t, "user") /\ process[t] \in Forkers
    /\ pstate[q] = "NONE" /\ NewProcess(q)
    /\ state[u] = "NONE" /\ Home[u] = PickCpu /\ NewTask(u)
    /\ pstate' = [pstate EXCEPT ![q] = "RUNNING"]
    /\ process' = [process EXCEPT ![u] = q]
    /\ threads' = [threads EXCEPT ![q] = {u}]
    /\ space' = space \cup {q}
    /\ tasks' = Append(tasks, u)
    /\ EnqueueNew(u)
    /\ child' = [child EXCEPT ![t] = q]
    /\ Go(t, "fork_add")
    /\ UNCHANGED <<kept, waiting_on, exiting, cpu, faults, dead, freed, waitVars, parent, children>>

\* An allocation fails, and process_add_child is called with the error value.
ForkFail(c, t) ==
    /\ MayFail
    /\ At(c, t, "user") /\ process[t] \in Forkers
    /\ Fault("error value used as a process")
    /\ UNCHANGED <<kept, state, waiting_on, runnable, exiting, cpu, pc, lifeVars, waitVars, procVars>>

\* process_add_child
ForkAdd(c, t) ==
    /\ At(c, t, "fork_add")
    /\ children' = [children EXCEPT ![process[t]] = Append(@, child[t])]
    /\ Go(t, "fork_parent")
    /\ UNCHANGED <<kept, state, waiting_on, runnable, exiting, cpu, faults, lifeVars, waitVars,
                   process, pstate, threads, parent, space, child>>

\* Mutant: the child does not learn its parent.
MutForkParent(c, t) ==
    /\ At(c, t, "fork_parent")
    /\ child' = [child EXCEPT ![t] = Null]
    /\ CallSwitch(c, t, "user")
    /\ UNCHANGED <<kept, state, waiting_on, runnable, exiting, faults, lifeVars, waitVars,
                   process, pstate, threads, parent, children, space>>

\* process_set_parent; fork ends in a switch
ForkParent(c, t) ==
    /\ At(c, t, "fork_parent")
    /\ parent' = [parent EXCEPT ![child[t]] = process[t]]
    /\ child' = [child EXCEPT ![t] = Null]
    /\ CallSwitch(c, t, "user")
    /\ UNCHANGED <<kept, state, waiting_on, runnable, exiting, faults, lifeVars, waitVars,
                   process, pstate, threads, children, space>>

-----------------------------------------------------------------------------
(* exit                                                                    *)

\* process_exit: the process is exiting, ...
ExitBegin(c, t) ==
    /\ At(c, t, "user") /\ process[t] # Root
    /\ exiting' = exiting \cup {u \in Tasks : process[u] = process[t]}
    /\ Go(t, "exit_state")
    /\ UNCHANGED <<kept, state, waiting_on, runnable, cpu, faults, lifeVars, waitVars, procVars>>

\* ... and a zombie, which its parent can find from here on.
ExitZombie(c, t) ==
    /\ At(c, t, "exit_state")
    /\ pstate' = [pstate EXCEPT ![process[t]] = "ZOMBIE"]
    /\ Go(t, "exit_parent")
    /\ UNCHANGED <<kept, state, waiting_on, runnable, exiting, cpu, faults, lifeVars, waitVars,
                   process, threads, parent, children, space, child>>

\* The assertion on the parent, and scheduler_wake_all takes its lock.  A parent that was
\* never written may read as null, which the assertion catches, or as anything else.
ExitParent(c, t) ==
    LET p == parent[process[t]] IN
    /\ At(c, t, "exit_parent")
    /\ \/ /\ p = Wild
          /\ Panic(c, "parent is null")
          /\ UNCHANGED pc
       \/ /\ p = Wild \/ (p \in Procs /\ pstate[p] = "FREED")
          /\ Fault("parent is not a process")
          /\ UNCHANGED <<cpu, pc>>
       \/ /\ p \in Procs /\ pstate[p] # "FREED"
          /\ Go(t, "exit_dequeue")
          /\ UNCHANGED <<cpu, faults>>
    /\ UNCHANGED <<kept, state, waiting_on, runnable, exiting, lifeVars, waitVars, procVars>>

\* Mutant: nobody is woken.
MutExitDequeue(c, t) ==
    /\ At(c, t, "exit_dequeue")
    /\ Go(t, "exit_flag")
    /\ UNCHANGED <<kept, state, waiting_on, runnable, exiting, cpu, faults, lifeVars, waitVars, procVars>>

\* The loop of scheduler_wake_all: the next waiter leaves the queue, ...
ExitDequeue(c, t) ==
    LET p == parent[process[t]] IN
    /\ At(c, t, "exit_dequeue")
    /\ Dequeue(p, t)
    /\ Go(t, IF waiters[p] = <<>> THEN "exit_flag" ELSE "exit_ready")
    /\ UNCHANGED <<kept, state, runnable, exiting, cpu, faults, lifeVars, procVars>>

\* ... and is queued to run.
ExitReady(c, t) ==
    /\ At(c, t, "exit_ready")
    /\ Wake(c, blocked[t])
    /\ blocked' = [blocked EXCEPT ![t] = Null]
    /\ Go(t, "exit_dequeue")
    /\ UNCHANGED <<kept, waiting_on, exiting, lifeVars, waiters, procVars>>

\* scheduler_wake_all holds the lock of the wait queue of p.
Waking(p) == \E u \in Tasks : pc[u] = "exit_ready" /\ parent[process[u]] = p

-----------------------------------------------------------------------------
(* wait4                                                                   *)

\* The child after q, as the links of q say: none once q has left the list.
NextChild(list, q) ==
    LET i == CHOOSE k \in DOMAIN list : list[k] = q
    IN  IF Contains(list, q) /\ i < Len(list) THEN list[i + 1] ELSE Null

\* The scan of the children takes no lock.  Without children the call fails.
WaitScan(c, t) ==
    LET list == children[process[t]] IN
    /\ \E point \in {"user", "wait_scan"} : At(c, t, point)
    /\ child' = [child EXCEPT ![t] = IF list = <<>> THEN Null ELSE Head(list)]
    /\ Go(t, IF list = <<>> THEN "user" ELSE "wait_look")
    /\ UNCHANGED <<kept, state, waiting_on, runnable, exiting, cpu, faults, lifeVars, waitVars,
                   process, pstate, threads, parent, children, space>>

\* The scan looks at one child: a zombie ends it, and after the last child the
\* task will block.
WaitLook(c, t) ==
    LET q == child[t]
        after == NextChild(children[process[t]], q) IN
    /\ At(c, t, "wait_look")
    /\ \/ /\ pstate[q] = "FREED"
          /\ Fault("freed process used")
          /\ UNCHANGED <<pc, child>>
       \/ /\ pstate[q] = "ZOMBIE"
          /\ Go(t, "wait_remove")
          /\ UNCHANGED <<child, faults>>
       \/ /\ pstate[q] = "RUNNING"
          /\ child' = [child EXCEPT ![t] = after]
          /\ Go(t, IF after = Null THEN "wait_enqueue" ELSE "wait_look")
          /\ UNCHANGED faults
    /\ UNCHANGED <<kept, state, waiting_on, runnable, exiting, cpu, lifeVars, waitVars,
                   process, pstate, threads, parent, children, space>>

\* Mutant: the zombie stays in the list of children.
MutWaitRemove(c, t) ==
    /\ At(c, t, "wait_remove")
    /\ Go(t, "wait_copy")
    /\ UNCHANGED <<kept, state, waiting_on, runnable, exiting, cpu, faults, lifeVars, waitVars, procVars>>

\* process_remove_child, under the locks of both processes.  Another thread of
\* the parent may have removed, or even freed, the zombie since it was found.
WaitRemove(c, t) ==
    LET q == child[t] IN
    /\ At(c, t, "wait_remove")
    /\ \/ /\ pstate[q] = "FREED"
          /\ Fault("freed process used")
          /\ UNCHANGED <<pc, children>>
       \/ /\ pstate[q] # "FREED"
          /\ children' = [children EXCEPT ![process[t]] = Unlink(@, q)]
          /\ Go(t, "wait_copy")
          /\ UNCHANGED faults
    /\ UNCHANGED <<kept, state, waiting_on, runnable, exiting, cpu, lifeVars, waitVars,
                   process, pstate, threads, parent, space, child>>

\* The status is copied to the caller.  If that fails the call returns.
WaitCopy(c, t) ==
    /\ At(c, t, "wait_copy")
    /\ \/ /\ Go(t, "wait_destroy")
          /\ UNCHANGED child
       \/ /\ MayFail
          /\ Go(t, "user")
          /\ child' = [child EXCEPT ![t] = Null]
    /\ UNCHANGED <<kept, state, waiting_on, runnable, exiting, cpu, faults, lifeVars, waitVars,
                   process, pstate, threads, parent, children, space>>

\* Mutant: the threads of the child are not counted.
MutWaitDestroy(c, t) ==
    LET q == child[t] IN
    /\ At(c, t, "wait_destroy")
    /\ pstate' = [pstate EXCEPT ![q] = "FREED"]
    /\ space' = space \ {q}
    /\ child' = [child EXCEPT ![t] = Null]
    /\ Go(t, "user")
    /\ UNCHANGED <<cpu, faults, kept, state, waiting_on, runnable, exiting, lifeVars, waitVars,
                   process, threads, parent, children>>

\* A cleanup task has destroyed the address space of p, and p still points at it.
Dangling(p) == \E c \in Cpus : pc[Cleanup[c]] = "space_null" /\ process[dead[c]] = p

\* proc_manager_remove_destroy: its assertions, then everything the process
\* owns is freed.
WaitDestroy(c, t) ==
    LET q == child[t]
        sound == pstate[q] = "ZOMBIE" /\ threads[q] = {} IN
    /\ At(c, t, "wait_destroy")
    /\ \/ /\ sound /\ ~Dangling(q)
          /\ pstate' = [pstate EXCEPT ![q] = "FREED"]
          /\ space' = space \ {q}
          /\ child' = [child EXCEPT ![t] = Null]
          /\ Go(t, "user")
          /\ UNCHANGED <<cpu, faults>>
       \/ /\ pstate[q] = "FREED" \/ (sound /\ Dangling(q))
          /\ Fault(IF sound THEN "address space destroyed twice" ELSE "process freed twice")
          /\ UNCHANGED <<cpu, pstate, space, child, pc>>
       \/ /\ pstate[q] # "FREED" /\ ~sound
          /\ Panic(c, "destroying a process which has threads")
          /\ UNCHANGED <<pstate, space, child, pc>>
    /\ UNCHANGED <<kept, state, waiting_on, runnable, exiting, lifeVars, waitVars,
                   process, threads, parent, children>>

\* The task enters the queue of its process, unless an exiting child of it
\* holds the lock of the queue.
WaitEnqueue(c, t) ==
    /\ At(c, t, "wait_enqueue")
    /\ ~Waking(process[t])
    /\ Enqueue(process[t], t)
    /\ Go(t, "block")
    /\ UNCHANGED <<kept, state, runnable, exiting, cpu, faults, lifeVars, blocked, procVars>>

-----------------------------------------------------------------------------
(* The cleanup task                                                        *)

\* process_remove_thread of the dead task
Detach(c) ==
    LET p == process[dead[c]] IN
    /\ At(c, Cleanup[c], "detach")
    /\ threads' = [threads EXCEPT ![p] = @ \ {dead[c]}]
    /\ faults' = faults \cup (IF pstate[p] = "FREED" THEN {"freed process used"} ELSE {})
    /\ Go(Cleanup[c], "space")
    /\ UNCHANGED <<kept, state, waiting_on, runnable, exiting, cpu, lifeVars, waitVars,
                   process, pstate, parent, children, space, child>>

\* Mutant: the address space goes with the first thread of the process.
MutCheckLast(c) ==
    /\ At(c, Cleanup[c], "space")
    /\ Go(Cleanup[c], IF dead[c] \in exiting THEN "space_free" ELSE "destroy")
    /\ UNCHANGED <<kept, state, waiting_on, runnable, exiting, cpu, faults, lifeVars, waitVars, procVars>>

\* The cleanup task asks whether that was the last thread of an exiting process.
CheckLast(c) ==
    LET p == process[dead[c]] IN
    /\ At(c, Cleanup[c], "space")
    /\ faults' = faults \cup (IF pstate[p] = "FREED" THEN {"freed process used"} ELSE {})
    /\ Go(Cleanup[c], IF dead[c] \in exiting /\ threads[p] = {} THEN "space_free" ELSE "destroy")
    /\ UNCHANGED <<kept, state, waiting_on, runnable, exiting, cpu, lifeVars, waitVars, procVars>>

\* address_space_destroy, of a space that must not be gone yet, ...
DestroySpace(c) ==
    LET p == process[dead[c]] IN
    /\ At(c, Cleanup[c], "space_free")
    /\ space' = space \ {p}
    /\ faults' = faults \cup (IF pstate[p] = "FREED" THEN {"freed process used"} ELSE {})
                        \cup (IF p \notin space THEN {"address space destroyed twice"} ELSE {})
    /\ Go(Cleanup[c], "space_null")
    /\ UNCHANGED <<kept, state, waiting_on, runnable, exiting, cpu, lifeVars, waitVars,
                   process, pstate, threads, parent, children, child>>

\* ... and the process forgets it.
ForgetSpace(c) ==
    LET p == process[dead[c]] IN
    /\ At(c, Cleanup[c], "space_null")
    /\ faults' = faults \cup (IF pstate[p] = "FREED" THEN {"freed process used"} ELSE {})
    /\ Go(Cleanup[c], "destroy")
    /\ UNCHANGED <<kept, state, waiting_on, runnable, exiting, cpu, lifeVars, waitVars, procVars>>

-----------------------------------------------------------------------------
(* The scheduler                                                           *)

\* switch_address_space reads the page tables of both processes.
SpaceGone(c) ==
    /\ cpu[c] = "ctx"
    /\ \E t \in {left[c], current[c]} \cap Tasks : process[t] \notin space

SwitchSpace(c) ==
    /\ SpaceGone(c)
    /\ Fault("switch to an address space that is gone")
    /\ UNCHANGED <<kept, state, waiting_on, runnable, exiting, cpu, pc>>

\* Interrupts are masked in system calls.
Masked(c) == cpu[c] = "run" /\ current[c] \in Tasks /\ pc[current[c]] # "user"

SwitchOrFault(c) == SwitchSpace(c) \/ (SwitchStep(c) /\ ~SpaceGone(c))
TimerStep(c) == TimerIrq(c) /\ ~Masked(c)

SchedStep(c) ==
    /\ SwitchOrFault(c) \/ TimerStep(c) \/ BootSwitch(c) \/ IdleYield(c)
    /\ UNCHANGED <<lifeVars, waitVars, procVars>>

CleanupStep(c) ==
    \/ /\ FindDead(c) \/ ClearCleanup(c) \/ CleanupYield(c) \/ RemoveDead(c, "detach") \/ DestroyDead(c)
       /\ UNCHANGED <<waitVars, procVars>>
    \/ Detach(c) \/ CheckLast(c) \/ DestroySpace(c) \/ ForgetSpace(c)

\* The steps a thread takes once it is in a system call.
InCall(c, t) ==
    \/ ForkAdd(c, t) \/ ForkParent(c, t)
    \/ ExitZombie(c, t) \/ ExitParent(c, t) \/ ExitDequeue(c, t) \/ ExitReady(c, t)
    \/ (ExitFlag(c, t, "exit_flag") \/ ExitDead(c, t) \/ ExitYield(c, t)) /\ UNCHANGED <<waitVars, procVars>>
    \/ pc[t] = "wait_scan" /\ WaitScan(c, t)
    \/ WaitLook(c, t) \/ WaitRemove(c, t) \/ WaitCopy(c, t) \/ WaitDestroy(c, t) \/ WaitEnqueue(c, t)
    \/ (BlockCurrent(c, t) \/ BlockSwitch(c, t, "wait_scan")) /\ UNCHANGED <<lifeVars, procVars>>

\* The system calls a thread makes.
Call(c, t) ==
    \/ UserYield(c, t) \/ ExitBegin(c, t) \/ ForkFail(c, t)
    \/ pc[t] = "user" /\ WaitScan(c, t)
    \/ \E q \in Procs, u \in Tasks : ForkCreate(c, t, q, u)
    \/ \E u \in Tasks : AddThread(c, t, u)

Next ==
    /\ faults = {}
    /\ \/ \E c \in Cpus : SchedStep(c) \/ CleanupStep(c)
       \/ \E c \in Cpus, t \in Tasks : InCall(c, t) \/ Call(c, t)

\* As in TaskLife; in addition a system call, which is not interrupted, goes on.
Fairness ==
    \A c \in Cpus :
        /\ WF_vars(SwitchOrFault(c) /\ UNCHANGED <<lifeVars, waitVars, procVars>>)
        /\ WF_vars(BootSwitch(c) /\ UNCHANGED <<lifeVars, waitVars, procVars>>)
        /\ WF_vars(IdleYield(c) /\ UNCHANGED <<lifeVars, waitVars, procVars>>)
        /\ SF_vars(TimerStep(c) /\ UNCHANGED <<lifeVars, waitVars, procVars>>)
        /\ SF_vars(CleanupStep(c))
        /\ \A t \in Tasks : WF_vars(InCall(c, t))

Spec == Init /\ [][Next]_vars
FairSpec == Spec /\ Fairness

-----------------------------------------------------------------------------
(* Properties                                                              *)

\* Every variable keeps its type.
TypeOK ==
    /\ state \in [AllTasks -> {"NONE", "READY", "RUNNING", "BLOCKED", "DEAD"}]
    /\ waiting_on \in [AllTasks -> Procs \cup {Null}]
    /\ process \in [Tasks -> Procs \cup {Null}]
    /\ pstate \in [Procs -> {"NONE", "RUNNING", "ZOMBIE", "FREED"}]
    /\ threads \in [Procs -> SUBSET Tasks]
    /\ parent \in [Procs -> Procs \cup {Wild}]
    /\ \A p \in Procs : children[p] \in Seq(Procs)
    /\ space \subseteq Procs
    /\ child \in [Tasks -> Procs \cup {Null}]

\* No process has, or has had, a second thread.
OneThreadEach == \A t, u \in Tasks : process[t] # Null /\ process[t] = process[u] => t = u

Lists(q) == {p \in Procs : Contains(children[p], q)}
Hands(q) == {t \in Tasks : child[t] = q /\ pc[t] \in {"fork_add", "wait_copy", "wait_destroy"}}

\* Process q is in one list of children, once, and the process that has the
\* list is, or is about to become, the parent that q knows; ...
IsListed(q) ==
    \E p \in Procs :
        /\ Lists(q) = {p} /\ Hands(q) = {} /\ IsInjective(children[p])
        /\ parent[q] = p \/ \E t \in Tasks : pc[t] = "fork_parent" /\ child[t] = q /\ process[t] = p

\* ... or in the hands of one call of fork or wait4, of its parent's thread; ...
IsHeld(q) ==
    \E t \in Tasks :
        /\ Lists(q) = {} /\ Hands(q) = {t}
        /\ pc[t] = "fork_add" \/ (pstate[q] = "ZOMBIE" /\ parent[q] = process[t])

\* ... or a zombie whose status could not be copied.
IsLost(q) == MayFail /\ pstate[q] = "ZOMBIE" /\ Lists(q) = {} /\ Hands(q) = {}

\* Of every child that was created and not freed somebody takes care, and no
\* two do, as long as no process has had a second thread; nobody lists a
\* process that was freed.
FamilyConsistent ==
    OneThreadEach =>
        \A q \in Procs \ {Root} :
            IF pstate[q] \in {"RUNNING", "ZOMBIE"} THEN IsListed(q) \/ IsHeld(q) \/ IsLost(q)
            ELSE Lists(q) = {}

\* A process that was freed has no thread that could still run.
FreedHasNoThreads ==
    \A t \in Tasks : process[t] \in Procs /\ pstate[process[t]] = "FREED" => state[t] = "DEAD"

\* The address space of a process is there while a thread of it may run.
SpaceWhileThreads ==
    \A t \in Tasks : state[t] \in {"READY", "RUNNING", "BLOCKED"} => process[t] \in space

\* A thread never outlives what it runs in: process_destroy and the reaping of
\* threads come in the right order on every CPU.
ThreadsHaveProcess == TypeOK /\ FreedHasNoThreads /\ SpaceWhileThreads

\* Once a process is exiting, each of its threads that is neither blocked nor
\* in a call ends: the scheduler kills it when it picks it.
ExitingThreadsEnd ==
    \A t \in Tasks :
        (t \in exiting /\ state[t] \in {"READY", "RUNNING"})
            ~> (state[t] \in {"DEAD", "BLOCKED"} \/ faults # {})

\* No assertion fails and no dead object is used, as long as no process has had
\* a second thread.
NoFault == OneThreadEach => faults = {}

InWait(t) == pc[t] \in {"wait_scan", "wait_look", "wait_remove", "wait_copy", "wait_destroy",
                       "wait_enqueue", "block", "block_switch"}

\* A thread that is in wait4 while a child is a zombie returns to its caller.
WaitReturns ==
    \A t \in Tasks :
        (InWait(t) /\ \E q \in ToSet(children[process[t]]) : pstate[q] = "ZOMBIE")
            ~> (pc[t] = "user" \/ faults # {})

\* A thread in the queue of its process, which has children, is still to be
\* woken: some thread of a child has not passed the wake-up in exit.
WaiterWillBeWoken ==
    \A t \in Tasks :
        LET mine == ToSet(children[process[t]]) IN
        process[t] # Null /\ Contains(waiters[process[t]], t) /\ mine # {}
            => \E u \in Tasks : /\ process[u] \in mine /\ state[u] # "DEAD"
                               /\ pc[u] \notin {"exit_flag", "exit_dead", "exit_yield"}

\* A zombie that wait4 finds has no threads left.
ZombieCanBeFreed == "destroying a process which has threads" \notin faults

\* A zombie stays where wait4 can find it until it is freed.
NoZombieIsLost == \A q \in Procs : ~IsLost(q)

\* What wait4 and the cleanup tasks free is freed once, and not used again.
FreedOnce ==
    faults \cap {"freed process used", "process freed twice", "address space destroyed twice"} = {}

\* A process that exits has a parent that exists.
ParentExists == faults \cap {"parent is null", "parent is not a process"} = {}

\* A call of fork that fails returns its error.
ForkFailsCleanly == "error value used as a process" \notin faults

=============================================================================
