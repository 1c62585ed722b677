-------------------------------- MODULE Sync --------------------------------
(***************************************************************************)
(* Tasks that block on a mutex, on a semaphore or on the block device,     *)
(* with the scheduler and the timer under them.  Which of the three a task *)
(* uses, if any, is chosen once; what it does with it, and when it is      *)
(* preempted, is open.                                                     *)
(***************************************************************************)
EXTENDS Mutex, Semaphore, Completion

CONSTANT Roles           \* the ways to give the tasks something to use

ASSUME SyncAssumption ==
    /\ Roles \subseteq [Tasks -> {"mutex", "semaphore", "device", "compute"}]
    /\ Queues = {MutexQueue, SemQueue, DoneQueue}
    /\ Queues \cap {Null, SleepQueue} = {}
    /\ IsFiniteSet(Tasks)

VARIABLE role            \* role[t]: what task t uses

vars == <<schedVars, waitVars, owner, count, deviceVars, role>>

\* The tasks have been created and queued.
Init ==
    /\ SchedInit(Tasks)
    /\ WaitInit
    /\ pc = [t \in AllTasks |-> IF t \in Tasks THEN "body" ELSE "idle"]
    /\ MutexInit
    /\ SemInit
    /\ CompletionInit
    /\ role \in Roles

-----------------------------------------------------------------------------
MutexStep(c, t) ==
    /\ role[t] = "mutex" /\ ~signalling[c]
    /\ MutexOps(c, t)
    /\ UNCHANGED <<count, deviceVars, role>>

SemStep(c, t) ==
    /\ role[t] = "semaphore" /\ ~signalling[c]
    /\ SemOps(c, t)
    /\ UNCHANGED <<owner, deviceVars, role>>

DeviceStep(c, t) ==
    /\ role[t] = "device"
    /\ Reset(c, t) \/ RequestStep(c, t)
    /\ UNCHANGED <<owner, count, role>>

\* The device, and its handler wherever it runs.
AnswerStep ==
    /\ \/ \E t \in Tasks : DeviceAnswers(t)
       \/ \E c \in Cpus : TakeIrq(c) \/ SignalStep(c)
    /\ UNCHANGED <<owner, count, role>>

\* In the handler interrupts are masked; the scheduler goes on elsewhere.
CpuStep(c) ==
    /\ ~signalling[c]
    /\ WaitSchedStep(c)
    /\ UNCHANGED <<owner, count, deviceVars, role>>

Next ==
    \/ \E c \in Cpus : CpuStep(c)
    \/ \E c \in Cpus, t \in Tasks : MutexStep(c, t) \/ SemStep(c, t) \/ DeviceStep(c, t)
    \/ AnswerStep

Spec == Init /\ [][Next]_vars

-----------------------------------------------------------------------------
(* Properties                                                              *)

Users(what) == {t \in Tasks : role[t] = what}

\* Only the owner is between mutex_acquire and mutex_release.
MutualExclusion == \A t \in Users("mutex") : pc[t] = "critical" <=> owner = t

\* The free units and the units the tasks hold are always all the units there
\* are, so at most InitialCount tasks hold one; and the assertion of
\* semaphore_release never fails.
UnitsConserved ==
    /\ count + Cardinality({t \in Users("semaphore") : pc[t] = "critical"}) = InitialCount
    /\ "no one has held this semaphore" \notin faults

\* Mutex and semaphore are held by no more tasks than they may be, and know by
\* how many.
HoldersExact == MutualExclusion /\ UnitsConserved

\* The users of a lock that have left its queue and not tried again.
OnTheirWay(what) ==
    {t \in Users(what) : pc[t] \in {"block", "block_switch", "acquire"} /\ waiting_on[t] = Null}

\* No wake-up of mutex_release or semaphore_release is lost: while tasks wait
\* for a mutex that is free, or for units that are, there is for each of these
\* a task that was taken out of the queue and is about to try again, whoever
\* barges in meanwhile.
NoLostWakeup ==
    /\ owner = Null /\ waiters[MutexQueue] # <<>> => OnTheirWay("mutex") # {}
    /\ waiters[SemQueue] # <<>> => count <= Cardinality(OnTheirWay("semaphore"))

\* completion_wait returns only once the device has answered the request.
AnsweredOnReturn ==
    [][\A t \in Users("device") : pc[t] = "wait" /\ pc'[t] = "body" => t \notin requested]_vars

\* scheduler_wake_blocked finds the waiter it wakes blocked.
WokenIsBlocked == "wake of a task that is not blocked" \notin faults

\* scheduler_switch never preempts a task that has entered a wait queue and is
\* still running.
PreemptedIsNotWaiting == "running task is waiting on a wait queue" \notin faults

\* The completion is not signalled twice.
SignalledOnce == "completion already marked done" \notin faults

\* The scheduler never switches from a task that is blocked and waits nowhere.
BlockedWaitsSomewhere == "blocked task has nothing waiting on" \notin faults

=============================================================================
