----------------------------- MODULE WaitQueue ------------------------------
(***************************************************************************)
(* The wait queues of kernel/sync/wait_queue.c and the way the blocking    *)
(* primitives use them: a task enters a queue, blocks                      *)
(* (scheduler_block_current), is taken out by another one                  *)
(* (waitqueue_dequeue) and woken (scheduler_wake_blocked).  These are four *)
(* critical sections under different locks, so other CPUs, and interrupts  *)
(* of the same CPU, come in between.                                       *)
(***************************************************************************)
EXTENDS Scheduler

CONSTANT Queues          \* the wait queues besides those of sleepers

VARIABLES
    waiters,    \* WaitQueue.waiters
    blocked     \* the local variable of a task that has a waiter to wake

waitVars == <<waiters, blocked>>

WaitInit ==
    /\ waiters = [q \in Queues |-> <<>>]
    /\ blocked = [t \in Tasks |-> Null]

\* waitqueue_enqueue
Enqueue(q, t) ==
    /\ waiters' = [waiters EXCEPT ![q] = Append(@, t)]
    /\ waiting_on' = [waiting_on EXCEPT ![t] = q]

\* Mutant: the waiter leaves the queue but still names it in waiting_on.
MutDequeue(q, t) ==
    LET first == IF waiters[q] = <<>> THEN Null ELSE Head(waiters[q]) IN
    /\ blocked' = [blocked EXCEPT ![t] = first]
    /\ waiters' = [waiters EXCEPT ![q] = IF first = Null THEN @ ELSE Tail(@)]
    /\ UNCHANGED waiting_on

\* waitqueue_dequeue by task t, which keeps the waiter in a local variable
Dequeue(q, t) ==
    LET first == IF waiters[q] = <<>> THEN Null ELSE Head(waiters[q]) IN
    /\ blocked' = [blocked EXCEPT ![t] = first]
    /\ waiters' = [waiters EXCEPT ![q] = IF first = Null THEN @ ELSE Tail(@)]
    /\ waiting_on' = IF first = Null THEN waiting_on ELSE [waiting_on EXCEPT ![first] = Null]

\* scheduler_block_current: its assertions, and the task is blocked.  The
\* switch follows, unless an interrupt comes first.
BlockCurrent(c, t) ==
    /\ At(c, t, "block")
    /\ \/ /\ state[t] = "RUNNING" /\ waiting_on[t] # Null
          /\ state' = [state EXCEPT ![t] = "BLOCKED"]
          /\ Go(t, "block_switch")
          /\ UNCHANGED <<cpu, faults>>
       \/ /\ state[t] # "RUNNING" \/ waiting_on[t] = Null
          /\ Panic(c, "current task is not waiting on a wait queue")
          /\ UNCHANGED <<state, pc>>
    /\ UNCHANGED <<waiting_on, sleep_until, queueVars, cpuVars, now, exiting, waitVars>>

BlockSwitch(c, t, to) ==
    /\ At(c, t, "block_switch")
    /\ CallSwitch(c, t, to)
    /\ UNCHANGED <<taskVars, queueVars, cpuVars, now, exiting, faults, waitVars>>

\* scheduler_wake_blocked of the waiter task t took out of a queue.
WakeBlocked(c, t, to) ==
    /\ At(c, t, "wake")
    /\ Wake(c, blocked[t])
    /\ blocked' = [blocked EXCEPT ![t] = Null]
    /\ Go(t, to)
    /\ UNCHANGED <<waiting_on, sleep_until, sleeping, cpuVars, now, exiting, waiters>>

\* The steps of the scheduler leave the wait queues alone.
WaitSchedStep(c) ==
    /\ SwitchStep(c) \/ TimerIrq(c) \/ BootSwitch(c) \/ IdleYield(c)
    /\ UNCHANGED waitVars

-----------------------------------------------------------------------------
(* Properties of every use of wait queues                                  *)

\* A wait queue holds the tasks whose waiting_on names it, each once, and none
\* of them is in a run queue.
WaitersConsistent ==
    \A q \in Queues :
        /\ ToSet(waiters[q]) = {t \in Tasks : waiting_on[t] = q}
        /\ IsInjective(waiters[q])
        /\ \A t \in ToSet(waiters[q]), c \in Cpus : ~Contains(runnable[c], t)

\* A task is never in a run queue twice, in the queue of another CPU, queued
\* while it runs or is blocked, or still queued once it has been picked.
RunQueuesConsistent ==
    \A c \in Cpus :
        /\ IsInjective(runnable[c])
        /\ \A t \in ToSet(runnable[c]) : Home[t] = c /\ state[t] = "READY" /\ next[c] # t

\* Wait queues and run queues after any interleaving of blocking and waking.
QueuesConsistent == WaitersConsistent /\ RunQueuesConsistent

=============================================================================
