----------------------------- MODULE Completion -----------------------------
(***************************************************************************)
(* The completion of kernel/sync/completion.c between the tasks that read  *)
(* or write a sector and the interrupt handler of drivers/virtio/          *)
(* virtio_blk.c.  A request is: completion_reset, notify the device,       *)
(* completion_wait; the device answers with an interrupt that some CPU     *)
(* takes.  Sync composes it with the scheduler.                             *)
(***************************************************************************)
EXTENDS WaitQueue

DoneQueue == "completion"

VARIABLES
    done,       \* Completion.done
    requested,  \* the tasks whose request the device has not answered
    irq,        \* the interrupt status of the device
    signalling, \* signalling[c]: CPU c is in completion_signal
    woken       \* woken[c]: the task completion_signal has taken out of the queue

deviceVars == <<done, requested, irq, signalling, woken>>

\* completion_init
CompletionInit ==
    /\ done = FALSE
    /\ requested = {}
    /\ irq = FALSE
    /\ signalling = [c \in Cpus |-> FALSE]
    /\ woken = [c \in Cpus |-> Null]

\* CPU c executes task t and not the handler on top of it.
Here(c, t, point) == At(c, t, point) /\ ~signalling[c]

\* No CPU holds the lock of the wait queue.
LockFree == \A c \in Cpus : ~signalling[c]

kept == <<sleep_until, queueVars, cpuVars, now, exiting, blocked>>

-----------------------------------------------------------------------------
(* virtio_blk_submit_and_block                                             *)

\* Mutant: the completion is not rearmed.
MutReset(c, t) ==
    /\ Here(c, t, "body") /\ LockFree
    /\ Go(t, "notify")
    /\ UNCHANGED <<kept, state, waiting_on, cpu, faults, waiters, deviceVars>>

\* completion_reset
Reset(c, t) ==
    /\ Here(c, t, "body") /\ LockFree
    /\ done' = FALSE
    /\ Go(t, "notify")
    /\ UNCHANGED <<kept, state, waiting_on, cpu, faults, waiters, requested, irq, signalling, woken>>

\* virtio_blk_flush_notify_host
Notify(c, t) ==
    /\ Here(c, t, "notify")
    /\ requested' = requested \cup {t}
    /\ Go(t, "wait")
    /\ UNCHANGED <<kept, state, waiting_on, cpu, faults, waiters, done, irq, signalling, woken>>

\* The critical section of completion_wait.
WaitCheck(c, t) ==
    /\ Here(c, t, "wait") /\ LockFree
    /\ state' = IF done THEN state ELSE [state EXCEPT ![t] = "BLOCKED"]
    /\ Go(t, IF done THEN "body" ELSE "wait_enqueue")
    /\ UNCHANGED <<kept, waiting_on, cpu, faults, waiters, deviceVars>>

\* The blocked task enters the queue once it has the lock again.
WaitEnqueue(c, t) ==
    /\ Here(c, t, "wait_enqueue") /\ LockFree
    /\ \/ /\ state[t] # "READY"
          /\ Enqueue(DoneQueue, t)
          /\ Go(t, "block_switch")
          /\ UNCHANGED <<cpu, faults>>
       \/ /\ state[t] = "READY"
          /\ Panic(c, "only NOT READY tasks may enter waitqueue")
          /\ UNCHANGED <<waiters, waiting_on, pc>>
    /\ UNCHANGED <<kept, state, deviceVars>>

WaitSwitch(c, t) ==
    /\ ~signalling[c]
    /\ BlockSwitch(c, t, "wait")
    /\ UNCHANGED deviceVars

-----------------------------------------------------------------------------
(* The device and virtio_blk_irq_handler                                   *)

\* The device answers a request and raises its interrupt.
DeviceAnswers(t) ==
    /\ t \in requested
    /\ requested' = requested \ {t}
    /\ irq' = TRUE
    /\ UNCHANGED <<kept, state, waiting_on, cpu, pc, faults, waiters, done, signalling, woken>>

\* A CPU takes the interrupt, acknowledges it and calls completion_signal.
TakeIrq(c) ==
    /\ irq /\ cpu[c] = "run" /\ LockFree
    /\ irq' = FALSE
    /\ \/ /\ ~done
          /\ done' = TRUE
          /\ signalling' = [signalling EXCEPT ![c] = TRUE]
          /\ UNCHANGED <<cpu, faults>>
       \/ /\ done
          /\ Panic(c, "completion already marked done")
          /\ UNCHANGED <<done, signalling>>
    /\ UNCHANGED <<kept, state, waiting_on, pc, waiters, requested, woken>>

\* The loop of completion_signal: the next waiter leaves the queue ...
SignalDequeue(c) ==
    LET queue == waiters[DoneQueue] IN
    /\ signalling[c] /\ woken[c] = Null
    /\ \/ /\ queue # <<>>
          /\ woken' = [woken EXCEPT ![c] = Head(queue)]
          /\ waiters' = [waiters EXCEPT ![DoneQueue] = Tail(queue)]
          /\ waiting_on' = [waiting_on EXCEPT ![Head(queue)] = Null]
          /\ UNCHANGED signalling
       \/ /\ queue = <<>>
          /\ signalling' = [signalling EXCEPT ![c] = FALSE]
          /\ UNCHANGED <<woken, waiters, waiting_on>>
    /\ UNCHANGED <<kept, state, cpu, pc, faults, done, requested, irq>>

\* ... and is woken.
SignalWake(c) ==
    /\ signalling[c] /\ woken[c] # Null
    /\ Wake(c, woken[c])
    /\ woken' = [woken EXCEPT ![c] = Null]
    /\ UNCHANGED <<waiting_on, sleep_until, sleeping, cpuVars, now, exiting, pc, waitVars,
                   done, requested, irq, signalling>>

-----------------------------------------------------------------------------
SignalStep(c) == SignalDequeue(c) \/ SignalWake(c)

RequestStep(c, t) ==
    Notify(c, t) \/ WaitCheck(c, t) \/ WaitEnqueue(c, t) \/ WaitSwitch(c, t)

=============================================================================
