-------------------------------- MODULE Mutex -------------------------------
(***************************************************************************)
(* The sleeping mutex of kernel/sync/mutex.c: the critical sections of its *)
(* operations.  Sync composes them with the scheduler.                     *)
(***************************************************************************)
EXTENDS WaitQueue

VARIABLE owner           \* Mutex.owner

MutexQueue == "mutex"

MutexInit == owner = Null

-----------------------------------------------------------------------------
\* Mutant: a task that was woken takes the mutex without a second look.
MutMutexAcquire(c, t) ==
    /\ \E point \in {"body", "acquire"} : At(c, t, point)
    /\ \/ /\ owner = Null \/ pc[t] = "acquire"
          /\ owner' = t
          /\ Go(t, "critical")
          /\ UNCHANGED <<waiting_on, waiters>>
       \/ /\ owner # Null /\ pc[t] # "acquire"
          /\ Enqueue(MutexQueue, t)
          /\ Go(t, "block")
          /\ UNCHANGED owner
    /\ UNCHANGED <<state, sleep_until, queueVars, cpuVars, now, exiting, cpu, faults, blocked>>

\* mutex_acquire takes the mutex if it is free and else enters the queue, from
\* its first call or after a wake.
MutexAcquire(c, t) ==
    /\ \E point \in {"body", "acquire"} : At(c, t, point)
    /\ \/ /\ owner = Null
          /\ owner' = t
          /\ Go(t, "critical")
          /\ UNCHANGED <<waiting_on, waiters>>
       \/ /\ owner # Null
          /\ Enqueue(MutexQueue, t)
          /\ Go(t, "block")
          /\ UNCHANGED owner
    /\ UNCHANGED <<state, sleep_until, queueVars, cpuVars, now, exiting, cpu, faults, blocked>>

\* mutex_try_acquire
MutexTryAcquire(c, t) ==
    /\ At(c, t, "body")
    /\ owner' = IF owner = Null THEN t ELSE owner
    /\ Go(t, IF owner = Null THEN "critical" ELSE "body")
    /\ UNCHANGED <<taskVars, queueVars, cpuVars, now, exiting, cpu, faults, waitVars>>

\* The critical section of mutex_release.
MutexRelease(c, t) ==
    /\ At(c, t, "critical")
    /\ \/ /\ owner = t
          /\ owner' = Null
          /\ Dequeue(MutexQueue, t)
          /\ Go(t, IF waiters[MutexQueue] = <<>> THEN "body" ELSE "wake")
          /\ UNCHANGED <<cpu, faults>>
       \/ /\ owner # t
          /\ Panic(c, "mutex is not owned by the task trying to free it")
          /\ UNCHANGED <<owner, waitVars, waiting_on, pc>>
    /\ UNCHANGED <<state, sleep_until, queueVars, cpuVars, now, exiting>>

MutexOps(c, t) ==
    \/ MutexAcquire(c, t) \/ MutexTryAcquire(c, t) \/ MutexRelease(c, t)
    \/ (BlockCurrent(c, t) \/ BlockSwitch(c, t, "acquire") \/ WakeBlocked(c, t, "body")) /\ UNCHANGED owner

=============================================================================
