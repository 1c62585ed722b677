----------------------------- MODULE Semaphore ------------------------------
(***************************************************************************)
(* The counting semaphore of kernel/sync/semaphore.c.  A task releases     *)
(* what it has acquired.  Sync composes it with the scheduler.             *)
(***************************************************************************)
EXTENDS WaitQueue

CONSTANT InitialCount    \* the count given to semaphore_init

ASSUME SemaphoreAssumption == InitialCount \in Nat

VARIABLE count           \* Semaphore.count

SemQueue == "semaphore"

SemInit == count = InitialCount

-----------------------------------------------------------------------------
\* semaphore_acquire takes a unit if there is one and else enters the queue,
\* from its first call or after a wake.
SemAcquire(c, t) ==
    /\ \E point \in {"body", "acquire"} : At(c, t, point)
    /\ \/ /\ count > 0
          /\ count' = count - 1
          /\ Go(t, "critical")
          /\ UNCHANGED <<waiting_on, waiters>>
       \/ /\ count = 0
          /\ Enqueue(SemQueue, t)
          /\ Go(t, "block")
          /\ UNCHANGED count
    /\ UNCHANGED <<state, sleep_until, queueVars, cpuVars, now, exiting, cpu, faults, blocked>>

\* Mutant: the unit is not taken.
MutSemTryAcquire(c, t) ==
    /\ At(c, t, "body")
    /\ Go(t, IF count > 0 THEN "critical" ELSE "body")
    /\ UNCHANGED <<taskVars, queueVars, cpuVars, now, exiting, cpu, faults, waitVars, count>>

\* semaphore_try_acquire
SemTryAcquire(c, t) ==
    /\ At(c, t, "body")
    /\ count' = IF count > 0 THEN count - 1 ELSE 0
    /\ Go(t, IF count > 0 THEN "critical" ELSE "body")
    /\ UNCHANGED <<taskVars, queueVars, cpuVars, now, exiting, cpu, faults, waitVars>>

\* Mutant: a waiter is taken out only when the count was zero.
MutSemRelease(c, t) ==
    /\ At(c, t, "critical")
    /\ count' = count + 1
    /\ \/ /\ count = 0
          /\ Dequeue(SemQueue, t)
          /\ Go(t, IF waiters[SemQueue] = <<>> THEN "body" ELSE "wake")
       \/ /\ count > 0
          /\ Go(t, "body")
          /\ UNCHANGED <<waitVars, waiting_on>>
    /\ UNCHANGED <<state, sleep_until, queueVars, cpuVars, now, exiting, cpu, faults>>

\* The critical section of semaphore_release.
SemRelease(c, t) ==
    /\ At(c, t, "critical")
    /\ \/ /\ count < InitialCount
          /\ count' = count + 1
          /\ Dequeue(SemQueue, t)
          /\ Go(t, IF waiters[SemQueue] = <<>> THEN "body" ELSE "wake")
          /\ UNCHANGED <<cpu, faults>>
       \/ /\ count >= InitialCount
          /\ Panic(c, "no one has held this semaphore")
          /\ UNCHANGED <<count, waitVars, waiting_on, pc>>
    /\ UNCHANGED <<state, sleep_until, queueVars, cpuVars, now, exiting>>

SemOps(c, t) ==
    \/ SemAcquire(c, t) \/ SemTryAcquire(c, t) \/ SemRelease(c, t)
    \/ (BlockCurrent(c, t) \/ BlockSwitch(c, t, "acquire") \/ WakeBlocked(c, t, "body")) /\ UNCHANGED count

=============================================================================
