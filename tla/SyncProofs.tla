---------------------------- MODULE SyncProofs -----------------------------
(***************************************************************************)
(* Mutex, semaphore, wait queues and run queues, for every number of CPUs, *)
(* tasks, units and every choice of what the tasks use: the holders of a   *)
(* mutex or semaphore are exactly those it counts, no wake-up of a release *)
(* is lost, and a task is in one queue at most.                            *)
(***************************************************************************)
EXTENDS Sync, SequenceTheorems, FiniteSetTheorems, TLAPS

LockUsers == {"mutex", "semaphore"}

\* The points of its code that a task executes only while it is RUNNING.
Working == {"body", "critical", "acquire", "wake", "notify", "wait"}

Points == Working \cup {"idle", "block", "block_switch", "wait_enqueue"}

\* Task t is where a waiter can be: on its way to block, or blocked.
Suspended(t) ==
    \/ role[t] \in LockUsers /\ pc[t] = "block" /\ state[t] # "BLOCKED"
    \/ role[t] \in LockUsers /\ pc[t] \in {"block_switch", "acquire"} /\ state[t] = "BLOCKED"
    \/ role[t] = "device" /\ pc[t] \in {"block_switch", "wait"} /\ state[t] = "BLOCKED"

TypeOK ==
    /\ state \in [AllTasks -> {"READY", "RUNNING", "BLOCKED"}]
    /\ waiting_on \in [AllTasks -> Queues \cup {Null}]
    /\ runnable \in [Cpus -> Seq(Tasks)]
    /\ sleeping = [c \in Cpus |-> <<>>]
    /\ exiting = {}
    /\ needs_cleanup = [c \in Cpus |-> FALSE]
    /\ current \in [Cpus -> AllTasks \cup {Null}]
    /\ next \in [Cpus -> AllTasks \cup {Null}]
    /\ cpu \in [Cpus -> CpuPoints]
    /\ pc \in [AllTasks -> Points]
    /\ waiters \in [Queues -> Seq(Tasks)]
    /\ blocked \in [Tasks -> Tasks \cup {Null}]
    /\ woken \in [Cpus -> Tasks \cup {Null}]
    /\ count \in Nat
    /\ role \in Roles

\* A task waits in the queue of what it uses, and only when it is suspended.
TaskOK(t) ==
    /\ pc[t] = "wait_enqueue" => state[t] = "BLOCKED" /\ waiting_on[t] = Null
    /\ waiting_on[t] # Null => Suspended(t) /\ state[t] # "READY"
    /\ waiting_on[t] = MutexQueue => role[t] = "mutex"
    /\ waiting_on[t] = SemQueue => role[t] = "semaphore"
    /\ waiting_on[t] = DoneQueue => role[t] = "device"
    /\ pc[t] = "wake" => blocked[t] # Null

\* What CPU c executes is ready to be executed there.
CpuOK(c) ==
    /\ current[c] # Null => Home[current[c]] = c
    /\ current[c] \in Tasks /\ cpu[c] = "run" =>
        /\ pc[current[c]] \in Working =>
               state[current[c]] = "RUNNING" /\ waiting_on[current[c]] = Null
        /\ pc[current[c]] = "block" => state[current[c]] = "RUNNING"
        /\ pc[current[c]] = "block_switch" /\ state[current[c]] = "RUNNING" =>
               waiting_on[current[c]] = Null
    /\ current[c] \in Tasks /\ cpu[c] = "ctx" =>
        state[current[c]] = "RUNNING" /\ waiting_on[current[c]] = Null
    /\ cpu[c] \in {"check", "commit"} => next[c] # Null /\ Home[next[c]] = c

\* Whoever is being woken has left its queue and waits for it, ...
TakenOut(t) == Suspended(t) /\ waiting_on[t] = Null

BlockedOK(u) == blocked[u] # Null => TakenOut(blocked[u]) /\ role[blocked[u]] \in LockUsers

WokenOK(c) == woken[c] # Null => TakenOut(woken[c]) /\ role[woken[c]] = "device"

\* ... and is woken by one waker only.
OneWaker ==
    /\ \A u, v \in Tasks : blocked[u] # Null /\ blocked[u] = blocked[v] => u = v
    /\ \A c, d \in Cpus : woken[c] # Null /\ woken[c] = woken[d] => c = d

\* The ready tasks of a CPU, and the one it has picked.
RunqOK(c) ==
    /\ IsInjective(runnable[c]) /\ next[c] \notin ToSet(runnable[c])
    /\ \A t \in Tasks : t \in ToSet(runnable[c]) \/ next[c] = t =>
        Home[t] = c /\ state[t] = "READY" /\ waiting_on[t] = Null

WaitqOK(q) ==
    /\ IsInjective(waiters[q])
    /\ \A t \in Tasks : t \in ToSet(waiters[q]) <=> waiting_on[t] = q

\* The inductive invariant about queues and wakers.
Structure ==
    /\ TypeOK
    /\ \A t \in Tasks : TaskOK(t)
    /\ \A c \in Cpus : CpuOK(c)
    /\ \A u \in Tasks : BlockedOK(u)
    /\ \A c \in Cpus : WokenOK(c)
    /\ OneWaker
    /\ \A c \in Cpus : RunqOK(c)
    /\ \A q \in Queues : WaitqOK(q)

-----------------------------------------------------------------------------
(* Queues are sequences in which no task occurs twice.                     *)

LEMMA EmptyQueue ==
    /\ \A x : x \notin ToSet(<<>>)
    /\ IsInjective(<<>>)
  BY DEF ToSet, IsInjective

(* What an enqueue leaves in a queue.                                      *)
LEMMA AppendQueue ==
    ASSUME NEW S, NEW s \in Seq(S), NEW e \in S
    PROVE  /\ Append(s, e) \in Seq(S)
           /\ Append(s, e) # <<>>
           /\ \A x : x \in ToSet(Append(s, e)) <=> x \in ToSet(s) \/ x = e
           /\ IsInjective(s) /\ e \notin ToSet(s) => IsInjective(Append(s, e))
  <1> DEFINE a == Append(s, e)
             n == Len(s)
  <1>1. /\ a \in Seq(S) /\ a # <<>> /\ Len(a) = n + 1 /\ n \in Nat
        /\ \A i \in 1..n : a[i] = s[i]
        /\ a[n + 1] = e
    BY AppendProperties, LenProperties
  <1>2. DOMAIN a = 1..(n + 1) /\ DOMAIN s = 1..n
    BY <1>1, LenProperties
  <1> HIDE DEF a, n
  <1>3. ASSUME NEW x PROVE x \in ToSet(a) <=> x \in ToSet(s) \/ x = e
    <2>1. ASSUME x \in ToSet(a) PROVE x \in ToSet(s) \/ x = e
      <3>1. PICK i \in 1..(n + 1) : x = a[i]
        BY <2>1, <1>2 DEF ToSet
      <3>2. CASE i = n + 1
        BY <3>1, <3>2, <1>1
      <3>3. CASE i \in 1..n
        BY <3>1, <3>3, <1>1, <1>2 DEF ToSet
      <3>4. QED
        BY <3>1, <3>2, <3>3, <1>1
    <2>2. ASSUME x \in ToSet(s) PROVE x \in ToSet(a)
      <3>1. PICK i \in 1..n : x = s[i]
        BY <2>2, <1>2 DEF ToSet
      <3>2. i \in DOMAIN a /\ a[i] = x
        BY <3>1, <1>1, <1>2
      <3>3. QED
        BY <3>2 DEF ToSet
    <2>3. ASSUME x = e PROVE x \in ToSet(a)
      <3>1. n + 1 \in DOMAIN a /\ a[n + 1] = x
        BY <2>3, <1>1, <1>2
      <3>2. QED
        BY <3>1 DEF ToSet
    <2>4. QED
      BY <2>1, <2>2, <2>3
  <1>4. ASSUME IsInjective(s), e \notin ToSet(s) PROVE IsInjective(a)
    <2>1. \A i \in 1..n : s[i] # e
      BY <1>4, <1>2 DEF ToSet
    <2>2. \A i, j \in 1..n : s[i] = s[j] => i = j
      BY <1>4, <1>2 DEF IsInjective
    <2>3. \A i, j \in 1..(n + 1) : a[i] = a[j] => i = j
      BY <2>1, <2>2, <1>1
    <2>4. QED
      BY <2>3, <1>2 DEF IsInjective
  <1>5. QED
    BY <1>1, <1>3, <1>4 DEF a

(* What a dequeue takes out of a queue.                                    *)
LEMMA TailQueue ==
    ASSUME NEW S, NEW s \in Seq(S), s # <<>>
    PROVE  /\ Tail(s) \in Seq(S) /\ Head(s) \in S
           /\ Head(s) \in ToSet(s)
           /\ IsInjective(s) =>
                /\ IsInjective(Tail(s))
                /\ \A x : x \in ToSet(Tail(s)) <=> x \in ToSet(s) /\ x # Head(s)
  <1> DEFINE r == Tail(s)
             n == Len(s)
  <1>1. /\ r \in Seq(S) /\ Head(s) \in S /\ n \in Nat \ {0}
        /\ Len(r) = n - 1
        /\ \A i \in 1..(n - 1) : r[i] = s[i + 1]
    BY HeadTailProperties, EmptySeq
  <1>2. DOMAIN r = 1..(n - 1) /\ DOMAIN s = 1..n
    BY <1>1, LenProperties
  <1>3. Head(s) = s[1]
    OBVIOUS
  <1> HIDE DEF r, n
  <1>4. Head(s) \in ToSet(s)
    BY <1>1, <1>2, <1>3 DEF ToSet
  <1>5. ASSUME IsInjective(s)
        PROVE  IsInjective(r) /\ \A x : x \in ToSet(r) <=> x \in ToSet(s) /\ x # Head(s)
    <2>1. \A i, j \in 1..n : s[i] = s[j] => i = j
      BY <1>5, <1>2 DEF IsInjective
    <2>2. \A i, j \in 1..(n - 1) : r[i] = r[j] => i = j
      BY <2>1, <1>1
    <2>3. IsInjective(r)
      BY <2>2, <1>2 DEF IsInjective
    <2>4. ASSUME NEW x, x \in ToSet(r) PROVE x \in ToSet(s) /\ x # Head(s)
      <3>1. PICK i \in 1..(n - 1) : x = r[i]
        BY <2>4, <1>2 DEF ToSet
      <3>2. i + 1 \in 1..n /\ i + 1 # 1 /\ 1 \in 1..n /\ x = s[i + 1]
        BY <3>1, <1>1
      <3>3. QED
        BY <3>2, <2>1, <1>2, <1>3 DEF ToSet
    <2>5. ASSUME NEW x, x \in ToSet(s), x # Head(s) PROVE x \in ToSet(r)
      <3>1. PICK i \in 1..n : x = s[i]
        BY <2>5, <1>2 DEF ToSet
      <3>2. i - 1 \in 1..(n - 1) /\ (i - 1) + 1 = i
        BY <3>1, <2>5, <1>1, <1>3
      <3>3. r[i - 1] = x
        BY <3>1, <3>2, <1>1
      <3>4. QED
        BY <3>2, <3>3, <1>2 DEF ToSet
    <2>6. QED
      BY <2>3, <2>4, <2>5
  <1>6. QED
    BY <1>1, <1>4, <1>5 DEF r

(* The members of a queue of tasks are tasks.                              *)
LEMMA TaskQueue ==
    ASSUME NEW s \in Seq(Tasks)
    PROVE  ToSet(s) \subseteq Tasks
  BY LenProperties, ElementOfSeq DEF ToSet

-----------------------------------------------------------------------------
(* What the constants say of tasks, roles and queues.                      *)
LEMMA Constants ==
    /\ Tasks \subseteq AllTasks /\ Null \notin AllTasks /\ Null \notin Tasks
    /\ \A c \in Cpus : Idle[c] \in AllTasks /\ Idle[c] \notin Tasks
    /\ Null \notin Queues
    /\ MutexQueue \in Queues /\ SemQueue \in Queues /\ DoneQueue \in Queues
    /\ MutexQueue # Null /\ SemQueue # Null /\ DoneQueue # Null
    /\ \A r \in Roles, t \in Tasks : r[t] \in {"mutex", "semaphore", "device", "compute"}
  <1>1. \A c \in Cpus : Idle[c] \in AllTasks /\ Idle[c] \in {Idle[c], Cleanup[c]}
    BY SchedAssumption
  <1>2. \A c \in Cpus : Idle[c] \notin Tasks
    BY <1>1, SchedAssumption
  <1>3. Tasks \subseteq AllTasks /\ Null \notin AllTasks
    BY SchedAssumption
  <1>4. QED
    BY <1>1, <1>2, <1>3, SyncAssumption

(* The state that tasks, queues and wakers depend on.                      *)
queueing == <<state, waiting_on, runnable, current, next, waiters, role>>

quiet == <<sleeping, exiting, needs_cleanup>>

(* Steps that move only CPUs: to an interrupt's switch, to a halt or, when *)
(* a context switch ends, to the task that was picked.  A handler that     *)
(* halts forgets whom it was to wake.                                      *)
LEMMA CpuOnly ==
    ASSUME Structure,
           UNCHANGED queueing, UNCHANGED quiet, UNCHANGED blocked, count' \in Nat,
           woken' \in [Cpus -> Tasks \cup {Null}],
           \A c \in Cpus : woken'[c] = woken[c] \/ woken'[c] = Null,
           pc' \in [AllTasks -> Points], \A t \in Tasks : pc'[t] = pc[t],
           cpu' \in [Cpus -> CpuPoints],
           \A c \in Cpus : cpu'[c] \in {"run", "ctx"} => cpu[c] = cpu'[c] \/ cpu[c] = "ctx",
           \A c \in Cpus : cpu'[c] \in {"check", "commit"} => cpu[c] \in {"check", "commit"}
    PROVE  Structure'
  <1> USE Constants
  <1>1. TypeOK'
    BY DEF Structure, TypeOK, queueing, quiet
  <1>2. \A t \in Tasks : Suspended(t)' <=> Suspended(t)
    BY DEF queueing, Suspended
  <1>3. \A t \in Tasks : TaskOK(t)'
    BY <1>2 DEF Structure, TaskOK, queueing
  <1>4. \A c \in Cpus : CpuOK(c)'
    <2> SUFFICES ASSUME NEW c \in Cpus PROVE CpuOK(c)'
      OBVIOUS
    <2>1. CpuOK(c) /\ current'[c] = current[c]
      BY DEF Structure, queueing
    <2>2. cpu'[c] \in {"run", "ctx"} => cpu[c] = cpu'[c] \/ cpu[c] = "ctx"
      OBVIOUS
    <2>3. current[c] \in Tasks => pc'[current[c]] = pc[current[c]]
      OBVIOUS
    <2>4. cpu'[c] \in {"check", "commit"} => cpu[c] \in {"check", "commit"}
      OBVIOUS
    <2>5. QED
      BY <2>1, <2>2, <2>3, <2>4 DEF CpuOK, queueing
  <1>5. \A u \in Tasks : BlockedOK(u)'
    BY <1>2 DEF Structure, TypeOK, BlockedOK, TakenOut, queueing
  <1>6. \A c \in Cpus : WokenOK(c)'
    BY <1>2 DEF Structure, TypeOK, WokenOK, TakenOut, queueing
  <1>7. OneWaker' /\ (\A c \in Cpus : RunqOK(c)') /\ (\A q \in Queues : WaitqOK(q)')
    BY DEF Structure, OneWaker, RunqOK, WaitqOK, queueing
  <1>8. QED
    BY <1>1, <1>3, <1>4, <1>5, <1>6, <1>7 DEF Structure

(* A task that works leaves the queues alone when it goes on to other      *)
(* work, or halts its CPU; it may forget whom it was to wake.              *)
LEMMA WorkOn ==
    ASSUME Structure, NEW c \in Cpus, NEW t \in Tasks, Runs(c, t),
           pc[t] \in Working,
           NEW to \in Working \ {"wake"}, Go(t, to),
           UNCHANGED queueing, UNCHANGED quiet, UNCHANGED woken, count' \in Nat,
           blocked' \in [Tasks -> Tasks \cup {Null}],
           \A u \in Tasks : blocked'[u] = blocked[u] \/ (u = t /\ blocked'[u] = Null),
           cpu' \in [Cpus -> CpuPoints],
           \A d \in Cpus : cpu'[d] = cpu[d] \/ cpu'[d] = "halted"
    PROVE  Structure'
  <1> USE Constants
  <1>0. pc \in [AllTasks -> Points] /\ to \in Points
    BY DEF Structure, TypeOK, Points
  <1>1. pc'[t] = to /\ \A u \in AllTasks : u # t => pc'[u] = pc[u]
    BY <1>0 DEF Go
  <1>2. state[t] = "RUNNING" /\ waiting_on[t] = Null /\ Home[t] = c
    BY DEF Structure, CpuOK, Runs
  <1>3. TypeOK'
    BY <1>0 DEF Structure, TypeOK, queueing, quiet, Go
  <1>4. ~Suspended(t) /\ \A u \in Tasks : u # t => (Suspended(u)' <=> Suspended(u))
    BY <1>1, <1>2 DEF Suspended, queueing, Working
  <1>5. \A u \in Tasks : TaskOK(u)'
    <2> SUFFICES ASSUME NEW u \in Tasks PROVE TaskOK(u)'
      OBVIOUS
    <2>1. CASE u = t
      BY <2>1, <1>1, <1>2 DEF TaskOK, queueing, Working
    <2>2. CASE u # t
      BY <2>2, <1>1, <1>4 DEF Structure, TaskOK, queueing
    <2>3. QED
      BY <2>1, <2>2
  <1>6. \A d \in Cpus : CpuOK(d)'
    <2> SUFFICES ASSUME NEW d \in Cpus PROVE CpuOK(d)'
      OBVIOUS
    <2>1. CpuOK(d) /\ current'[d] = current[d] /\ (cpu'[d] = cpu[d] \/ cpu'[d] = "halted")
      BY DEF Structure, queueing
    <2>2. CASE current[d] = t
      BY <2>1, <2>2, <1>1, <1>2 DEF CpuOK, queueing, Working
    <2>3. CASE current[d] # t
      BY <2>1, <2>3, <1>1 DEF CpuOK, queueing
    <2>4. QED
      BY <2>2, <2>3
  <1>7. \A u \in Tasks : BlockedOK(u)'
    BY <1>4 DEF Structure, TypeOK, BlockedOK, TakenOut, queueing
  <1>8. \A d \in Cpus : WokenOK(d)'
    BY <1>4 DEF Structure, TypeOK, WokenOK, TakenOut, queueing
  <1>9. OneWaker' /\ (\A d \in Cpus : RunqOK(d)') /\ (\A q \in Queues : WaitqOK(q)')
    BY DEF Structure, OneWaker, RunqOK, WaitqOK, queueing
  <1>10. QED
    BY <1>3, <1>5, <1>6, <1>7, <1>8, <1>9 DEF Structure

(* A task that executes on a CPU and is not suspended enters the queue of  *)
(* what it uses.                                                           *)
LEMMA JoinsQueue ==
    ASSUME Structure, NEW c \in Cpus, NEW t \in Tasks, Runs(c, t),
           waiting_on[t] = Null, ~Suspended(t), state[t] # "READY",
           NEW q \in Queues, Enqueue(q, t),
           q = MutexQueue => role[t] = "mutex",
           q = SemQueue => role[t] = "semaphore",
           q = DoneQueue => role[t] = "device",
           NEW to, Go(t, to),
           \/ to = "block" /\ state[t] = "RUNNING" /\ role[t] \in LockUsers
           \/ to = "block_switch" /\ state[t] = "BLOCKED" /\ role[t] = "device",
           UNCHANGED <<state, runnable, current, next, blocked, woken, role, count, cpu>>,
           UNCHANGED quiet
    PROVE  Structure'
  <1> USE Constants
  <1>0. pc \in [AllTasks -> Points] /\ to \in Points /\ waiters \in [Queues -> Seq(Tasks)]
        /\ waiting_on \in [AllTasks -> Queues \cup {Null}]
    BY DEF Structure, TypeOK, Points
  <1>1. pc'[t] = to /\ \A u \in AllTasks : u # t => pc'[u] = pc[u]
    BY <1>0 DEF Go
  <1>2. waiting_on'[t] = q /\ \A u \in AllTasks : u # t => waiting_on'[u] = waiting_on[u]
    BY <1>0 DEF Enqueue
  <1>3. waiters'[q] = Append(waiters[q], t) /\ \A r \in Queues : r # q => waiters'[r] = waiters[r]
    BY <1>0 DEF Enqueue
  <1>4. waiters[q] \in Seq(Tasks) /\ t \notin ToSet(waiters[q]) /\ IsInjective(waiters[q])
    BY <1>0 DEF Structure, WaitqOK
  <1>5. /\ waiters'[q] \in Seq(Tasks) /\ IsInjective(waiters'[q])
        /\ \A x : x \in ToSet(waiters'[q]) <=> x \in ToSet(waiters[q]) \/ x = t
    BY <1>3, <1>4, AppendQueue
  <1>6. TypeOK'
    <2>1. waiters' \in [Queues -> Seq(Tasks)]
      BY <1>0, <1>4, AppendQueue DEF Enqueue
    <2>2. pc' \in [AllTasks -> Points] /\ waiting_on' \in [AllTasks -> Queues \cup {Null}]
      BY <1>0 DEF Go, Enqueue
    <2>3. QED
      BY <2>1, <2>2 DEF Structure, TypeOK, quiet
  <1>7. Suspended(t)' /\ \A u \in Tasks : u # t => (Suspended(u)' <=> Suspended(u))
    BY <1>1 DEF Suspended
  <1>8. \A u \in Tasks : TaskOK(u)'
    <2> SUFFICES ASSUME NEW u \in Tasks PROVE TaskOK(u)'
      OBVIOUS
    <2>1. CASE u = t
      BY <2>1, <1>1, <1>2, <1>7 DEF TaskOK
    <2>2. CASE u # t
      BY <2>2, <1>1, <1>2, <1>7 DEF Structure, TaskOK
    <2>3. QED
      BY <2>1, <2>2
  <1>9. \A d \in Cpus : CpuOK(d)'
    <2> SUFFICES ASSUME NEW d \in Cpus PROVE CpuOK(d)'
      OBVIOUS
    <2>1. CpuOK(d) /\ current'[d] = current[d] /\ cpu'[d] = cpu[d]
      BY DEF Structure
    <2>2. CASE current[d] = t
      <3>1. d = c
        BY <2>1, <2>2 DEF Structure, CpuOK, Runs
      <3>2. QED
        BY <3>1, <2>1, <2>2, <1>1, <1>2 DEF CpuOK, Working, Runs
    <2>3. CASE current[d] # t
      BY <2>1, <2>3, <1>1, <1>2 DEF CpuOK
    <2>4. QED
      BY <2>2, <2>3
  <1>10. \A u \in Tasks : BlockedOK(u)'
    BY <1>2, <1>7 DEF Structure, TypeOK, BlockedOK, TakenOut
  <1>11. \A d \in Cpus : WokenOK(d)'
    BY <1>2, <1>7 DEF Structure, TypeOK, WokenOK, TakenOut
  <1>12. OneWaker'
    BY DEF Structure, OneWaker
  <1>13. \A d \in Cpus : RunqOK(d)'
    BY <1>2 DEF Structure, RunqOK
  <1>14. \A r \in Queues : WaitqOK(r)'
    <2> SUFFICES ASSUME NEW r \in Queues PROVE WaitqOK(r)'
      OBVIOUS
    <2>1. WaitqOK(r)
      BY DEF Structure
    <2>2. CASE r = q
      BY <2>1, <2>2, <1>2, <1>5 DEF WaitqOK
    <2>3. CASE r # q
      BY <2>1, <2>3, <1>2, <1>3 DEF WaitqOK
    <2>4. QED
      BY <2>2, <2>3
  <1>15. QED
    BY <1>6, <1>8, <1>9, <1>10, <1>11, <1>12, <1>13, <1>14 DEF Structure

(* scheduler_block_current of a task that is in a queue still.             *)
LEMMA Blocks ==
    ASSUME Structure, NEW c \in Cpus, NEW t \in Tasks, At(c, t, "block"),
           state[t] = "RUNNING", waiting_on[t] # Null,
           state' = [state EXCEPT ![t] = "BLOCKED"], Go(t, "block_switch"),
           UNCHANGED <<waiting_on, runnable, current, next, waiters, blocked, woken, role, count, cpu>>,
           UNCHANGED quiet
    PROVE  Structure'
  <1> USE Constants
  <1>0. pc \in [AllTasks -> Points] /\ state \in [AllTasks -> {"READY", "RUNNING", "BLOCKED"}]
        /\ "block_switch" \in Points
    BY DEF Structure, TypeOK, Points
  <1>1. pc'[t] = "block_switch" /\ \A u \in AllTasks : u # t => pc'[u] = pc[u]
    BY <1>0 DEF Go
  <1>2. state'[t] = "BLOCKED" /\ \A u \in AllTasks : u # t => state'[u] = state[u]
    BY <1>0
  <1>3. TypeOK'
    <2>1. pc' \in [AllTasks -> Points] /\ state' \in [AllTasks -> {"READY", "RUNNING", "BLOCKED"}]
      BY <1>0 DEF Go
    <2>2. QED
      BY <2>1 DEF Structure, TypeOK, quiet
  <1>4. role[t] \in LockUsers
    BY DEF Structure, TaskOK, Suspended, At
  <1>5. Suspended(t)' /\ \A u \in Tasks : u # t => (Suspended(u)' <=> Suspended(u))
    BY <1>1, <1>2, <1>4 DEF Suspended
  <1>6. \A u \in Tasks : TaskOK(u)'
    <2> SUFFICES ASSUME NEW u \in Tasks PROVE TaskOK(u)'
      OBVIOUS
    <2>1. CASE u = t
      BY <2>1, <1>1, <1>2, <1>5 DEF Structure, TaskOK
    <2>2. CASE u # t
      BY <2>2, <1>1, <1>2, <1>5 DEF Structure, TaskOK
    <2>3. QED
      BY <2>1, <2>2
  <1>7. \A d \in Cpus : CpuOK(d)'
    <2> SUFFICES ASSUME NEW d \in Cpus PROVE CpuOK(d)'
      OBVIOUS
    <2>1. CpuOK(d) /\ current'[d] = current[d] /\ cpu'[d] = cpu[d]
      BY DEF Structure
    <2>2. CASE current[d] = t
      <3>1. d = c
        BY <2>1, <2>2 DEF Structure, CpuOK, Runs, At
      <3>2. QED
        BY <3>1, <2>1, <2>2, <1>1, <1>2 DEF CpuOK, Working, Runs, At
    <2>3. CASE current[d] # t
      BY <2>1, <2>3, <1>1, <1>2 DEF CpuOK
    <2>4. QED
      BY <2>2, <2>3
  <1>8. \A u \in Tasks : BlockedOK(u)'
    BY <1>5 DEF Structure, TypeOK, BlockedOK, TakenOut
  <1>9. \A d \in Cpus : WokenOK(d)'
    BY <1>5 DEF Structure, TypeOK, WokenOK, TakenOut
  <1>10. OneWaker' /\ \A q \in Queues : WaitqOK(q)'
    BY DEF Structure, OneWaker, WaitqOK
  <1>11. \A d \in Cpus : RunqOK(d)'
    BY <1>2 DEF Structure, RunqOK
  <1>12. QED
    BY <1>3, <1>6, <1>7, <1>8, <1>9, <1>10, <1>11 DEF Structure

(* The switch that follows; the task goes on later where it tries again.   *)
LEMMA SwitchesAway ==
    ASSUME Structure, NEW c \in Cpus, NEW t \in Tasks, NEW to, BlockSwitch(c, t, to),
           \/ role[t] \in LockUsers /\ to = "acquire"
           \/ role[t] = "device" /\ to = "wait",
           UNCHANGED <<woken, role, count>>
    PROVE  Structure'
  <1> USE Constants
  <1>0. pc \in [AllTasks -> Points] /\ cpu \in [Cpus -> CpuPoints] /\ to \in Points
    BY DEF Structure, TypeOK, Points, Working
  <1>1. pc'[t] = to /\ \A u \in AllTasks : u # t => pc'[u] = pc[u]
    BY <1>0 DEF BlockSwitch, CallSwitch
  <1>2. cpu'[c] = "enter" /\ \A d \in Cpus : d # c => cpu'[d] = cpu[d]
    BY <1>0 DEF BlockSwitch, CallSwitch
  <1>3. /\ UNCHANGED queueing /\ UNCHANGED quiet /\ UNCHANGED blocked
        /\ pc[t] = "block_switch" /\ current[c] = t
    BY DEF queueing, quiet, BlockSwitch, taskVars, queueVars, cpuVars, waitVars, At, Runs
  <1>4. TypeOK'
    <2>1. pc' \in [AllTasks -> Points] /\ cpu' \in [Cpus -> CpuPoints]
      BY <1>0 DEF BlockSwitch, CallSwitch, CpuPoints
    <2>2. QED
      BY <2>1, <1>3 DEF Structure, TypeOK, quiet, queueing
  <1>5. \A u \in Tasks : Suspended(u)' <=> Suspended(u)
    BY <1>1, <1>3 DEF Suspended, queueing, LockUsers
  <1>6. \A u \in Tasks : TaskOK(u)'
    <2> SUFFICES ASSUME NEW u \in Tasks PROVE TaskOK(u)'
      OBVIOUS
    <2>1. CASE u = t
      BY <2>1, <1>1, <1>3, <1>5 DEF Structure, TaskOK, queueing
    <2>2. CASE u # t
      BY <2>2, <1>1, <1>3, <1>5 DEF Structure, TaskOK, queueing
    <2>3. QED
      BY <2>1, <2>2
  <1>7. \A d \in Cpus : CpuOK(d)'
    <2> SUFFICES ASSUME NEW d \in Cpus PROVE CpuOK(d)'
      OBVIOUS
    <2>1. CpuOK(d) /\ current'[d] = current[d]
      BY <1>3 DEF Structure, queueing
    <2>2. CASE d = c
      BY <2>1, <2>2, <1>2, <1>3 DEF CpuOK
    <2>3. CASE d # c
      <3>1. current[d] # t
        BY <2>1, <2>3, <1>3 DEF Structure, CpuOK
      <3>2. QED
        BY <3>1, <2>1, <2>3, <1>1, <1>2, <1>3 DEF CpuOK, queueing
    <2>4. QED
      BY <2>2, <2>3
  <1>8. \A u \in Tasks : BlockedOK(u)'
    BY <1>3, <1>5 DEF Structure, TypeOK, BlockedOK, TakenOut, queueing
  <1>9. \A d \in Cpus : WokenOK(d)'
    BY <1>3, <1>5 DEF Structure, TypeOK, WokenOK, TakenOut, queueing
  <1>10. OneWaker' /\ (\A d \in Cpus : RunqOK(d)') /\ (\A q \in Queues : WaitqOK(q)')
    BY <1>3 DEF Structure, OneWaker, RunqOK, WaitqOK, queueing
  <1>11. QED
    BY <1>4, <1>6, <1>7, <1>8, <1>9, <1>10 DEF Structure

(* completion_wait finds no answer and blocks the task, which is in no     *)
(* queue yet.                                                              *)
LEMMA BlocksFirst ==
    ASSUME Structure, NEW c \in Cpus, NEW t \in Tasks, At(c, t, "wait"), role[t] = "device",
           state' = [state EXCEPT ![t] = "BLOCKED"], Go(t, "wait_enqueue"),
           UNCHANGED <<waiting_on, runnable, current, next, waiters, blocked, woken, role, count, cpu>>,
           UNCHANGED quiet
    PROVE  Structure'
  <1> USE Constants
  <1>0. pc \in [AllTasks -> Points] /\ state \in [AllTasks -> {"READY", "RUNNING", "BLOCKED"}]
        /\ "wait_enqueue" \in Points
    BY DEF Structure, TypeOK, Points
  <1>1. pc'[t] = "wait_enqueue" /\ \A u \in AllTasks : u # t => pc'[u] = pc[u]
    BY <1>0 DEF Go
  <1>2. state'[t] = "BLOCKED" /\ \A u \in AllTasks : u # t => state'[u] = state[u]
    BY <1>0
  <1>3. state[t] = "RUNNING" /\ waiting_on[t] = Null /\ Home[t] = c
    BY DEF Structure, CpuOK, Runs, At, Working
  <1>4. TypeOK'
    <2>1. pc' \in [AllTasks -> Points] /\ state' \in [AllTasks -> {"READY", "RUNNING", "BLOCKED"}]
      BY <1>0 DEF Go
    <2>2. QED
      BY <2>1 DEF Structure, TypeOK, quiet
  <1>5. ~Suspended(t) /\ \A u \in Tasks : u # t => (Suspended(u)' <=> Suspended(u))
    BY <1>1, <1>2, <1>3 DEF Suspended, LockUsers, At
  <1>6. \A u \in Tasks : TaskOK(u)'
    <2> SUFFICES ASSUME NEW u \in Tasks PROVE TaskOK(u)'
      OBVIOUS
    <2>1. CASE u = t
      BY <2>1, <1>1, <1>2, <1>3 DEF TaskOK
    <2>2. CASE u # t
      BY <2>2, <1>1, <1>2, <1>5 DEF Structure, TaskOK
    <2>3. QED
      BY <2>1, <2>2
  <1>7. \A d \in Cpus : CpuOK(d)'
    <2> SUFFICES ASSUME NEW d \in Cpus PROVE CpuOK(d)'
      OBVIOUS
    <2>1. CpuOK(d) /\ current'[d] = current[d] /\ cpu'[d] = cpu[d]
      BY DEF Structure
    <2>2. CASE current[d] = t
      <3>1. d = c
        BY <2>1, <2>2, <1>3 DEF CpuOK
      <3>2. QED
        BY <3>1, <2>1, <2>2, <1>1, <1>2 DEF CpuOK, Working, Runs, At
    <2>3. CASE current[d] # t
      BY <2>1, <2>3, <1>1, <1>2 DEF CpuOK
    <2>4. QED
      BY <2>2, <2>3
  <1>8. \A u \in Tasks : BlockedOK(u)'
    BY <1>5 DEF Structure, TypeOK, BlockedOK, TakenOut
  <1>9. \A d \in Cpus : WokenOK(d)'
    BY <1>5 DEF Structure, TypeOK, WokenOK, TakenOut
  <1>10. OneWaker' /\ \A q \in Queues : WaitqOK(q)'
    BY DEF Structure, OneWaker, WaitqOK
  <1>11. \A d \in Cpus : RunqOK(d)'
    BY <1>2, <1>3 DEF Structure, RunqOK
  <1>12. QED
    BY <1>4, <1>6, <1>7, <1>8, <1>9, <1>10, <1>11 DEF Structure

(* The first waiter h leaves queue q: what does not depend on who wakes it. *)
LEMMA LeavesQueue ==
    ASSUME Structure, NEW q \in Queues, waiters[q] # <<>>,
           NEW h, h = Head(waiters[q]),
           waiters' = [waiters EXCEPT ![q] = Tail(@)],
           waiting_on' = [waiting_on EXCEPT ![h] = Null],
           UNCHANGED <<state, runnable, next>>
    PROVE  /\ h \in Tasks /\ waiting_on[h] = q /\ Suspended(h) /\ state[h] # "READY"
           /\ waiting_on'[h] = Null /\ \A u \in AllTasks : u # h => waiting_on'[u] = waiting_on[u]
           /\ waiters' \in [Queues -> Seq(Tasks)]
           /\ waiting_on' \in [AllTasks -> Queues \cup {Null}]
           /\ \A d \in Cpus : RunqOK(d)'
           /\ \A r \in Queues : WaitqOK(r)'
  <1> USE Constants
  <1>0. waiters \in [Queues -> Seq(Tasks)] /\ waiting_on \in [AllTasks -> Queues \cup {Null}]
    BY DEF Structure, TypeOK
  <1>1. waiters'[q] = Tail(waiters[q]) /\ \A r \in Queues : r # q => waiters'[r] = waiters[r]
    BY <1>0
  <1>2. waiters[q] \in Seq(Tasks) /\ WaitqOK(q)
    BY <1>0 DEF Structure
  <1>3. /\ h \in Tasks /\ h \in ToSet(waiters[q])
        /\ waiters'[q] \in Seq(Tasks) /\ IsInjective(waiters'[q])
        /\ \A x : x \in ToSet(waiters'[q]) <=> x \in ToSet(waiters[q]) /\ x # h
    BY <1>1, <1>2, TailQueue DEF WaitqOK
  <1>4. waiting_on[h] = q /\ Suspended(h) /\ state[h] # "READY"
    BY <1>2, <1>3 DEF Structure, WaitqOK, TaskOK
  <1>5. waiting_on'[h] = Null /\ \A u \in AllTasks : u # h => waiting_on'[u] = waiting_on[u]
    BY <1>0, <1>3
  <1>6. waiters' \in [Queues -> Seq(Tasks)] /\ waiting_on' \in [AllTasks -> Queues \cup {Null}]
    BY <1>0, <1>1, <1>3
  <1>7. \A d \in Cpus : RunqOK(d)'
    BY <1>5 DEF Structure, RunqOK
  <1>8. \A r \in Queues : WaitqOK(r)'
    <2> SUFFICES ASSUME NEW r \in Queues PROVE WaitqOK(r)'
      OBVIOUS
    <2>1. WaitqOK(r)
      BY DEF Structure
    <2>2. CASE r = q
      BY <2>1, <2>2, <1>3, <1>5 DEF WaitqOK
    <2>3. CASE r # q
      BY <2>1, <2>3, <1>1, <1>4, <1>5 DEF WaitqOK
    <2>4. QED
      BY <2>2, <2>3
  <1>9. QED
    BY <1>3, <1>4, <1>5, <1>6, <1>7, <1>8

(* The release of a mutex or semaphore takes out the first waiter.         *)
LEMMA TakesOut ==
    ASSUME Structure, NEW c \in Cpus, NEW t \in Tasks, At(c, t, "critical"),
           NEW q \in Queues, q \in {MutexQueue, SemQueue}, waiters[q] # <<>>,
           Dequeue(q, t), Go(t, "wake"),
           UNCHANGED <<state, runnable, current, next, woken, role, cpu>>, UNCHANGED quiet,
           count' \in Nat
    PROVE  /\ Structure'
           /\ \E h \in Tasks : /\ h # t /\ role[h] \in LockUsers /\ waiting_on[h] = q
                               /\ waiting_on' = [waiting_on EXCEPT ![h] = Null]
                               /\ pc[h] \in {"block", "block_switch", "acquire"}
  <1> USE Constants
  <1> DEFINE hd == Head(waiters[q])
  <1>a. PICK h : h = hd
    OBVIOUS
  <1>b. q \in Queues /\ waiters[q] \in Seq(Tasks)
    BY DEF Structure, TypeOK
  <1>c. h \in Tasks
    BY <1>a, <1>b, TailQueue
  <1>d. /\ waiters' = [waiters EXCEPT ![q] = Tail(@)]
        /\ waiting_on' = [waiting_on EXCEPT ![h] = Null]
        /\ blocked' = [blocked EXCEPT ![t] = h]
    BY <1>a, <1>c DEF Dequeue
  <1> HIDE DEF hd
  <1>1. /\ waiting_on[h] = q /\ Suspended(h) /\ state[h] # "READY"
        /\ waiting_on'[h] = Null /\ \A u \in AllTasks : u # h => waiting_on'[u] = waiting_on[u]
        /\ waiters' \in [Queues -> Seq(Tasks)]
        /\ waiting_on' \in [AllTasks -> Queues \cup {Null}]
        /\ \A d \in Cpus : RunqOK(d)'
        /\ \A r \in Queues : WaitqOK(r)'
    <2>1. state' = state /\ runnable' = runnable /\ next' = next /\ h = Head(waiters[q]) /\ waiters[q] # <<>>
      BY <1>a DEF hd
    <2>2. Structure
      OBVIOUS
    <2>3. QED
      BY ONLY <2>1, <2>2, <1>b, <1>d, LeavesQueue
  <1>0. pc \in [AllTasks -> Points] /\ "wake" \in Points /\ blocked \in [Tasks -> Tasks \cup {Null}]
    BY DEF Structure, TypeOK, Points, Working
  <1>2. pc'[t] = "wake" /\ \A u \in AllTasks : u # t => pc'[u] = pc[u]
    BY <1>0 DEF Go
  <1>3. blocked'[t] = h /\ \A u \in Tasks : u # t => blocked'[u] = blocked[u]
    BY <1>0, <1>d
  <1>4. state[t] = "RUNNING" /\ waiting_on[t] = Null /\ Home[t] = c /\ pc[t] = "critical"
    BY DEF Structure, CpuOK, Runs, At, Working
  <1>5. h # t /\ role[h] \in LockUsers
    BY <1>1, <1>4, <1>b, <1>c DEF Structure, TaskOK, LockUsers
  <1>6. pc[h] \in {"block", "block_switch", "acquire"}
    BY <1>1, <1>5 DEF Suspended, LockUsers
  <1>7. TypeOK'
    <2>1. pc' \in [AllTasks -> Points] /\ blocked' \in [Tasks -> Tasks \cup {Null}]
      BY <1>0, <1>c, <1>d DEF Go
    <2>2. QED
      BY <2>1, <1>1 DEF Structure, TypeOK, quiet
  <1>8. ~Suspended(t) /\ ~Suspended(t)' /\ \A u \in Tasks : u # t => (Suspended(u)' <=> Suspended(u))
    BY <1>2, <1>4 DEF Suspended
  <1>9. \A u \in Tasks : TaskOK(u)'
    <2> SUFFICES ASSUME NEW u \in Tasks PROVE TaskOK(u)'
      OBVIOUS
    <2>1. CASE u = t
      BY <2>1, <1>1, <1>2, <1>3, <1>4, <1>5, <1>c DEF TaskOK
    <2>2. CASE u # t /\ u # h
      BY SMTT(30), <2>2, <1>1, <1>2, <1>3, <1>8 DEF Structure, TaskOK
    <2>3. CASE u = h
      BY <2>3, <1>1, <1>2, <1>3, <1>5, <1>6, <1>8 DEF Structure, TaskOK
    <2>4. QED
      BY <2>1, <2>2, <2>3
  <1>10. \A d \in Cpus : CpuOK(d)'
    <2> SUFFICES ASSUME NEW d \in Cpus PROVE CpuOK(d)'
      OBVIOUS
    <2>1. CpuOK(d) /\ current'[d] = current[d] /\ cpu'[d] = cpu[d]
      BY DEF Structure
    <2>2. CASE current[d] = t
      BY <2>1, <2>2, <1>1, <1>2, <1>4, <1>5 DEF CpuOK, Working
    <2>3. CASE current[d] # t
      BY <2>1, <2>3, <1>1, <1>2 DEF CpuOK
    <2>4. QED
      BY <2>2, <2>3
  <1>11. \A u \in Tasks : BlockedOK(u)'
    <2> SUFFICES ASSUME NEW u \in Tasks, blocked'[u] # Null PROVE BlockedOK(u)'
      BY DEF BlockedOK
    <2>1. CASE u = t
      BY <2>1, <1>1, <1>3, <1>5, <1>8, <1>c DEF BlockedOK, TakenOut
    <2>2. CASE u # t
      <3>1. blocked[u] \in Tasks /\ BlockedOK(u) /\ blocked'[u] = blocked[u]
        BY <2>2, <1>0, <1>3 DEF Structure
      <3>2. blocked[u] # t
        BY <3>1, <1>8 DEF BlockedOK, TakenOut
      <3>3. QED
        BY <3>1, <3>2, <1>1, <1>8 DEF BlockedOK, TakenOut
    <2>3. QED
      BY <2>1, <2>2
  <1>12. \A d \in Cpus : WokenOK(d)'
    BY <1>1, <1>8 DEF Structure, TypeOK, WokenOK, TakenOut
  <1>13. OneWaker'
    <2>1. \A u \in Tasks : blocked[u] # h
      BY <1>1, <1>b, <1>c DEF Structure, BlockedOK, TakenOut
    <2>2. QED
      BY <2>1, <1>3 DEF Structure, OneWaker
  <1>14. QED
    BY <1>1, <1>5, <1>6, <1>7, <1>9, <1>10, <1>11, <1>12, <1>13, <1>c, <1>d DEF Structure

(* completion_signal takes out the first waiter.                           *)
LEMMA SignalTakesOut ==
    ASSUME Structure, NEW c \in Cpus, SignalDequeue(c), waiters[DoneQueue] # <<>>,
           UNCHANGED <<role, count>>
    PROVE  Structure'
  <1> USE Constants
  <1> DEFINE q == DoneQueue
             hd == Head(waiters[q])
  <1>a. PICK h : h = hd
    OBVIOUS
  <1>b. q \in Queues /\ waiters[q] \in Seq(Tasks)
    BY DEF Structure, TypeOK
  <1>c. h \in Tasks
    BY <1>a, <1>b, TailQueue
  <1>d. /\ waiters' = [waiters EXCEPT ![q] = Tail(@)]
        /\ waiting_on' = [waiting_on EXCEPT ![h] = Null]
        /\ woken' = [woken EXCEPT ![c] = h]
        /\ UNCHANGED <<state, runnable, current, next, blocked, cpu, pc>> /\ UNCHANGED quiet
    BY <1>a DEF SignalDequeue, kept, queueVars, cpuVars, quiet
  <1>1. /\ waiting_on[h] = q /\ Suspended(h) /\ state[h] # "READY"
        /\ waiting_on'[h] = Null /\ \A u \in AllTasks : u # h => waiting_on'[u] = waiting_on[u]
        /\ waiters' \in [Queues -> Seq(Tasks)]
        /\ waiting_on' \in [AllTasks -> Queues \cup {Null}]
        /\ \A d \in Cpus : RunqOK(d)'
        /\ \A r \in Queues : WaitqOK(r)'
    <2> HIDE DEF q
    <2>1. waiters[q] # <<>>
      BY DEF q
    <2>2. QED
      BY ZenonT(40), <2>1, <1>a, <1>b, <1>d, LeavesQueue
  <1>2. woken \in [Cpus -> Tasks \cup {Null}]
    BY DEF Structure, TypeOK
  <1>3. woken'[c] = h /\ \A d \in Cpus : d # c => woken'[d] = woken[d]
    BY <1>2, <1>d
  <1>4. role[h] = "device"
    BY <1>1, <1>c DEF Structure, TaskOK
  <1> HIDE DEF q, hd
  <1>5. TypeOK'
    <2>1. woken' \in [Cpus -> Tasks \cup {Null}]
      BY <1>2, <1>c, <1>d
    <2>2. QED
      BY <2>1, <1>1, <1>d DEF Structure, TypeOK, quiet
  <1>6. \A u \in Tasks : Suspended(u)' <=> Suspended(u)
    BY <1>d DEF Suspended
  <1>7. \A u \in Tasks : TaskOK(u)'
    <2> SUFFICES ASSUME NEW u \in Tasks PROVE TaskOK(u)'
      OBVIOUS
    <2>1. CASE u # h
      BY <2>1, <1>1, <1>6, <1>d DEF Structure, TaskOK
    <2>2. CASE u = h
      BY <2>2, <1>1, <1>4, <1>6, <1>d DEF Structure, TaskOK
    <2>3. QED
      BY <2>1, <2>2
  <1>8. \A d \in Cpus : CpuOK(d)'
    <2> SUFFICES ASSUME NEW d \in Cpus PROVE CpuOK(d)'
      OBVIOUS
    <2>1. CpuOK(d) /\ current'[d] = current[d] /\ cpu'[d] = cpu[d]
      BY <1>d DEF Structure
    <2>2. QED
      BY <2>1, <1>1, <1>d DEF CpuOK
  <1>9. \A u \in Tasks : BlockedOK(u)'
    BY <1>1, <1>6, <1>d DEF Structure, TypeOK, BlockedOK, TakenOut
  <1>10. \A d \in Cpus : WokenOK(d)'
    <2> SUFFICES ASSUME NEW d \in Cpus, woken'[d] # Null PROVE WokenOK(d)'
      BY DEF WokenOK
    <2>1. CASE d = c
      BY <2>1, <1>1, <1>3, <1>4, <1>6, <1>c DEF WokenOK, TakenOut
    <2>2. CASE d # c
      <3>1. woken[d] \in Tasks /\ WokenOK(d) /\ woken'[d] = woken[d]
        BY <2>2, <1>2, <1>3 DEF Structure
      <3>2. QED
        BY <3>1, <1>1, <1>6 DEF WokenOK, TakenOut
    <2>3. QED
      BY <2>1, <2>2
  <1>11. OneWaker'
    <2>1. \A d \in Cpus : woken[d] # h
      BY <1>1, <1>b, <1>c DEF Structure, WokenOK, TakenOut
    <2>2. QED
      BY <2>1, <1>3, <1>d DEF Structure, OneWaker
  <1>12. QED
    BY <1>1, <1>5, <1>7, <1>8, <1>9, <1>10, <1>11 DEF Structure

(* scheduler_wake_blocked queues task h to run: what does not depend on    *)
(* who wakes it.                                                           *)
LEMMA MadeReady ==
    ASSUME Structure, NEW h \in Tasks, state[h] = "BLOCKED", TakenOut(h),
           state' = [state EXCEPT ![h] = "READY"], RunqueueEnqueue(Home[h], h),
           waiting_on' = waiting_on, waiters' = waiters, next' = next
    PROVE  /\ state'[h] = "READY" /\ \A u \in AllTasks : u # h => state'[u] = state[u]
           /\ state' \in [AllTasks -> {"READY", "RUNNING", "BLOCKED"}]
           /\ runnable' \in [Cpus -> Seq(Tasks)]
           /\ \A d \in Cpus : RunqOK(d)'
           /\ \A r \in Queues : WaitqOK(r)'
  <1> USE Constants
  <1>0. /\ state \in [AllTasks -> {"READY", "RUNNING", "BLOCKED"}]
        /\ runnable \in [Cpus -> Seq(Tasks)]
    BY DEF Structure, TypeOK
  <1>1. PICK c \in Cpus : c = Home[h]
    BY SchedAssumption
  <1>2. runnable'[c] = Append(runnable[c], h) /\ \A d \in Cpus : d # c => runnable'[d] = runnable[d]
    BY <1>0, <1>1 DEF RunqueueEnqueue
  <1>3. runnable[c] \in Seq(Tasks) /\ IsInjective(runnable[c]) /\ h \notin ToSet(runnable[c])
    BY <1>0 DEF Structure, RunqOK
  <1>4. /\ runnable'[c] \in Seq(Tasks) /\ IsInjective(runnable'[c])
        /\ \A x : x \in ToSet(runnable'[c]) <=> x \in ToSet(runnable[c]) \/ x = h
    BY <1>2, <1>3, AppendQueue
  <1>5. state'[h] = "READY" /\ \A u \in AllTasks : u # h => state'[u] = state[u]
    BY <1>0
  <1>6. state' \in [AllTasks -> {"READY", "RUNNING", "BLOCKED"}]
    BY <1>0
  <1>7. runnable' \in [Cpus -> Seq(Tasks)]
    BY <1>0, <1>1, <1>3, AppendQueue DEF RunqueueEnqueue
  <1>8. \A d \in Cpus : RunqOK(d)'
    <2> SUFFICES ASSUME NEW d \in Cpus PROVE RunqOK(d)'
      OBVIOUS
    <2>1. RunqOK(d) /\ waiting_on[h] = Null
      BY DEF Structure, TakenOut
    <2>2. CASE d = c
      BY <2>1, <2>2, <1>1, <1>4, <1>5 DEF RunqOK
    <2>3. CASE d # c
      BY <2>1, <2>3, <1>2, <1>5 DEF RunqOK
    <2>4. QED
      BY <2>2, <2>3
  <1>9. \A r \in Queues : WaitqOK(r)'
    BY DEF Structure, WaitqOK
  <1>10. QED
    BY <1>5, <1>6, <1>7, <1>8, <1>9

(* The end of a release: whoever was taken out is woken, or the waker's    *)
(* CPU halts because it has not blocked yet.                               *)
LEMMA WakerWakes ==
    ASSUME Structure, NEW c \in Cpus, NEW t \in Tasks, WakeBlocked(c, t, "body"),
           UNCHANGED <<woken, role, count>>
    PROVE  Structure'
  <1> USE Constants
  <1>0. /\ pc \in [AllTasks -> Points] /\ "body" \in Points
        /\ blocked \in [Tasks -> Tasks \cup {Null}] /\ cpu \in [Cpus -> CpuPoints]
    BY DEF Structure, TypeOK, Points, Working
  <1>1. pc[t] = "wake" /\ current[c] = t /\ cpu[c] = "run" /\ Runs(c, t)
    BY DEF WakeBlocked, At, Runs
  <1>2. PICK h \in Tasks : h = blocked[t]
    BY <1>0, <1>1 DEF Structure, TaskOK
  <1>3. TakenOut(h) /\ role[h] \in LockUsers
    BY <1>2 DEF Structure, BlockedOK
  <1>4. state[t] = "RUNNING" /\ waiting_on[t] = Null /\ Home[t] = c
    BY <1>1 DEF Structure, CpuOK, Working
  <1>5. /\ Wake(c, h) /\ Go(t, "body") /\ blocked' = [blocked EXCEPT ![t] = Null]
        /\ UNCHANGED <<waiting_on, current, next, waiters>> /\ UNCHANGED quiet
    BY <1>2 DEF WakeBlocked, cpuVars, quiet
  <1>6. blocked'[t] = Null /\ \A u \in Tasks : u # t => blocked'[u] = blocked[u]
    BY <1>0, <1>5
  <1>7. blocked' \in [Tasks -> Tasks \cup {Null}] /\ pc' \in [AllTasks -> Points]
    BY <1>0, <1>5 DEF Go
  <1>8. CASE state[h] # "BLOCKED"
    <2>1. Panic(c, "wake of a task that is not blocked") /\ UNCHANGED <<state, runnable>>
      BY <1>8, <1>5 DEF Wake
    <2>2. cpu' \in [Cpus -> CpuPoints] /\ \A d \in Cpus : cpu'[d] = cpu[d] \/ cpu'[d] = "halted"
      BY <2>1, <1>0 DEF Panic, CpuPoints
    <2>3. UNCHANGED queueing /\ count' \in Nat
      BY <2>1, <1>5 DEF queueing, Structure, TypeOK
    <2>4. pc[t] \in Working /\ "body" \in Working \ {"wake"}
      BY <1>1 DEF Working
    <2>5. Structure /\ UNCHANGED woken /\ c \in Cpus /\ t \in Tasks
      OBVIOUS
    <2>6. \A u \in Tasks : blocked'[u] = blocked[u] \/ (u = t /\ blocked'[u] = Null)
      BY <1>6
    <2>7. QED
      BY ONLY <2>2, <2>3, <2>4, <2>5, <2>6, <1>1, <1>5, <1>7, WorkOn
  <1>9. CASE state[h] = "BLOCKED"
    <2>1. /\ state' = [state EXCEPT ![h] = "READY"] /\ RunqueueEnqueue(Home[h], h)
          /\ UNCHANGED <<cpu, faults>>
      BY <1>9, <1>3, <1>5 DEF Wake, TakenOut
    <2>2. /\ state'[h] = "READY" /\ \A u \in AllTasks : u # h => state'[u] = state[u]
          /\ state' \in [AllTasks -> {"READY", "RUNNING", "BLOCKED"}]
          /\ runnable' \in [Cpus -> Seq(Tasks)]
          /\ \A d \in Cpus : RunqOK(d)'
          /\ \A r \in Queues : WaitqOK(r)'
      BY <2>1, <1>3, <1>5, <1>9, MadeReady
    <2>3. pc'[t] = "body" /\ \A u \in AllTasks : u # t => pc'[u] = pc[u]
      BY <1>0, <1>5 DEF Go
    <2>4. h # t
      BY <1>4, <1>9
    <2>5. ~Suspended(t) /\ \A u \in Tasks : u # t /\ u # h => (Suspended(u)' <=> Suspended(u))
      BY <2>2, <2>3, <1>1, <1>4 DEF Suspended
    <2>6. TypeOK'
      BY <2>1, <2>2, <1>5, <1>7 DEF Structure, TypeOK, quiet
    <2>7. \A u \in Tasks : TaskOK(u)'
      <3> SUFFICES ASSUME NEW u \in Tasks PROVE TaskOK(u)'
        OBVIOUS
      <3>1. CASE u = t
        BY <3>1, <2>2, <2>3, <2>4, <1>4, <1>5 DEF TaskOK
      <3>2. CASE u = h
        BY <3>2, <2>2, <2>3, <2>4, <1>3, <1>5, <1>6 DEF Structure, TaskOK, TakenOut, Suspended
      <3>3. CASE u # t /\ u # h
        BY <3>3, <2>2, <2>3, <2>5, <1>5, <1>6 DEF Structure, TaskOK
      <3>4. QED
        BY <3>1, <3>2, <3>3
    <2>8. \A d \in Cpus : CpuOK(d)'
      <3> SUFFICES ASSUME NEW d \in Cpus PROVE CpuOK(d)'
        OBVIOUS
      <3>1. CpuOK(d) /\ current'[d] = current[d] /\ cpu'[d] = cpu[d]
        BY <2>1, <1>5 DEF Structure
      <3>2. CASE current[d] = t
        BY <3>1, <3>2, <2>2, <2>3, <2>4, <1>4, <1>5 DEF CpuOK
      <3>3. CASE current[d] = h
        BY <3>1, <3>3, <2>2, <2>3, <2>4, <1>5, <1>9 DEF CpuOK
      <3>4. CASE current[d] # t /\ current[d] # h
        BY <3>1, <3>4, <2>2, <2>3, <1>5 DEF CpuOK
      <3>5. QED
        BY <3>2, <3>3, <3>4
    <2>9. \A u \in Tasks : BlockedOK(u)'
      <3> SUFFICES ASSUME NEW u \in Tasks, blocked'[u] # Null PROVE BlockedOK(u)'
        BY DEF BlockedOK
      <3>1. u # t /\ blocked'[u] = blocked[u] /\ blocked[u] \in Tasks /\ BlockedOK(u)
        BY <1>0, <1>6 DEF Structure
      <3>2. blocked[u] # h
        BY <3>1, <1>2 DEF Structure, OneWaker
      <3>3. blocked[u] # t
        BY <3>1, <2>5 DEF BlockedOK, TakenOut
      <3>4. QED
        BY <3>1, <3>2, <3>3, <2>5, <1>5 DEF BlockedOK, TakenOut
    <2>10. \A d \in Cpus : WokenOK(d)'
      <3> SUFFICES ASSUME NEW d \in Cpus, woken[d] # Null PROVE WokenOK(d)'
        BY DEF WokenOK
      <3>1. woken[d] \in Tasks /\ WokenOK(d)
        BY DEF Structure, TypeOK
      <3>2. woken[d] # h /\ woken[d] # t
        BY <3>1, <2>5, <1>3 DEF WokenOK, TakenOut, LockUsers
      <3>3. QED
        BY <3>1, <3>2, <2>5, <1>5 DEF WokenOK, TakenOut
    <2>11. OneWaker'
      BY <1>6 DEF Structure, OneWaker
    <2>12. QED
      BY <2>2, <2>6, <2>7, <2>8, <2>9, <2>10, <2>11 DEF Structure
  <1>10. QED
    BY <1>8, <1>9

(* The same in the handler of the device's interrupt.                      *)
LEMMA SignalWakes ==
    ASSUME Structure, NEW c \in Cpus, SignalWake(c), UNCHANGED <<role, count>>
    PROVE  Structure'
  <1> USE Constants
  <1>0. /\ woken \in [Cpus -> Tasks \cup {Null}] /\ cpu \in [Cpus -> CpuPoints]
        /\ pc \in [AllTasks -> Points]
    BY DEF Structure, TypeOK
  <1>1. PICK h \in Tasks : h = woken[c]
    BY <1>0 DEF SignalWake
  <1>2. TakenOut(h) /\ role[h] = "device"
    BY <1>1 DEF Structure, WokenOK
  <1>3. /\ Wake(c, h) /\ woken' = [woken EXCEPT ![c] = Null]
        /\ UNCHANGED <<waiting_on, current, next, waiters, blocked, pc>> /\ UNCHANGED quiet
    BY <1>1 DEF SignalWake, cpuVars, waitVars, quiet
  <1>4. woken'[c] = Null /\ \A d \in Cpus : d # c => woken'[d] = woken[d]
    BY <1>0, <1>3
  <1>5. woken' \in [Cpus -> Tasks \cup {Null}]
    BY <1>0, <1>3
  <1>6. state[h] = "BLOCKED"
    BY <1>2 DEF TakenOut, Suspended, LockUsers
  <1>7. /\ state' = [state EXCEPT ![h] = "READY"] /\ RunqueueEnqueue(Home[h], h)
        /\ UNCHANGED <<cpu, faults>>
    BY <1>2, <1>3, <1>6 DEF Wake, TakenOut
  <1>8. /\ state'[h] = "READY" /\ \A u \in AllTasks : u # h => state'[u] = state[u]
        /\ state' \in [AllTasks -> {"READY", "RUNNING", "BLOCKED"}]
        /\ runnable' \in [Cpus -> Seq(Tasks)]
        /\ \A d \in Cpus : RunqOK(d)'
        /\ \A r \in Queues : WaitqOK(r)'
    BY <1>2, <1>3, <1>6, <1>7, MadeReady
  <1>9. \A u \in Tasks : u # h => (Suspended(u)' <=> Suspended(u))
    BY <1>3, <1>8 DEF Suspended
  <1>10. TypeOK'
    BY <1>3, <1>5, <1>7, <1>8 DEF Structure, TypeOK, quiet
  <1>11. \A u \in Tasks : TaskOK(u)'
    <2> SUFFICES ASSUME NEW u \in Tasks PROVE TaskOK(u)'
      OBVIOUS
    <2>1. CASE u = h
      BY <2>1, <1>2, <1>3, <1>8 DEF Structure, TaskOK, TakenOut, Suspended
    <2>2. CASE u # h
      BY <2>2, <1>3, <1>8, <1>9 DEF Structure, TaskOK
    <2>3. QED
      BY <2>1, <2>2
  <1>12. \A d \in Cpus : CpuOK(d)'
    <2> SUFFICES ASSUME NEW d \in Cpus PROVE CpuOK(d)'
      OBVIOUS
    <2>1. CpuOK(d) /\ current'[d] = current[d] /\ cpu'[d] = cpu[d]
      BY <1>3, <1>7 DEF Structure
    <2>2. CASE current[d] = h
      BY <2>1, <2>2, <1>3, <1>6, <1>8 DEF CpuOK
    <2>3. CASE current[d] # h
      BY <2>1, <2>3, <1>3, <1>8 DEF CpuOK
    <2>4. QED
      BY <2>2, <2>3
  <1>13. \A u \in Tasks : BlockedOK(u)'
    <2> SUFFICES ASSUME NEW u \in Tasks, blocked[u] # Null PROVE BlockedOK(u)'
      BY <1>3 DEF BlockedOK
    <2>1. blocked[u] \in Tasks /\ BlockedOK(u)
      BY DEF Structure, TypeOK
    <2>2. blocked[u] # h
      BY <2>1, <1>2 DEF BlockedOK, LockUsers
    <2>3. QED
      BY <2>1, <2>2, <1>3, <1>9 DEF BlockedOK, TakenOut
  <1>14. \A d \in Cpus : WokenOK(d)'
    <2> SUFFICES ASSUME NEW d \in Cpus, woken'[d] # Null PROVE WokenOK(d)'
      BY DEF WokenOK
    <2>1. d # c /\ woken'[d] = woken[d] /\ woken[d] \in Tasks /\ WokenOK(d)
      BY <1>0, <1>4 DEF Structure
    <2>2. woken[d] # h
      BY <2>1, <1>1 DEF Structure, OneWaker
    <2>3. QED
      BY <2>1, <2>2, <1>3, <1>9 DEF WokenOK, TakenOut
  <1>15. OneWaker'
    BY <1>3, <1>4 DEF Structure, OneWaker
  <1>16. QED
    BY <1>8, <1>10, <1>11, <1>12, <1>13, <1>14, <1>15 DEF Structure

(* scheduler_switch: the task that leaves returns to the run queue.        *)
LEMMA Requeued ==
    ASSUME Structure, NEW c \in Cpus, NEW p \in Tasks, p = current[c],
           state[p] = "RUNNING", waiting_on[p] = Null, cpu[c] = "enter",
           cpu' = [cpu EXCEPT ![c] = "pick"],
           state' = [state EXCEPT ![p] = "READY"],
           runnable' = [runnable EXCEPT ![c] = Append(@, p)],
           UNCHANGED <<waiting_on, current, next, waiters, blocked, woken, role, count, pc>>,
           UNCHANGED quiet
    PROVE  Structure'
  <1> USE Constants
  <1>0. /\ state \in [AllTasks -> {"READY", "RUNNING", "BLOCKED"}]
        /\ runnable \in [Cpus -> Seq(Tasks)] /\ cpu \in [Cpus -> CpuPoints]
    BY DEF Structure, TypeOK
  <1>1. runnable'[c] = Append(runnable[c], p) /\ \A d \in Cpus : d # c => runnable'[d] = runnable[d]
    BY <1>0
  <1>2. state'[p] = "READY" /\ \A u \in AllTasks : u # p => state'[u] = state[u]
    BY <1>0
  <1>3. cpu'[c] = "pick" /\ \A d \in Cpus : d # c => cpu'[d] = cpu[d]
    BY <1>0
  <1>4. runnable[c] \in Seq(Tasks) /\ IsInjective(runnable[c]) /\ p \notin ToSet(runnable[c])
    BY <1>0 DEF Structure, RunqOK
  <1>5. /\ runnable'[c] \in Seq(Tasks) /\ IsInjective(runnable'[c])
        /\ \A x : x \in ToSet(runnable'[c]) <=> x \in ToSet(runnable[c]) \/ x = p
    BY <1>1, <1>4, AppendQueue
  <1>6. Home[p] = c
    BY DEF Structure, CpuOK
  <1>7. TypeOK'
    <2>1. runnable' \in [Cpus -> Seq(Tasks)]
      BY <1>0, <1>1, <1>5
    <2>2. cpu' \in [Cpus -> CpuPoints] /\ state' \in [AllTasks -> {"READY", "RUNNING", "BLOCKED"}]
      BY <1>0 DEF CpuPoints
    <2>3. QED
      BY <2>1, <2>2 DEF Structure, TypeOK, quiet
  <1>8. \A u \in Tasks : Suspended(u)' <=> Suspended(u)
    BY <1>2 DEF Suspended
  <1>9. \A u \in Tasks : TaskOK(u)'
    <2> SUFFICES ASSUME NEW u \in Tasks PROVE TaskOK(u)'
      OBVIOUS
    <2>1. CASE u = p
      BY <2>1, <1>2, <1>8 DEF Structure, TaskOK
    <2>2. CASE u # p
      BY <2>2, <1>2, <1>8 DEF Structure, TaskOK
    <2>3. QED
      BY <2>1, <2>2
  <1>10. \A d \in Cpus : CpuOK(d)'
    <2> SUFFICES ASSUME NEW d \in Cpus PROVE CpuOK(d)'
      OBVIOUS
    <2>1. CpuOK(d) /\ current'[d] = current[d]
      BY DEF Structure
    <2>2. CASE d = c
      BY <2>1, <2>2, <1>3 DEF CpuOK
    <2>3. CASE d # c
      <3>1. current[d] # p
        BY <2>1, <2>3, <1>6 DEF CpuOK
      <3>2. QED
        BY <3>1, <2>1, <2>3, <1>2, <1>3 DEF CpuOK
    <2>4. QED
      BY <2>2, <2>3
  <1>11. \A u \in Tasks : BlockedOK(u)'
    BY <1>8 DEF Structure, TypeOK, BlockedOK, TakenOut
  <1>12. \A d \in Cpus : WokenOK(d)'
    BY <1>8 DEF Structure, TypeOK, WokenOK, TakenOut
  <1>13. OneWaker' /\ \A q \in Queues : WaitqOK(q)'
    BY DEF Structure, OneWaker, WaitqOK
  <1>14. \A d \in Cpus : RunqOK(d)'
    <2> SUFFICES ASSUME NEW d \in Cpus PROVE RunqOK(d)'
      OBVIOUS
    <2>1. RunqOK(d)
      BY DEF Structure
    <2>2. CASE d = c
      BY <2>1, <2>2, <1>2, <1>5, <1>6 DEF RunqOK
    <2>3. CASE d # c
      BY <2>1, <2>3, <1>1, <1>2 DEF RunqOK
    <2>4. QED
      BY <2>2, <2>3
  <1>15. QED
    BY <1>7, <1>9, <1>10, <1>11, <1>12, <1>13, <1>14 DEF Structure

(* What a CPU's pick of task n changes.                                    *)
LEMMA Picked ==
    ASSUME Structure, NEW c \in Cpus, NEW n \in AllTasks, Home[n] = c,
           NEW queue, NEW to \in {"check", "commit"}, Pick(c, n, queue, to),
           n \in Tasks => waiting_on[n] = Null /\ state[n] = "READY",
           UNCHANGED <<waiters, blocked, woken, role, count>>,
           queue \in Seq(Tasks), IsInjective(queue), n \notin ToSet(queue),
           \A x \in Tasks : x \in ToSet(queue) => x \in ToSet(runnable[c])
    PROVE  Structure'
  <1> USE Constants
  <1>0. /\ runnable \in [Cpus -> Seq(Tasks)] /\ cpu \in [Cpus -> CpuPoints]
        /\ next \in [Cpus -> AllTasks \cup {Null}]
    BY DEF Structure, TypeOK
  <1>1. /\ runnable' = [runnable EXCEPT ![c] = queue]
        /\ next' = [next EXCEPT ![c] = n]
        /\ cpu' = [cpu EXCEPT ![c] = to]
        /\ UNCHANGED <<state, waiting_on, current, pc>> /\ UNCHANGED quiet
    BY DEF Pick, taskVars, quiet
  <1>2. /\ runnable'[c] = queue /\ next'[c] = n /\ cpu'[c] = to
        /\ \A d \in Cpus : d # c =>
             runnable'[d] = runnable[d] /\ next'[d] = next[d] /\ cpu'[d] = cpu[d]
    BY <1>0, <1>1
  <1>3. TypeOK'
    <2>1. /\ runnable' \in [Cpus -> Seq(Tasks)] /\ cpu' \in [Cpus -> CpuPoints]
          /\ next' \in [Cpus -> AllTasks \cup {Null}]
      BY <1>0, <1>1 DEF CpuPoints
    <2>2. QED
      BY <2>1, <1>1 DEF Structure, TypeOK, quiet
  <1>4. \A u \in Tasks : Suspended(u)' <=> Suspended(u)
    BY <1>1 DEF Suspended
  <1>5. \A u \in Tasks : TaskOK(u)'
    BY <1>1, <1>4 DEF Structure, TaskOK
  <1>6. \A d \in Cpus : CpuOK(d)'
    <2> SUFFICES ASSUME NEW d \in Cpus PROVE CpuOK(d)'
      OBVIOUS
    <2>1. CpuOK(d)
      BY DEF Structure
    <2>2. CASE d = c
      BY <2>1, <2>2, <1>1, <1>2 DEF CpuOK
    <2>3. CASE d # c
      BY <2>1, <2>3, <1>1, <1>2 DEF CpuOK
    <2>4. QED
      BY <2>2, <2>3
  <1>7. \A u \in Tasks : BlockedOK(u)'
    BY <1>1, <1>4 DEF Structure, TypeOK, BlockedOK, TakenOut
  <1>8. \A d \in Cpus : WokenOK(d)'
    BY <1>1, <1>4 DEF Structure, TypeOK, WokenOK, TakenOut
  <1>9. OneWaker' /\ \A q \in Queues : WaitqOK(q)'
    BY <1>1 DEF Structure, OneWaker, WaitqOK
  <1>10. \A d \in Cpus : RunqOK(d)'
    <2> SUFFICES ASSUME NEW d \in Cpus PROVE RunqOK(d)'
      OBVIOUS
    <2>1. RunqOK(d)
      BY DEF Structure
    <2>2. CASE d = c
      BY <2>1, <2>2, <1>1, <1>2 DEF RunqOK
    <2>3. CASE d # c
      BY <2>1, <2>3, <1>1, <1>2 DEF RunqOK
    <2>4. QED
      BY <2>2, <2>3
  <1>11. QED
    BY <1>3, <1>5, <1>6, <1>7, <1>8, <1>9, <1>10 DEF Structure

(* What a CPU's switch to the task n it has picked changes.                *)
LEMMA SwitchedTo ==
    ASSUME Structure, NEW c \in Cpus, NEW n \in AllTasks, n = next[c], SwitchTo(c),
           waiting_on[n] = Null,
           UNCHANGED <<waiters, blocked, woken, role, count>>
    PROVE  Structure'
  <1> USE Constants
  <1>0. /\ state \in [AllTasks -> {"READY", "RUNNING", "BLOCKED"}]
        /\ cpu \in [Cpus -> CpuPoints] /\ next \in [Cpus -> AllTasks \cup {Null}]
        /\ current \in [Cpus -> AllTasks \cup {Null}]
        /\ RunqOK(c) /\ CpuOK(c) /\ cpu[c] = "commit"
    BY DEF Structure, TypeOK, SwitchTo
  <1>a. Home[n] = c /\ (n \in Tasks => state[n] = "READY")
    BY <1>0 DEF RunqOK, CpuOK
  <1>1. /\ state' = [state EXCEPT ![n] = "RUNNING"]
        /\ current' = [current EXCEPT ![c] = n]
        /\ next' = [next EXCEPT ![c] = Null]
        /\ cpu' = [cpu EXCEPT ![c] = IF current[c] = n THEN "run" ELSE "ctx"]
        /\ UNCHANGED <<waiting_on, runnable, pc>> /\ UNCHANGED quiet
    BY <1>a DEF SwitchTo, queueVars, quiet
  <1>2. next'[c] = Null /\ \A d \in Cpus : d # c => next'[d] = next[d]
    BY <1>0, <1>1
  <1>3. state'[n] = "RUNNING" /\ \A u \in AllTasks : u # n => state'[u] = state[u]
    BY <1>0, <1>1
  <1>4. /\ current'[c] = n /\ cpu'[c] \in {"run", "ctx"}
        /\ \A d \in Cpus : d # c => current'[d] = current[d] /\ cpu'[d] = cpu[d]
    BY <1>0, <1>1
  <1>5. TypeOK'
    <2>1. /\ cpu' \in [Cpus -> CpuPoints] /\ current' \in [Cpus -> AllTasks \cup {Null}]
          /\ next' \in [Cpus -> AllTasks \cup {Null}]
          /\ state' \in [AllTasks -> {"READY", "RUNNING", "BLOCKED"}]
      BY <1>0, <1>1 DEF CpuPoints
    <2>2. QED
      BY <2>1, <1>1 DEF Structure, TypeOK, quiet
  <1>6. \A u \in Tasks : Suspended(u)' <=> Suspended(u)
    BY <1>1, <1>3, <1>a DEF Suspended
  <1>7. \A u \in Tasks : TaskOK(u)'
    <2> SUFFICES ASSUME NEW u \in Tasks PROVE TaskOK(u)'
      OBVIOUS
    <2>1. CASE u = n
      BY <2>1, <1>1, <1>3, <1>6, <1>a DEF Structure, TaskOK
    <2>2. CASE u # n
      BY <2>2, <1>1, <1>3, <1>6 DEF Structure, TaskOK
    <2>3. QED
      BY <2>1, <2>2
  <1>8. \A d \in Cpus : CpuOK(d)'
    <2> SUFFICES ASSUME NEW d \in Cpus PROVE CpuOK(d)'
      OBVIOUS
    <2>1. CpuOK(d)
      BY DEF Structure
    <2>2. CASE d = c
      BY <2>1, <2>2, <1>1, <1>3, <1>4, <1>a DEF CpuOK
    <2>3. CASE d # c
      <3>1. current[d] # n
        BY <2>1, <2>3, <1>a DEF CpuOK
      <3>2. QED
        BY <3>1, <2>1, <2>3, <1>1, <1>2, <1>3, <1>4 DEF CpuOK
    <2>4. QED
      BY <2>2, <2>3
  <1>9. \A u \in Tasks : BlockedOK(u)'
    BY <1>1, <1>6 DEF Structure, TypeOK, BlockedOK, TakenOut
  <1>10. \A d \in Cpus : WokenOK(d)'
    BY <1>1, <1>6 DEF Structure, TypeOK, WokenOK, TakenOut
  <1>11. OneWaker' /\ \A q \in Queues : WaitqOK(q)'
    BY <1>1 DEF Structure, OneWaker, WaitqOK
  <1>12. \A d \in Cpus : RunqOK(d)'
    <2> SUFFICES ASSUME NEW d \in Cpus PROVE RunqOK(d)'
      OBVIOUS
    <2>1. RunqOK(d) /\ ToSet(runnable[d]) \subseteq Tasks
      BY TaskQueue DEF Structure, TypeOK
    <2>2. CASE d = c
      BY <2>1, <2>2, <1>0, <1>1, <1>2, <1>3 DEF RunqOK
    <2>3. CASE d # c
      <3>1. \A u \in Tasks : u \in ToSet(runnable[d]) \/ next[d] = u => u # n
        BY <2>1, <2>3, <1>a DEF RunqOK, Structure, CpuOK
      <3>2. QED
        BY <3>1, <2>1, <2>3, <1>1, <1>2, <1>3 DEF RunqOK
    <2>4. QED
      BY <2>2, <2>3
  <1>13. QED
    BY <1>5, <1>7, <1>8, <1>9, <1>10, <1>11, <1>12 DEF Structure

-----------------------------------------------------------------------------
(* No step of the scheduler disturbs the structure.                        *)

(* With nobody asleep the timer's interrupt only leads to a switch.        *)
LEMMA NobodyIsDue ==
    ASSUME Structure, NEW c \in Cpus, TimerIrq(c)
    PROVE  /\ UNCHANGED <<state, runnable, sleeping, waiting_on>>
           /\ cpu' \in [Cpus -> CpuPoints]
           /\ \A d \in Cpus : cpu'[d] = cpu[d] \/ cpu'[d] \in {"boot", "enter"}
           /\ UNCHANGED <<current, next, needs_cleanup, exiting, pc, faults>>
  <1>0. /\ sleeping = [d \in Cpus |-> <<>>] /\ runnable \in [Cpus -> Seq(Tasks)]
        /\ waiting_on \in [AllTasks -> Queues \cup {Null}] /\ cpu \in [Cpus -> CpuPoints]
        /\ state \in [AllTasks -> {"READY", "RUNNING", "BLOCKED"}]
    BY DEF Structure, TypeOK
  <1>1. sleeping[c] = <<>>
    BY <1>0
  <1>2. Due(c) = <<>>
    <2>1. {i \in DOMAIN sleeping[c] : now < sleep_until[sleeping[c][i]]} = {}
      BY <1>1
    <2>2. QED
      BY <1>1, <2>1 DEF Due
  <1>3. ToSet(<<>>) = {} /\ \A t : ~Contains(<<>>, t)
    BY DEF ToSet, Contains
  <1>4. Len(<<>>) = 0 /\ SubSeq(<<>>, 0 + 1, 0) = <<>>
    BY SubSeqEmpty
  <1>5. sleeping' = sleeping
    <2>1. sleeping' = [sleeping EXCEPT ![c] = SubSeq(sleeping[c], Len(Due(c)) + 1, Len(sleeping[c]))]
      BY <1>0 DEF TimerIrq
    <2>2. sleeping' = [sleeping EXCEPT ![c] = <<>>]
      BY <2>1, <1>1, <1>2, <1>4
    <2>3. QED
      BY <2>2, <1>0
  <1>6. waiting_on' = waiting_on
    <2>1. waiting_on' = [t \in AllTasks |-> IF Contains(Due(c), t) THEN Null ELSE waiting_on[t]]
      BY DEF TimerIrq
    <2>2. \A t \in AllTasks : ~Contains(Due(c), t)
      BY <1>2, <1>3
    <2>3. QED
      BY <2>1, <2>2, <1>0
  <1>7. ~\E t \in ToSet(Due(c)) : state[t] # "BLOCKED"
    BY <1>2, <1>3
  <1>8. state' = state
    <2>1. state' = [t \in AllTasks |-> IF Contains(Due(c), t) THEN "READY" ELSE state[t]]
      BY <1>7 DEF TimerIrq
    <2>2. \A t \in AllTasks : ~Contains(Due(c), t)
      BY <1>2, <1>3
    <2>3. QED
      BY <2>1, <2>2, <1>0
  <1>9. runnable' = runnable
    <2>1. runnable' = [runnable EXCEPT ![c] = runnable[c] \o <<>>]
      BY <1>2, <1>7 DEF TimerIrq
    <2>2. runnable[c] \o <<>> = runnable[c]
      BY <1>0, ConcatEmptySeq
    <2>3. QED
      BY <2>1, <2>2, <1>0
  <1>10. cpu' = [cpu EXCEPT ![c] = IF current[c] = Null THEN "boot" ELSE "enter"] /\ UNCHANGED faults
    BY <1>7 DEF TimerIrq
  <1>11. cpu' \in [Cpus -> CpuPoints] /\ \A d \in Cpus : cpu'[d] = cpu[d] \/ cpu'[d] \in {"boot", "enter"}
    BY <1>0, <1>10 DEF CpuPoints
  <1>12. UNCHANGED <<current, next, needs_cleanup, exiting, pc>>
    BY DEF TimerIrq
  <1>13. QED
    BY <1>5, <1>6, <1>8, <1>9, <1>10, <1>11, <1>12

LEMMA SwitchEnterOK ==
    ASSUME Structure, NEW c \in Cpus, SwitchEnter(c),
           UNCHANGED <<waitVars, woken, role, count>>
    PROVE  Structure'
  <1> USE Constants
  <1>0. /\ cpu \in [Cpus -> CpuPoints] /\ pc \in [AllTasks -> Points]
        /\ woken \in [Cpus -> Tasks \cup {Null}] /\ count \in Nat
    BY DEF Structure, TypeOK
  <1>1. PICK p : p = current[c]
    OBVIOUS
  <1>2. /\ UNCHANGED <<waiting_on, current, next, waiters, blocked, pc>> /\ UNCHANGED quiet
        /\ cpu[c] = "enter"
    BY DEF SwitchEnter, cpuVars, waitVars, quiet
  <1>3. CASE LeaveFault(p) # "none" \/ ~(p \in Tasks /\ state[p] = "RUNNING")
    <2>1. UNCHANGED <<state, runnable>>
      BY <1>1, <1>3 DEF SwitchEnter
    <2>2. cpu' = [cpu EXCEPT ![c] = "halted"] \/ cpu' = [cpu EXCEPT ![c] = "pick"]
      BY <1>1 DEF SwitchEnter, Panic
    <2>3. cpu' \in [Cpus -> CpuPoints] /\ \A d \in Cpus : cpu'[d] = cpu[d] \/ cpu'[d] \in {"halted", "pick"}
      BY <2>2, <1>0 DEF CpuPoints
    <2>4. UNCHANGED queueing
      BY <2>1, <1>2 DEF queueing
    <2>5. QED
      BY <2>3, <2>4, <1>0, <1>2, CpuOnly
  <1>4. CASE LeaveFault(p) = "none" /\ p \in Tasks /\ state[p] = "RUNNING"
    <2>1. waiting_on[p] = Null
      BY <1>4 DEF LeaveFault
    <2>2. /\ cpu' = [cpu EXCEPT ![c] = "pick"]
          /\ state' = [state EXCEPT ![p] = "READY"]
          /\ runnable' = [runnable EXCEPT ![c] = Append(@, p)]
      BY <1>1, <1>4 DEF SwitchEnter
    <2>3. p \in Tasks /\ state[p] = "RUNNING" /\ Structure /\ c \in Cpus
      BY <1>4
    <2>4. UNCHANGED <<woken, role, count>>
      OBVIOUS
    <2>5. QED
      BY ONLY <2>1, <2>2, <2>3, <2>4, <1>1, <1>2, Requeued
  <1>5. QED
    BY <1>3, <1>4

LEMMA PickOK ==
    ASSUME Structure, NEW c \in Cpus, PickCleanup(c) \/ PickIdle(c) \/ PickFirst(c),
           UNCHANGED <<waitVars, woken, role, count>>
    PROVE  Structure'
  <1> USE Constants
  <1>0. runnable \in [Cpus -> Seq(Tasks)] /\ ~needs_cleanup[c]
    BY DEF Structure, TypeOK
  <1>1. UNCHANGED <<waiters, blocked, woken, role, count>>
    BY DEF waitVars
  <1>2. runnable[c] \in Seq(Tasks) /\ RunqOK(c) /\ ToSet(runnable[c]) \subseteq Tasks
    BY <1>0, TaskQueue DEF Structure
  <1>3. CASE PickIdle(c)
    <2>1. PICK n \in AllTasks : n = Idle[c]
      OBVIOUS
    <2>2. n \notin Tasks /\ Home[n] = c /\ Pick(c, n, runnable[c], "commit")
      BY <2>1, <1>3, SchedAssumption DEF PickIdle
    <2>3. IsInjective(runnable[c]) /\ n \notin ToSet(runnable[c])
      BY <2>2, <1>2 DEF RunqOK
    <2>4. Structure /\ c \in Cpus /\ "commit" \in {"check", "commit"}
      OBVIOUS
    <2>5. QED
      BY ONLY <2>2, <2>3, <2>4, <1>1, <1>2, Picked
  <1>4. CASE PickFirst(c)
    <2>1. runnable[c] # <<>>
      BY <1>4 DEF PickFirst
    <2>2. PICK n : n = Head(runnable[c])
      OBVIOUS
    <2>3. PICK queue : queue = Tail(runnable[c])
      OBVIOUS
    <2>4. Pick(c, n, queue, "check")
      BY <1>4, <2>2, <2>3 DEF PickFirst
    <2>5. /\ n \in Tasks /\ n \in ToSet(runnable[c])
          /\ queue \in Seq(Tasks) /\ IsInjective(queue) /\ n \notin ToSet(queue)
          /\ \A x \in Tasks : x \in ToSet(queue) => x \in ToSet(runnable[c])
      BY <2>1, <2>2, <2>3, <1>2, TailQueue DEF RunqOK
    <2>6. n \in AllTasks /\ Home[n] = c /\ waiting_on[n] = Null /\ state[n] = "READY"
      BY <2>5, <1>2 DEF RunqOK
    <2>7. Structure /\ c \in Cpus /\ "check" \in {"check", "commit"}
      OBVIOUS
    <2>8. QED
      BY ONLY <2>4, <2>5, <2>6, <2>7, <1>1, Picked
  <1>5. CASE PickCleanup(c)
    BY <1>0, <1>5 DEF PickCleanup
  <1>6. QED
    BY <1>3, <1>4, <1>5

(* A CPU switches to the task it has picked, or halts on an idle task      *)
(* that is not fit to run.                                                 *)
LEMMA SwitchToOK ==
    ASSUME Structure, NEW c \in Cpus, SwitchTo(c), UNCHANGED <<waitVars, woken, role, count>>
    PROVE  Structure'
  <1> USE Constants
  <1>0. /\ cpu \in [Cpus -> CpuPoints] /\ next \in [Cpus -> AllTasks \cup {Null}]
        /\ CpuOK(c) /\ RunqOK(c) /\ cpu[c] = "commit" /\ waiting_on \in [AllTasks -> Queues \cup {Null}]
    BY DEF Structure, TypeOK, SwitchTo
  <1>1. UNCHANGED <<waiters, blocked, woken, role, count>>
    BY DEF waitVars
  <1>2. PICK n \in AllTasks : n = next[c] /\ Home[n] = c
    BY <1>0 DEF CpuOK
  <1>3. n \in Tasks => waiting_on[n] = Null /\ state[n] = "READY"
    BY <1>0, <1>2 DEF RunqOK
  <1>4. CASE waiting_on[n] = Null
    BY <1>1, <1>2, <1>4, SwitchedTo
  <1>5. CASE waiting_on[n] # Null
    <2>1. /\ next' = [next EXCEPT ![c] = Null]
          /\ cpu' = [cpu EXCEPT ![c] = "halted"]
          /\ UNCHANGED <<state, waiting_on, runnable, current, pc>> /\ UNCHANGED quiet
      BY <1>2, <1>3, <1>5 DEF SwitchTo, Panic, queueVars, quiet
    <2>2. /\ next'[c] = Null /\ cpu'[c] = "halted"
          /\ \A d \in Cpus : d # c => next'[d] = next[d] /\ cpu'[d] = cpu[d]
      BY <2>1, <1>0
    <2>3. TypeOK'
      <3>1. next' \in [Cpus -> AllTasks \cup {Null}] /\ cpu' \in [Cpus -> CpuPoints]
        BY <2>1, <1>0 DEF CpuPoints
      <3>2. QED
        BY <3>1, <2>1, <1>1 DEF Structure, TypeOK, quiet
    <2>4. \A u \in Tasks : Suspended(u)' <=> Suspended(u)
      BY <2>1, <1>1 DEF Suspended
    <2>5. \A u \in Tasks : TaskOK(u)' /\ BlockedOK(u)'
      BY <2>1, <2>4, <1>1 DEF Structure, TypeOK, TaskOK, BlockedOK, TakenOut
    <2>6. ASSUME NEW d \in Cpus PROVE CpuOK(d)' /\ WokenOK(d)' /\ RunqOK(d)'
      <3>1. CpuOK(d) /\ RunqOK(d) /\ ToSet(runnable[d]) \subseteq Tasks
        BY TaskQueue DEF Structure, TypeOK
      <3>2. WokenOK(d)'
        BY <2>1, <2>4, <1>1 DEF Structure, TypeOK, WokenOK, TakenOut
      <3>3. CASE d = c
        BY <3>1, <3>2, <3>3, <2>1, <2>2 DEF CpuOK, RunqOK
      <3>4. CASE d # c
        BY <3>1, <3>2, <3>4, <2>1, <2>2 DEF CpuOK, RunqOK
      <3>5. QED
        BY <3>3, <3>4
    <2>7. OneWaker' /\ \A q \in Queues : WaitqOK(q)'
      BY <2>1, <1>1 DEF Structure, OneWaker, WaitqOK
    <2>8. QED
      BY <2>3, <2>5, <2>6, <2>7 DEF Structure
  <1>6. QED
    BY <1>4, <1>5

LEMMA SchedStepOK ==
    ASSUME Structure, NEW c \in Cpus, WaitSchedStep(c), UNCHANGED <<woken, role, count>>
    PROVE  Structure'
  <1> USE Constants
  <1>0. /\ cpu \in [Cpus -> CpuPoints] /\ pc \in [AllTasks -> Points]
        /\ woken \in [Cpus -> Tasks \cup {Null}] /\ count \in Nat
    BY DEF Structure, TypeOK
  <1>1. UNCHANGED <<waiters, blocked>> /\ UNCHANGED waitVars
    BY DEF WaitSchedStep, waitVars
  <1>2. CASE SwitchEnter(c)
    BY <1>1, <1>2, SwitchEnterOK
  <1>3. CASE PickCleanup(c) \/ PickIdle(c) \/ PickFirst(c)
    BY <1>1, <1>3, PickOK
  <1>7. CASE CheckExiting(c)
    BY <1>7 DEF CheckExiting, Structure, TypeOK
  <1>8. CASE SwitchTo(c)
    BY <1>1, <1>8, SwitchToOK
  <1>4. CASE CheckLive(c) \/ ContextSwitch(c) \/ BootContextSwitch(c) \/ BootSwitch(c) \/ IdleYield(c)
    <2>1. UNCHANGED queueing /\ UNCHANGED quiet
      BY <1>1, <1>4 DEF CheckLive, ContextSwitch, BootContextSwitch, BootSwitch, IdleYield, taskVars,
                        queueVars, cpuVars, queueing, quiet
    <2>2. pc' = pc \/ pc' = [pc EXCEPT ![Idle[c]] = "idle"]
      BY <1>4 DEF CheckLive, ContextSwitch, BootContextSwitch, BootSwitch, IdleYield, CallSwitch
    <2>3. pc' \in [AllTasks -> Points] /\ \A t \in Tasks : pc'[t] = pc[t]
      BY <2>2, <1>0 DEF Points
    <2>4. \/ cpu[c] = "ctx" /\ cpu' = [cpu EXCEPT ![c] = "run"]
          \/ cpu[c] = "check" /\ cpu' = [cpu EXCEPT ![c] = "commit"]
          \/ cpu' = [cpu EXCEPT ![c] = "halted"]
          \/ cpu' = [cpu EXCEPT ![c] = "enter"]
      BY <1>4 DEF CheckLive, ContextSwitch, BootContextSwitch, BootSwitch, IdleYield, CallSwitch, Panic
    <2>5. /\ cpu' \in [Cpus -> CpuPoints]
          /\ \A d \in Cpus : cpu'[d] \in {"check", "commit"} => cpu[d] \in {"check", "commit"}
          /\ \A d \in Cpus : cpu'[d] \in {"run", "ctx"} => cpu[d] = cpu'[d] \/ cpu[d] = "ctx"
      BY <2>4, <1>0 DEF CpuPoints
    <2>6. QED
      BY <2>1, <2>3, <2>5, <1>0, <1>1, CpuOnly
  <1>5. CASE TimerIrq(c)
    <2>1. /\ UNCHANGED <<state, runnable, sleeping, waiting_on>>
          /\ cpu' \in [Cpus -> CpuPoints]
          /\ \A d \in Cpus : cpu'[d] = cpu[d] \/ cpu'[d] \in {"boot", "enter"}
          /\ UNCHANGED <<current, next, needs_cleanup, exiting, pc>>
      BY <1>5, NobodyIsDue
    <2>2. UNCHANGED queueing /\ UNCHANGED quiet
      BY <2>1, <1>1 DEF queueing, quiet
    <2>3. \A d \in Cpus : cpu'[d] \in {"run", "ctx"} => cpu[d] = cpu'[d] \/ cpu[d] = "ctx"
      BY <2>1
    <2>4. QED
      BY <2>1, <2>2, <2>3, <1>0, <1>1, CpuOnly
  <1>6. QED
    BY <1>2, <1>3, <1>4, <1>5, <1>7, <1>8 DEF WaitSchedStep, SwitchStep

-----------------------------------------------------------------------------
(* Nor does a step of the tasks or of the device.                          *)

\* What the operations of the lock users share.
BlockingStep(c, t) == BlockCurrent(c, t) \/ BlockSwitch(c, t, "acquire") \/ WakeBlocked(c, t, "body")

LEMMA BlockingStepOK ==
    ASSUME Structure, NEW c \in Cpus, NEW t \in Tasks, role[t] \in LockUsers,
           BlockingStep(c, t), UNCHANGED <<woken, role, count>>
    PROVE  Structure'
  <1>0. /\ cpu \in [Cpus -> CpuPoints] /\ pc \in [AllTasks -> Points]
        /\ woken \in [Cpus -> Tasks \cup {Null}] /\ count \in Nat
    BY DEF Structure, TypeOK
  <1>1. CASE BlockCurrent(c, t)
    <2>1. /\ UNCHANGED <<waiting_on, runnable, current, next, waiters, blocked>> /\ UNCHANGED quiet
          /\ At(c, t, "block")
      BY <1>1 DEF BlockCurrent, queueVars, cpuVars, waitVars, quiet
    <2>2. CASE state[t] = "RUNNING" /\ waiting_on[t] # Null
      <3>1. state' = [state EXCEPT ![t] = "BLOCKED"] /\ Go(t, "block_switch") /\ UNCHANGED cpu
        BY <1>1, <2>2 DEF BlockCurrent
      <3>2. QED
        BY <2>1, <2>2, <3>1, Blocks
    <2>3. CASE ~(state[t] = "RUNNING" /\ waiting_on[t] # Null)
      <3>1. /\ UNCHANGED <<state, pc>>
            /\ cpu' = [cpu EXCEPT ![c] = "halted"]
        BY <1>1, <2>3 DEF BlockCurrent, Panic
      <3>2. cpu' \in [Cpus -> CpuPoints] /\ \A d \in Cpus : cpu'[d] \in {"run", "ctx"} => cpu[d] = cpu'[d]
        BY <3>1, <1>0 DEF CpuPoints
      <3>3. UNCHANGED queueing
        BY <2>1, <3>1 DEF queueing
      <3>4. QED
        BY <2>1, <3>1, <3>2, <3>3, <1>0, CpuOnly
    <2>4. QED
      BY <2>2, <2>3
  <1>2. CASE BlockSwitch(c, t, "acquire")
    BY <1>2, SwitchesAway
  <1>3. CASE WakeBlocked(c, t, "body")
    BY <1>3, WakerWakes
  <1>4. QED
    BY <1>1, <1>2, <1>3 DEF BlockingStep

(* A task that works is RUNNING, waits nowhere and is being woken by none. *)
LEMMA WorkerRuns ==
    ASSUME Structure, NEW c \in Cpus, NEW t \in Tasks, Runs(c, t), pc[t] \in Working
    PROVE  state[t] = "RUNNING" /\ waiting_on[t] = Null /\ ~Suspended(t)
  BY DEF Structure, CpuOK, Runs, Suspended, Working

(* An attempt to take a mutex or a unit: the task goes on, or joins q.     *)
LEMMA AttemptOK ==
    ASSUME Structure, NEW c \in Cpus, NEW t \in Tasks, Runs(c, t),
           pc[t] \in {"body", "acquire"},
           NEW q \in Queues, role[t] \in LockUsers, q \in LockUsers, q = role[t],
           \/ \E to \in {"critical", "body"} : Go(t, to) /\ UNCHANGED <<waiting_on, waiters>>
           \/ Enqueue(q, t) /\ Go(t, "block") /\ UNCHANGED count,
           UNCHANGED <<state, runnable, current, next, blocked, woken, role, cpu>>,
           UNCHANGED quiet, count' \in Nat
    PROVE  Structure'
  <1>0. /\ cpu \in [Cpus -> CpuPoints] /\ blocked \in [Tasks -> Tasks \cup {Null}]
    BY DEF Structure, TypeOK
  <1>1. pc[t] \in Working /\ Structure /\ c \in Cpus /\ t \in Tasks /\ Runs(c, t)
    BY DEF Working
  <1>2. CASE \E to \in {"critical", "body"} : Go(t, to) /\ UNCHANGED <<waiting_on, waiters>>
    <2>1. PICK to \in {"critical", "body"} : Go(t, to) /\ UNCHANGED <<waiting_on, waiters>>
      BY <1>2
    <2>2. to \in Working \ {"wake"}
      BY <2>1 DEF Working
    <2>3. UNCHANGED queueing /\ UNCHANGED quiet /\ UNCHANGED woken /\ count' \in Nat
      BY <2>1 DEF queueing
    <2>4. /\ \A u \in Tasks : blocked'[u] = blocked[u] \/ (u = t /\ blocked'[u] = Null)
          /\ \A d \in Cpus : cpu'[d] = cpu[d] \/ cpu'[d] = "halted"
          /\ blocked' \in [Tasks -> Tasks \cup {Null}] /\ cpu' \in [Cpus -> CpuPoints]
      BY <1>0
    <2>5. QED
      BY ONLY <1>1, <2>1, <2>2, <2>3, <2>4, WorkOn
  <1>3. CASE Enqueue(q, t) /\ Go(t, "block") /\ UNCHANGED count
    <2>1. state[t] = "RUNNING" /\ waiting_on[t] = Null /\ ~Suspended(t)
      BY <1>1, WorkerRuns
    <2>2. /\ q = MutexQueue => role[t] = "mutex"
          /\ q = SemQueue => role[t] = "semaphore"
          /\ q = DoneQueue => role[t] = "device"
      BY DEF LockUsers, MutexQueue, SemQueue, DoneQueue
    <2>3. state[t] # "READY" /\ q \in Queues /\ role[t] \in LockUsers
          /\ UNCHANGED <<state, runnable, current, next, blocked, woken, role, count, cpu>>
          /\ UNCHANGED quiet
      BY <1>3, <2>1
    <2>4. QED
      BY ONLY <1>1, <1>3, <2>1, <2>2, <2>3, JoinsQueue
  <1>4. QED
    BY <1>2, <1>3

(* The release of a mutex or of a unit: queue q gives up its first waiter, *)
(* if it has one.                                                          *)
LEMMA ReleaseOK ==
    ASSUME Structure, NEW c \in Cpus, NEW t \in Tasks, At(c, t, "critical"),
           NEW q \in Queues, q \in {MutexQueue, SemQueue},
           Dequeue(q, t), Go(t, IF waiters[q] = <<>> THEN "body" ELSE "wake"),
           UNCHANGED <<state, runnable, current, next, woken, role, cpu>>, UNCHANGED quiet,
           count' \in Nat
    PROVE  Structure'
  <1>0. /\ cpu \in [Cpus -> CpuPoints] /\ blocked \in [Tasks -> Tasks \cup {Null}]
        /\ waiters \in [Queues -> Seq(Tasks)]
    BY DEF Structure, TypeOK
  <1>1. CASE waiters[q] # <<>>
    <2>1. Go(t, "wake")
      BY <1>1
    <2>2. QED
      BY <1>1, <2>1, TakesOut
  <1>2. CASE waiters[q] = <<>>
    <2>1. /\ waiters' = [waiters EXCEPT ![q] = waiters[q]] /\ waiting_on' = waiting_on
          /\ blocked' = [blocked EXCEPT ![t] = Null] /\ Go(t, "body")
      BY <1>2 DEF Dequeue
    <2>2. waiters' = waiters
      BY <2>1, <1>0
    <2>3. UNCHANGED queueing /\ UNCHANGED quiet /\ UNCHANGED woken /\ count' \in Nat
      BY <2>1, <2>2 DEF queueing
    <2>4. /\ \A u \in Tasks : blocked'[u] = blocked[u] \/ (u = t /\ blocked'[u] = Null)
          /\ \A d \in Cpus : cpu'[d] = cpu[d] \/ cpu'[d] = "halted"
          /\ blocked' \in [Tasks -> Tasks \cup {Null}] /\ cpu' \in [Cpus -> CpuPoints]
      BY <1>0, <2>1
    <2>5. /\ Structure /\ c \in Cpus /\ t \in Tasks /\ Runs(c, t) /\ pc[t] \in Working
          /\ "body" \in Working \ {"wake"}
      BY DEF At, Working
    <2>6. QED
      BY ONLY <2>1, <2>3, <2>4, <2>5, WorkOn
  <1>3. QED
    BY <1>1, <1>2

(* A failed assertion of task t changes nothing but the CPU.               *)
LEMMA HaltOK ==
    ASSUME Structure, NEW c \in Cpus, NEW why, Panic(c, why),
           UNCHANGED <<queueing, blocked, woken, pc, count>>, UNCHANGED quiet
    PROVE  Structure'
  <1>0. /\ cpu \in [Cpus -> CpuPoints] /\ pc \in [AllTasks -> Points]
        /\ woken \in [Cpus -> Tasks \cup {Null}] /\ count \in Nat
    BY DEF Structure, TypeOK
  <1>1. cpu' \in [Cpus -> CpuPoints] /\ \A d \in Cpus : cpu'[d] = "halted" \/ cpu[d] = cpu'[d]
    BY <1>0 DEF CpuPoints, Panic
  <1>2. QED
    BY <1>0, <1>1, CpuOnly

LEMMA MutexStepOK ==
    ASSUME Structure, NEW c \in Cpus, NEW t \in Tasks, MutexStep(c, t)
    PROVE  Structure'
  <1>0. /\ role[t] = "mutex" /\ role[t] \in LockUsers /\ UNCHANGED <<count, woken, role>>
        /\ count' \in Nat /\ MutexOps(c, t)
    BY DEF MutexStep, deviceVars, LockUsers, Structure, TypeOK
  <1>1. /\ Structure /\ c \in Cpus /\ t \in Tasks /\ MutexQueue \in Queues /\ MutexQueue \in LockUsers
        /\ MutexQueue = role[t]
    BY <1>0, Constants DEF LockUsers, MutexQueue
  <1>2. CASE MutexAcquire(c, t)
    <2>1. Runs(c, t) /\ pc[t] \in {"body", "acquire"}
      BY <1>2 DEF MutexAcquire, At
    <2>2. \/ \E to \in {"critical", "body"} : Go(t, to) /\ UNCHANGED <<waiting_on, waiters>>
          \/ Enqueue(MutexQueue, t) /\ Go(t, "block") /\ UNCHANGED count
      BY <1>0, <1>2 DEF MutexAcquire
    <2>3. UNCHANGED <<state, runnable, current, next, blocked, woken, role, cpu>> /\ UNCHANGED quiet
      BY <1>0, <1>2 DEF MutexAcquire, queueVars, cpuVars, quiet
    <2>4. QED
      BY ONLY <1>0, <1>1, <2>1, <2>2, <2>3, AttemptOK
  <1>3. CASE MutexTryAcquire(c, t)
    <2>1. Runs(c, t) /\ pc[t] \in {"body", "acquire"}
      BY <1>3 DEF MutexTryAcquire, At
    <2>2. \E to \in {"critical", "body"} : Go(t, to) /\ UNCHANGED <<waiting_on, waiters>>
      BY <1>3 DEF MutexTryAcquire, taskVars, waitVars
    <2>3. UNCHANGED <<state, runnable, current, next, blocked, woken, role, cpu>> /\ UNCHANGED quiet
      BY <1>0, <1>3 DEF MutexTryAcquire, taskVars, waitVars, queueVars, cpuVars, quiet
    <2>4. QED
      BY ONLY <1>0, <1>1, <2>1, <2>2, <2>3, AttemptOK
  <1>4. CASE MutexRelease(c, t)
    <2>1. /\ UNCHANGED <<state, runnable, current, next, woken, role>> /\ UNCHANGED quiet
          /\ At(c, t, "critical")
      BY <1>0, <1>4 DEF MutexRelease, queueVars, cpuVars, quiet
    <2>2. CASE owner = t
      <3>1. Dequeue(MutexQueue, t) /\ Go(t, IF waiters[MutexQueue] = <<>> THEN "body" ELSE "wake")
            /\ UNCHANGED cpu /\ MutexQueue \in {MutexQueue, SemQueue}
        BY <1>4, <2>2 DEF MutexRelease
      <3>2. QED
        BY ONLY <1>0, <1>1, <2>1, <3>1, ReleaseOK
    <2>3. CASE owner # t
      <3>1. /\ Panic(c, "mutex is not owned by the task trying to free it")
            /\ UNCHANGED <<queueing, blocked, woken, pc, count>>
        BY <1>0, <1>4, <2>1, <2>3 DEF MutexRelease, waitVars, queueing
      <3>2. QED
        BY <2>1, <3>1, HaltOK
    <2>4. QED
      BY <2>2, <2>3
  <1>5. CASE BlockingStep(c, t)
    BY <1>0, <1>5, BlockingStepOK
  <1>6. QED
    BY <1>0, <1>2, <1>3, <1>4, <1>5 DEF MutexOps, BlockingStep

LEMMA SemStepOK ==
    ASSUME Structure, NEW c \in Cpus, NEW t \in Tasks, SemStep(c, t)
    PROVE  Structure'
  <1>0. /\ role[t] = "semaphore" /\ role[t] \in LockUsers /\ UNCHANGED <<woken, role>>
        /\ count \in Nat /\ SemOps(c, t)
    BY DEF SemStep, deviceVars, LockUsers, Structure, TypeOK
  <1>1. /\ Structure /\ c \in Cpus /\ t \in Tasks /\ SemQueue \in Queues /\ SemQueue \in LockUsers
        /\ SemQueue = role[t]
    BY <1>0, Constants DEF LockUsers, SemQueue
  <1>2. CASE SemAcquire(c, t)
    <2>1. Runs(c, t) /\ pc[t] \in {"body", "acquire"}
      BY <1>2 DEF SemAcquire, At
    <2>2. \/ \E to \in {"critical", "body"} : Go(t, to) /\ UNCHANGED <<waiting_on, waiters>>
          \/ Enqueue(SemQueue, t) /\ Go(t, "block") /\ UNCHANGED count
      BY <1>0, <1>2 DEF SemAcquire
    <2>3. UNCHANGED <<state, runnable, current, next, blocked, woken, role, cpu>> /\ UNCHANGED quiet
      BY <1>0, <1>2 DEF SemAcquire, queueVars, cpuVars, quiet
    <2>4. count' \in Nat
      BY <1>0, <1>2 DEF SemAcquire
    <2>5. QED
      BY ONLY <1>0, <1>1, <2>1, <2>2, <2>3, <2>4, AttemptOK
  <1>3. CASE SemTryAcquire(c, t)
    <2>1. Runs(c, t) /\ pc[t] \in {"body", "acquire"}
      BY <1>3 DEF SemTryAcquire, At
    <2>2. \E to \in {"critical", "body"} : Go(t, to) /\ UNCHANGED <<waiting_on, waiters>>
      BY <1>3 DEF SemTryAcquire, taskVars, waitVars
    <2>3. UNCHANGED <<state, runnable, current, next, blocked, woken, role, cpu>> /\ UNCHANGED quiet
      BY <1>0, <1>3 DEF SemTryAcquire, taskVars, waitVars, queueVars, cpuVars, quiet
    <2>4. count' \in Nat
      BY <1>0, <1>3 DEF SemTryAcquire
    <2>5. QED
      BY ONLY <1>0, <1>1, <2>1, <2>2, <2>3, <2>4, AttemptOK
  <1>4. CASE SemRelease(c, t)
    <2>1. /\ UNCHANGED <<state, runnable, current, next, woken, role>> /\ UNCHANGED quiet
          /\ At(c, t, "critical")
      BY <1>0, <1>4 DEF SemRelease, queueVars, cpuVars, quiet
    <2>2. CASE count < InitialCount
      <3>1. ~(count >= InitialCount)
        BY <1>0, <2>2, SemaphoreAssumption
      <3>2. Dequeue(SemQueue, t) /\ Go(t, IF waiters[SemQueue] = <<>> THEN "body" ELSE "wake")
            /\ UNCHANGED cpu /\ count' = count + 1
        BY <1>4, <3>1, Zenon DEF SemRelease
      <3>3. count' \in Nat /\ SemQueue \in {MutexQueue, SemQueue}
        BY <1>0, <3>2
      <3>4. QED
        BY ONLY <1>0, <1>1, <2>1, <3>2, <3>3, ReleaseOK
    <2>3. CASE count >= InitialCount
      <3>1. ~(count < InitialCount)
        BY <1>0, <2>3, SemaphoreAssumption
      <3>2. /\ Panic(c, "no one has held this semaphore")
            /\ UNCHANGED <<count, waitVars, waiting_on, pc>>
        BY <1>4, <3>1, Zenon DEF SemRelease
      <3>3. UNCHANGED <<queueing, blocked, woken, pc, count>>
        BY <2>1, <3>2 DEF waitVars, queueing
      <3>4. QED
        BY <2>1, <3>2, <3>3, HaltOK
    <2>4. QED
      BY <2>2, <2>3, <1>0, SemaphoreAssumption
  <1>5. CASE BlockingStep(c, t) /\ UNCHANGED count
    BY <1>0, <1>5, BlockingStepOK
  <1>6. QED
    BY <1>0, <1>2, <1>3, <1>4, <1>5 DEF SemOps, BlockingStep

LEMMA DeviceStepOK ==
    ASSUME Structure, NEW c \in Cpus, NEW t \in Tasks, DeviceStep(c, t)
    PROVE  Structure'
  <1>0. /\ role[t] = "device" /\ UNCHANGED <<count, role>> /\ count' \in Nat
        /\ cpu \in [Cpus -> CpuPoints] /\ blocked \in [Tasks -> Tasks \cup {Null}]
    BY DEF DeviceStep, Structure, TypeOK
  <1>1. /\ Structure /\ c \in Cpus /\ t \in Tasks
    OBVIOUS
  <1>2. ASSUME Runs(c, t), pc[t] \in {"body", "notify", "wait"},
               NEW to \in {"notify", "wait", "body"}, Go(t, to),
               UNCHANGED <<state, waiting_on, runnable, current, next, waiters, blocked, woken, cpu>>,
               UNCHANGED quiet
        PROVE  Structure'
    <2>1. pc[t] \in Working /\ to \in Working \ {"wake"} /\ Runs(c, t) /\ Go(t, to)
      BY <1>2 DEF Working
    <2>2. UNCHANGED queueing /\ UNCHANGED quiet /\ UNCHANGED woken /\ count' \in Nat
      BY <1>0, <1>2 DEF queueing
    <2>3. /\ \A u \in Tasks : blocked'[u] = blocked[u] \/ (u = t /\ blocked'[u] = Null)
          /\ \A d \in Cpus : cpu'[d] = cpu[d] \/ cpu'[d] = "halted"
          /\ blocked' \in [Tasks -> Tasks \cup {Null}] /\ cpu' \in [Cpus -> CpuPoints]
      BY <1>0, <1>2
    <2>4. QED
      BY ONLY <1>1, <2>1, <2>2, <2>3, WorkOn
  <1>3. CASE Reset(c, t)
    <2>1. /\ UNCHANGED <<state, waiting_on, runnable, current, next, waiters, blocked, woken, cpu>>
          /\ UNCHANGED quiet /\ Runs(c, t) /\ pc[t] = "body" /\ Go(t, "notify")
      BY <1>3 DEF Reset, Here, At, kept, queueVars, cpuVars, quiet
    <2>2. QED
      BY <2>1, <1>2
  <1>4. CASE Notify(c, t)
    <2>1. /\ UNCHANGED <<state, waiting_on, runnable, current, next, waiters, blocked, woken, cpu>>
          /\ UNCHANGED quiet /\ Runs(c, t) /\ pc[t] = "notify" /\ Go(t, "wait")
      BY <1>4 DEF Notify, Here, At, kept, queueVars, cpuVars, quiet
    <2>2. QED
      BY <2>1, <1>2
  <1>5. CASE WaitCheck(c, t)
    <2>1. /\ UNCHANGED <<waiting_on, runnable, current, next, waiters, blocked, woken, cpu>>
          /\ UNCHANGED quiet /\ Runs(c, t) /\ pc[t] = "wait" /\ At(c, t, "wait")
      BY <1>5 DEF WaitCheck, Here, At, kept, queueVars, cpuVars, deviceVars, quiet
    <2>2. CASE done
      <3>1. state' = state /\ Go(t, "body")
        BY <1>5, <2>2 DEF WaitCheck
      <3>2. QED
        BY <2>1, <3>1, <1>2
    <2>3. CASE ~done
      <3>1. state' = [state EXCEPT ![t] = "BLOCKED"] /\ Go(t, "wait_enqueue")
        BY <1>5, <2>3 DEF WaitCheck
      <3>2. QED
        BY ONLY <1>0, <1>1, <2>1, <3>1, BlocksFirst
    <2>4. QED
      BY <2>2, <2>3
  <1>6. CASE WaitEnqueue(c, t)
    <2>1. /\ UNCHANGED <<state, runnable, current, next, blocked, woken>>
          /\ UNCHANGED quiet /\ Runs(c, t) /\ pc[t] = "wait_enqueue"
      BY <1>6 DEF WaitEnqueue, Here, At, kept, queueVars, cpuVars, deviceVars, quiet
    <2>2. state[t] = "BLOCKED" /\ waiting_on[t] = Null /\ ~Suspended(t) /\ state[t] # "READY"
      BY <2>1 DEF Structure, TaskOK, Suspended
    <2>3. Enqueue(DoneQueue, t) /\ Go(t, "block_switch") /\ UNCHANGED cpu
      BY <1>6, <2>2 DEF WaitEnqueue
    <2>4. /\ DoneQueue \in Queues
          /\ DoneQueue = MutexQueue => role[t] = "mutex"
          /\ DoneQueue = SemQueue => role[t] = "semaphore"
          /\ DoneQueue = DoneQueue => role[t] = "device"
      BY <1>0, Constants DEF DoneQueue, MutexQueue, SemQueue
    <2>5. QED
      BY ONLY <1>0, <1>1, <2>1, <2>2, <2>3, <2>4, JoinsQueue
  <1>7. CASE WaitSwitch(c, t)
    <2>1. BlockSwitch(c, t, "wait") /\ UNCHANGED woken
      BY <1>7 DEF WaitSwitch, deviceVars
    <2>2. QED
      BY <1>0, <2>1, SwitchesAway
  <1>8. QED
    BY <1>3, <1>4, <1>5, <1>6, <1>7 DEF DeviceStep, RequestStep

LEMMA AnswerStepOK ==
    ASSUME Structure, AnswerStep
    PROVE  Structure'
  <1>0. /\ UNCHANGED <<count, role>> /\ count' \in Nat
        /\ cpu \in [Cpus -> CpuPoints] /\ pc \in [AllTasks -> Points]
        /\ woken \in [Cpus -> Tasks \cup {Null}]
    BY DEF AnswerStep, Structure, TypeOK
  <1>1. ASSUME NEW t \in Tasks, DeviceAnswers(t) PROVE Structure'
    <2>1. /\ UNCHANGED queueing /\ UNCHANGED quiet /\ UNCHANGED <<blocked, woken, pc, cpu>>
      BY <1>0, <1>1 DEF DeviceAnswers, kept, queueVars, cpuVars, queueing, quiet
    <2>2. QED
      BY <1>0, <2>1, CpuOnly
  <1>2. ASSUME NEW c \in Cpus, TakeIrq(c) PROVE Structure'
    <2>1. /\ UNCHANGED queueing /\ UNCHANGED quiet /\ UNCHANGED <<blocked, woken, pc>>
          /\ cpu' = cpu \/ Panic(c, "completion already marked done")
      BY <1>0, <1>2 DEF TakeIrq, kept, queueVars, cpuVars, queueing, quiet
    <2>2. CASE cpu' = cpu
      BY <1>0, <2>1, <2>2, CpuOnly
    <2>3. CASE Panic(c, "completion already marked done")
      <3>1. UNCHANGED <<queueing, blocked, woken, pc, count>>
        BY <1>0, <2>1
      <3>2. QED
        BY <2>1, <2>3, <3>1, HaltOK
    <2>4. QED
      BY <2>1, <2>2, <2>3
  <1>3. ASSUME NEW c \in Cpus, SignalDequeue(c) PROVE Structure'
    <2>1. CASE waiters[DoneQueue] # <<>>
      BY <1>0, <1>3, <2>1, SignalTakesOut
    <2>2. CASE waiters[DoneQueue] = <<>>
      <3>1. /\ UNCHANGED queueing /\ UNCHANGED quiet /\ UNCHANGED <<blocked, woken, pc, cpu>>
        BY <1>0, <1>3, <2>2 DEF SignalDequeue, kept, queueVars, cpuVars, queueing, quiet
      <3>2. QED
        BY <1>0, <3>1, CpuOnly
    <2>3. QED
      BY <2>1, <2>2
  <1>4. ASSUME NEW c \in Cpus, SignalWake(c) PROVE Structure'
    BY <1>0, <1>4, SignalWakes
  <1>5. QED
    BY <1>1, <1>2, <1>3, <1>4 DEF AnswerStep, SignalStep

-----------------------------------------------------------------------------
(* The structure holds at the start and is kept by every step.             *)

LEMMA QueueOfSet ==
    ASSUME NEW S, IsFiniteSet(S), NEW s \in SetToSeqs(S)
    PROVE  s \in Seq(S) /\ IsInjective(s)
  <1>1. PICK n \in Nat : n = Cardinality(S)
    BY FS_CardinalityType
  <1>2. s \in [1..n -> S] /\ \A i, j \in 1..n : i # j => s[i] # s[j]
    BY <1>1 DEF SetToSeqs
  <1>3. s \in Seq(S)
    BY <1>2, SeqDef
  <1>4. QED
    BY <1>2, <1>3 DEF IsInjective

LEMMA StructureInit == Init => Structure
  <1> SUFFICES ASSUME Init PROVE Structure
    OBVIOUS
  <1> USE Constants
  <1>1. /\ state = [t \in AllTasks |-> IF t \in Tasks \ Tasks THEN "NONE" ELSE "READY"]
        /\ waiting_on = [t \in AllTasks |-> Null]
        /\ sleeping = [c \in Cpus |-> <<>>]
        /\ current = [c \in Cpus |-> Null]
        /\ needs_cleanup = [c \in Cpus |-> FALSE]
        /\ next = [c \in Cpus |-> Null]
        /\ exiting = {}
        /\ cpu = [c \in Cpus |-> "boot"]
    BY DEF Init, SchedInit
  <1>2. /\ waiters = [q \in Queues |-> <<>>]
        /\ blocked = [t \in Tasks |-> Null]
        /\ pc = [t \in AllTasks |-> IF t \in Tasks THEN "body" ELSE "idle"]
        /\ count = InitialCount
        /\ woken = [c \in Cpus |-> Null]
        /\ role \in Roles
    BY DEF Init, WaitInit, SemInit, CompletionInit
  <1>3. \A c \in Cpus : /\ runnable[c] \in Seq(Tasks)
                        /\ IsInjective(runnable[c])
                        /\ ToSet(runnable[c]) = {t \in Tasks : Home[t] = c}
    <2> SUFFICES ASSUME NEW c \in Cpus
                 PROVE  /\ runnable[c] \in Seq(Tasks)
                        /\ IsInjective(runnable[c])
                        /\ ToSet(runnable[c]) = {t \in Tasks : Home[t] = c}
      OBVIOUS
    <2>1. runnable \in [Cpus -> UNION {SetToSeqs({t \in Tasks : Home[t] = d}) : d \in Cpus}]
          /\ ToSet(runnable[c]) = {t \in Tasks : Home[t] = c}
      BY DEF Init, SchedInit
    <2>2. PICK d \in Cpus : runnable[c] \in SetToSeqs({t \in Tasks : Home[t] = d})
      BY <2>1
    <2>3. IsFiniteSet({t \in Tasks : Home[t] = d})
      BY SyncAssumption, FS_Subset
    <2>4. runnable[c] \in Seq({t \in Tasks : Home[t] = d}) /\ IsInjective(runnable[c])
      BY <2>2, <2>3, QueueOfSet
    <2>5. runnable[c] \in Seq(Tasks)
      BY <2>4, SeqMonotonic
    <2>6. QED
      BY <2>1, <2>4, <2>5
  <1>4. runnable \in [Cpus -> Seq(Tasks)]
    <2>1. runnable \in [Cpus -> UNION {SetToSeqs({t \in Tasks : Home[t] = d}) : d \in Cpus}]
      BY DEF Init, SchedInit
    <2>2. QED
      BY <2>1, <1>3
  <1>5. TypeOK
    <2>1. waiters \in [Queues -> Seq(Tasks)]
      BY <1>2, EmptySeq
    <2>2. pc \in [AllTasks -> Points]
      BY <1>2 DEF Points, Working
    <2>3. state \in [AllTasks -> {"READY", "RUNNING", "BLOCKED"}]
      BY <1>1
    <2>4. cpu \in [Cpus -> CpuPoints]
      BY <1>1 DEF CpuPoints
    <2>5. QED
      BY <1>1, <1>2, <1>4, <2>1, <2>2, <2>3, <2>4, SemaphoreAssumption DEF TypeOK
  <1>6. \A t \in Tasks : TaskOK(t)
    BY <1>1, <1>2 DEF TaskOK
  <1>7. \A c \in Cpus : CpuOK(c)
    BY <1>1 DEF CpuOK
  <1>8. (\A u \in Tasks : BlockedOK(u)) /\ (\A c \in Cpus : WokenOK(c)) /\ OneWaker
    BY <1>2 DEF BlockedOK, WokenOK, OneWaker
  <1>9. \A c \in Cpus : RunqOK(c)
    BY <1>1, <1>3 DEF RunqOK
  <1>10. \A q \in Queues : WaitqOK(q)
    BY <1>1, <1>2, EmptyQueue DEF WaitqOK
  <1>11. QED
    BY <1>5, <1>6, <1>7, <1>8, <1>9, <1>10 DEF Structure

LEMMA StructureStep == Structure /\ [Next]_vars => Structure'
  <1> SUFFICES ASSUME Structure, [Next]_vars PROVE Structure'
    OBVIOUS
  <1>1. ASSUME NEW c \in Cpus, CpuStep(c) PROVE Structure'
    <2>1. WaitSchedStep(c) /\ UNCHANGED <<woken, role, count>>
      BY <1>1 DEF CpuStep, deviceVars
    <2>2. QED
      BY <2>1, SchedStepOK
  <1>2. ASSUME NEW c \in Cpus, NEW t \in Tasks, MutexStep(c, t) PROVE Structure'
    BY <1>2, MutexStepOK
  <1>3. ASSUME NEW c \in Cpus, NEW t \in Tasks, SemStep(c, t) PROVE Structure'
    BY <1>3, SemStepOK
  <1>4. ASSUME NEW c \in Cpus, NEW t \in Tasks, DeviceStep(c, t) PROVE Structure'
    BY <1>4, DeviceStepOK
  <1>5. CASE AnswerStep
    BY <1>5, AnswerStepOK
  <1>6. CASE UNCHANGED vars
    <2>1. UNCHANGED queueing /\ UNCHANGED quiet /\ UNCHANGED <<blocked, woken, count, cpu, pc>>
      BY <1>6 DEF vars, schedVars, waitVars, deviceVars, taskVars, queueVars, cpuVars, queueing, quiet
    <2>2. /\ cpu \in [Cpus -> CpuPoints] /\ pc \in [AllTasks -> Points]
          /\ woken \in [Cpus -> Tasks \cup {Null}] /\ count \in Nat
      BY DEF Structure, TypeOK
    <2>3. QED
      BY <2>1, <2>2, CpuOnly
  <1>7. QED
    BY <1>1, <1>2, <1>3, <1>4, <1>5, <1>6 DEF Next

(* The structure says of the queues what the model checker is asked.       *)
LEMMA StructureQueues == Structure => QueuesConsistent
  <1> SUFFICES ASSUME Structure PROVE QueuesConsistent
    OBVIOUS
  <1>0. waiters \in [Queues -> Seq(Tasks)] /\ runnable \in [Cpus -> Seq(Tasks)]
    BY DEF Structure, TypeOK
  <1>1. ASSUME NEW s \in Seq(Tasks) PROVE ToSet(s) \subseteq Tasks
    BY LenProperties, ElementOfSeq DEF ToSet
  <1>2. ASSUME NEW s \in Seq(Tasks), NEW t, Contains(s, t) PROVE t \in ToSet(s)
    BY <1>2, LenProperties DEF ToSet, Contains
  <1>3. WaitersConsistent
    <2> SUFFICES ASSUME NEW q \in Queues
                 PROVE  /\ ToSet(waiters[q]) = {t \in Tasks : waiting_on[t] = q}
                        /\ IsInjective(waiters[q])
                        /\ \A t \in ToSet(waiters[q]), c \in Cpus : ~Contains(runnable[c], t)
      BY DEF WaitersConsistent
    <2>1. WaitqOK(q) /\ ToSet(waiters[q]) \subseteq Tasks
      BY <1>0, <1>1 DEF Structure
    <2>2. ASSUME NEW t \in ToSet(waiters[q]), NEW c \in Cpus, Contains(runnable[c], t) PROVE FALSE
      <3>1. t \in Tasks /\ waiting_on[t] = q /\ t \in ToSet(runnable[c])
        BY <2>1, <2>2, <1>0, <1>2 DEF WaitqOK
      <3>2. QED
        BY <3>1, Constants DEF Structure, RunqOK
    <2>3. QED
      BY <2>1, <2>2 DEF WaitqOK
  <1>4. RunQueuesConsistent
    BY <1>0, <1>1 DEF Structure, RunqOK, RunQueuesConsistent
  <1>5. QED
    BY <1>3, <1>4 DEF QueuesConsistent

\* Whatever order tasks block, wake each other and are preempted in, a wait
\* queue holds the tasks that name it, each once, and a run queue the ready
\* tasks of its CPU: waitqueue_enqueue, waitqueue_dequeue and
\* scheduler_wake_blocked keep the intrusive lists apart.
THEOREM QueuesStayConsistent == Spec => []QueuesConsistent
  <1>1. Init => Structure
    BY StructureInit
  <1>2. Structure /\ [Next]_vars => Structure'
    BY StructureStep
  <1>3. Structure => QueuesConsistent
    BY StructureQueues
  <1>4. QED
    BY <1>1, <1>2, <1>3, PTL DEF Spec

-----------------------------------------------------------------------------
(* Holders and waiters of the mutex and of the semaphore.                  *)

\* Task t has left the queue of a lock and not tried again.
Coming(t) == pc[t] \in {"block", "block_switch", "acquire"} /\ waiting_on[t] = Null

MutexSafe ==
    /\ MutualExclusion
    /\ owner = Null /\ waiters[MutexQueue] # <<>> => OnTheirWay("mutex") # {}

Holders == {t \in Users("semaphore") : pc[t] = "critical"}

SemSafe ==
    /\ UnitsConserved
    /\ waiters[SemQueue] # <<>> => count <= Cardinality(OnTheirWay("semaphore"))

\* The inductive invariant.
IInv == Structure /\ MutexSafe /\ SemSafe

\* What a lock sees of the tasks that use it does not change.
SameUsers(what) ==
    \A t \in Tasks : role[t] = what =>
        (pc'[t] = "critical" <=> pc[t] = "critical") /\ (Coming(t)' <=> Coming(t))

NoUnitLost == "no one has held this semaphore" \notin faults

LEMMA MutexFrame ==
    ASSUME MutexSafe, UNCHANGED <<owner, role>>, SameUsers("mutex"),
           waiters'[MutexQueue] = waiters[MutexQueue]
    PROVE  MutexSafe'
  <1>1. MutualExclusion'
    BY DEF MutexSafe, MutualExclusion, Users, SameUsers
  <1>2. OnTheirWay("mutex")' = OnTheirWay("mutex")
    BY DEF OnTheirWay, Users, SameUsers, Coming
  <1>3. QED
    BY <1>1, <1>2 DEF MutexSafe

LEMMA SemFrame ==
    ASSUME SemSafe, UNCHANGED <<count, role>>, SameUsers("semaphore"),
           waiters'[SemQueue] = waiters[SemQueue], NoUnitLost'
    PROVE  SemSafe'
  <1>1. {t \in Users("semaphore") : pc[t] = "critical"}' = {t \in Users("semaphore") : pc[t] = "critical"}
    BY DEF Users, SameUsers
  <1>2. UnitsConserved'
    BY <1>1 DEF SemSafe, UnitsConserved, NoUnitLost
  <1>3. OnTheirWay("semaphore")' = OnTheirWay("semaphore")
    BY DEF OnTheirWay, Users, SameUsers, Coming
  <1>4. QED
    BY <1>2, <1>3 DEF SemSafe

(* A failed assertion other than that of semaphore_release.                *)
LEMMA OtherPanic ==
    ASSUME NoUnitLost, NEW c, NEW why, why # "no one has held this semaphore", Panic(c, why)
    PROVE  NoUnitLost'
  BY DEF NoUnitLost, Panic

(* The scheduler moves no task in its own code.                            *)
LEMMA CpuStepUsers ==
    ASSUME Structure, NoUnitLost, NEW c \in Cpus, CpuStep(c)
    PROVE  /\ UNCHANGED <<owner, count, role, waiters>>
           /\ SameUsers("mutex") /\ SameUsers("semaphore") /\ NoUnitLost'
  <1> USE Constants
  <1>0. pc \in [AllTasks -> Points] /\ exiting = {} /\ ~needs_cleanup[c]
    BY DEF Structure, TypeOK
  <1>1. UNCHANGED <<owner, count, role, waiters>> /\ WaitSchedStep(c)
    BY DEF CpuStep, WaitSchedStep, waitVars
  <1>2. /\ UNCHANGED waiting_on /\ NoUnitLost'
        /\ \A t \in Tasks : pc'[t] = pc[t]
    <2>1. CASE SwitchEnter(c)
      <3>1. LeaveFault(current[c]) # "no one has held this semaphore"
        BY DEF LeaveFault
      <3>2. QED
        BY <2>1, <3>1, OtherPanic DEF SwitchEnter, NoUnitLost
    <2>2. CASE SwitchTo(c)
      BY <2>2, OtherPanic DEF SwitchTo, NoUnitLost
    <2>3. CASE PickCleanup(c) \/ PickIdle(c) \/ PickFirst(c)
      BY <2>3 DEF PickCleanup, PickIdle, PickFirst, Pick, taskVars, NoUnitLost
    <2>4. CASE CheckLive(c) \/ CheckExiting(c)
      BY <2>4 DEF CheckLive, CheckExiting, taskVars, NoUnitLost
    <2>5. CASE ContextSwitch(c) \/ BootContextSwitch(c) \/ BootSwitch(c)
      BY <2>5, OtherPanic DEF ContextSwitch, BootContextSwitch, BootSwitch, taskVars, NoUnitLost
    <2>6. CASE IdleYield(c)
      BY <2>6, <1>0 DEF IdleYield, CallSwitch, taskVars, NoUnitLost
    <2>7. CASE TimerIrq(c)
      BY <2>7, NobodyIsDue DEF NoUnitLost
    <2>8. QED
      BY <1>1, <2>1, <2>2, <2>3, <2>4, <2>5, <2>6, <2>7 DEF WaitSchedStep, SwitchStep
  <1>3. QED
    BY <1>1, <1>2 DEF SameUsers, Coming

(* A task that blocks, switches away or wakes another stays in the same    *)
(* relation to its lock.                                                   *)
LEMMA BlockingUsers ==
    ASSUME Structure, NoUnitLost, NEW c \in Cpus, NEW t \in Tasks, BlockingStep(c, t)
    PROVE  /\ UNCHANGED waiters
           /\ SameUsers("mutex") /\ SameUsers("semaphore") /\ NoUnitLost'
  <1> USE Constants
  <1>0. pc \in [AllTasks -> Points]
    BY DEF Structure, TypeOK
  <1>1. UNCHANGED <<waiting_on, waiters>> /\ NoUnitLost'
    BY OtherPanic DEF BlockingStep, BlockCurrent, BlockSwitch, WakeBlocked, Wake, waitVars, taskVars, NoUnitLost
  <1>2. /\ \A u \in Tasks : u # t => pc'[u] = pc[u]
        /\ \/ pc'[t] = pc[t]
           \/ pc[t] = "block" /\ pc'[t] = "block_switch"
           \/ pc[t] = "block_switch" /\ pc'[t] = "acquire"
           \/ pc[t] = "wake" /\ pc'[t] = "body"
    BY <1>0 DEF BlockingStep, BlockCurrent, BlockSwitch, WakeBlocked, CallSwitch, Go, At
  <1>3. QED
    BY <1>1, <1>2 DEF SameUsers, Coming

(* Nor do requests to the device, and its answers, concern the locks.      *)
LEMMA DeviceUsers ==
    ASSUME Structure, NoUnitLost,
           AnswerStep \/ \E c \in Cpus, t \in Tasks : DeviceStep(c, t)
    PROVE  /\ UNCHANGED <<owner, count, role>>
           /\ waiters'[MutexQueue] = waiters[MutexQueue] /\ waiters'[SemQueue] = waiters[SemQueue]
           /\ SameUsers("mutex") /\ SameUsers("semaphore") /\ NoUnitLost'
  <1> USE Constants
  <1>0. /\ pc \in [AllTasks -> Points] /\ waiters \in [Queues -> Seq(Tasks)]
        /\ waiting_on \in [AllTasks -> Queues \cup {Null}]
    BY DEF Structure, TypeOK
  <1>1. UNCHANGED <<owner, count, role>>
    BY DEF AnswerStep, DeviceStep
  <1>2. MutexQueue # DoneQueue /\ SemQueue # DoneQueue
    BY DEF MutexQueue, SemQueue, DoneQueue
  <1>3. /\ \A u \in Tasks : role[u] # "device" => pc'[u] = pc[u] /\ waiting_on'[u] = waiting_on[u]
        /\ waiters'[MutexQueue] = waiters[MutexQueue] /\ waiters'[SemQueue] = waiters[SemQueue]
        /\ NoUnitLost'
    <2>1. ASSUME NEW c \in Cpus, NEW t \in Tasks, DeviceStep(c, t)
          PROVE  /\ \A u \in Tasks : role[u] # "device" => pc'[u] = pc[u] /\ waiting_on'[u] = waiting_on[u]
                 /\ waiters'[MutexQueue] = waiters[MutexQueue] /\ waiters'[SemQueue] = waiters[SemQueue]
                 /\ NoUnitLost'
      <3>0. role[t] = "device"
        BY <2>1 DEF DeviceStep
      <3>1. \A u \in Tasks : u # t => pc'[u] = pc[u]
        BY ZenonT(40), <2>1, <1>0 DEF DeviceStep, Reset, RequestStep, Notify, WaitCheck, WaitEnqueue, WaitSwitch,
                          BlockSwitch, CallSwitch, Go
      <3>2. /\ \A u \in Tasks : u # t => waiting_on'[u] = waiting_on[u]
            /\ waiters'[MutexQueue] = waiters[MutexQueue] /\ waiters'[SemQueue] = waiters[SemQueue]
        BY ZenonT(40), <2>1, <1>0, <1>2 DEF DeviceStep, Reset, RequestStep, Notify, WaitCheck, WaitEnqueue, WaitSwitch,
                          BlockSwitch, Enqueue, taskVars, waitVars
      <3>3. NoUnitLost'
        BY <2>1, OtherPanic DEF DeviceStep, Reset, RequestStep, Notify, WaitCheck, WaitEnqueue, WaitSwitch,
                          BlockSwitch, NoUnitLost
      <3>4. QED
        BY <3>0, <3>1, <3>2, <3>3
    <2>2. ASSUME NEW c \in Cpus, SignalDequeue(c), waiters[DoneQueue] # <<>>
          PROVE  /\ \A u \in Tasks : role[u] # "device" => pc'[u] = pc[u] /\ waiting_on'[u] = waiting_on[u]
                 /\ waiters'[MutexQueue] = waiters[MutexQueue] /\ waiters'[SemQueue] = waiters[SemQueue]
                 /\ NoUnitLost'
      <3>1. PICK h : h = Head(waiters[DoneQueue])
        OBVIOUS
      <3>2. h \in Tasks /\ h \in ToSet(waiters[DoneQueue])
        BY <3>1, <2>2, <1>0, TailQueue
      <3>3. role[h] = "device"
        BY <3>2 DEF Structure, WaitqOK, TaskOK
      <3>4. /\ waiting_on' = [waiting_on EXCEPT ![h] = Null] /\ UNCHANGED <<pc, faults>>
            /\ waiters' = [waiters EXCEPT ![DoneQueue] = Tail(waiters[DoneQueue])]
        BY <3>1, <2>2 DEF SignalDequeue
      <3>5. QED
        BY <3>2, <3>3, <3>4, <1>0, <1>2 DEF NoUnitLost
    <2>3. ASSUME \/ \E t \in Tasks : DeviceAnswers(t)
                 \/ \E c \in Cpus : TakeIrq(c) \/ SignalWake(c) \/ (SignalDequeue(c) /\ waiters[DoneQueue] = <<>>)
          PROVE  UNCHANGED <<pc, waiting_on, waiters>> /\ NoUnitLost'
      BY <2>3, OtherPanic DEF DeviceAnswers, TakeIrq, SignalWake, SignalDequeue, Wake, waitVars, NoUnitLost
    <2>4. QED
      BY <2>1, <2>2, <2>3 DEF AnswerStep, SignalStep
  <1>4. QED
    BY <1>1, <1>3 DEF SameUsers, Coming

(* The steps of the users of the mutex.                                    *)
LEMMA MutexStepSafe ==
    ASSUME IInv, NEW c \in Cpus, NEW t \in Tasks, MutexStep(c, t)
    PROVE  MutexSafe' /\ SemSafe'
  <1> USE Constants
  <1>0. /\ Structure /\ MutexSafe /\ SemSafe /\ NoUnitLost
        /\ pc \in [AllTasks -> Points] /\ waiting_on \in [AllTasks -> Queues \cup {Null}]
        /\ waiters \in [Queues -> Seq(Tasks)]
    BY DEF IInv, Structure, TypeOK, SemSafe, UnitsConserved, NoUnitLost
  <1>1. role[t] = "mutex" /\ UNCHANGED <<count, role>> /\ MutexOps(c, t)
    BY DEF MutexStep
  <1>2. MutexQueue # SemQueue
    BY DEF MutexQueue, SemQueue
  <1>3. \A u \in Tasks : role[u] = "mutex" => (pc[u] = "critical" <=> owner = u)
    BY <1>0 DEF MutexSafe, MutualExclusion, Users
  <1>a. ASSUME pc' \in [AllTasks -> Points],
               \A u \in Tasks : role[u] = "mutex" => (pc'[u] = "critical" <=> owner' = u),
               \/ owner' # Null
               \/ waiters'[MutexQueue] = <<>>
               \/ \E h \in Tasks : role[h] = "mutex" /\ Coming(h)'
        PROVE  MutexSafe'
    <2>1. MutualExclusion'
      BY <1>1, <1>a DEF MutualExclusion, Users
    <2>2. ASSUME NEW h \in Tasks, role[h] = "mutex", Coming(h)' PROVE h \in OnTheirWay("mutex")'
      BY <1>1, <2>2 DEF OnTheirWay, Users, Coming
    <2>3. QED
      BY <1>a, <2>1, <2>2 DEF MutexSafe
  <1>b. ASSUME \A u \in Tasks : role[u] # "mutex" => pc'[u] = pc[u] /\ waiting_on'[u] = waiting_on[u],
               waiters'[SemQueue] = waiters[SemQueue], NoUnitLost'
        PROVE  SemSafe'
    <2>1. SameUsers("semaphore")
      BY <1>b DEF SameUsers, Coming
    <2>2. QED
      BY <1>0, <1>1, <1>b, <2>1, SemFrame
  <1>4. CASE MutexAcquire(c, t) \/ MutexTryAcquire(c, t)
    <2>1. /\ pc[t] \in {"body", "acquire"} /\ NoUnitLost'
          /\ \/ /\ owner = Null /\ owner' = t
                /\ Go(t, "critical") /\ UNCHANGED <<waiting_on, waiters>>
             \/ /\ owner # Null /\ owner' = owner
                /\ Enqueue(MutexQueue, t) /\ Go(t, "block")
             \/ /\ owner # Null /\ owner' = owner
                /\ pc[t] = "body" /\ Go(t, "body") /\ UNCHANGED <<waiting_on, waiters>>
      BY <1>0, <1>4 DEF MutexAcquire, MutexTryAcquire, At, taskVars, waitVars, NoUnitLost
    <2>2. CASE owner = Null /\ owner' = t /\ Go(t, "critical") /\ UNCHANGED <<waiting_on, waiters>>
      <3>1. pc'[t] = "critical" /\ \A u \in AllTasks : u # t => pc'[u] = pc[u]
        BY <1>0, <2>2 DEF Go
      <3>2. pc' \in [AllTasks -> Points]
        BY <1>0, <2>2 DEF Go, Points, Working
      <3>3. \A u \in Tasks : role[u] = "mutex" => (pc'[u] = "critical" <=> owner' = u)
        BY <3>1, <2>2, <1>3
      <3>4. owner' # Null
        BY <2>2
      <3>5. MutexSafe'
        BY <3>2, <3>3, <3>4, <1>a
      <3>6. SemSafe'
        BY <3>1, <2>1, <2>2, <1>1, <1>b
      <3>7. QED
        BY <3>5, <3>6
    <2>3. CASE owner # Null /\ owner' = owner /\ Enqueue(MutexQueue, t) /\ Go(t, "block")
      <3>1. pc'[t] = "block" /\ \A u \in AllTasks : u # t => pc'[u] = pc[u]
        BY <1>0, <2>3 DEF Go
      <3>2. pc' \in [AllTasks -> Points]
        BY <1>0, <2>3 DEF Go, Points, Working
      <3>3. \A u \in Tasks : role[u] = "mutex" => (pc'[u] = "critical" <=> owner' = u)
        BY <3>1, <2>1, <2>3, <1>1, <1>3
      <3>4. owner' # Null
        BY <2>3
      <3>5. MutexSafe'
        BY <3>2, <3>3, <3>4, <1>a
      <3>6. \A u \in AllTasks : u # t => waiting_on'[u] = waiting_on[u]
        BY <1>0, <2>3 DEF Enqueue
      <3>7. waiters'[SemQueue] = waiters[SemQueue]
        BY <1>0, <1>2, <2>3 DEF Enqueue
      <3>8. SemSafe'
        BY <3>1, <3>6, <3>7, <2>1, <1>1, <1>b
      <3>9. QED
        BY <3>5, <3>8
    <2>4. CASE owner # Null /\ owner' = owner /\ pc[t] = "body" /\ Go(t, "body") /\ UNCHANGED <<waiting_on, waiters>>
      <3>1. \A u \in Tasks : pc'[u] = pc[u]
        BY <1>0, <2>4 DEF Go
      <3>2. SameUsers("mutex")
        BY <3>1, <2>4 DEF SameUsers, Coming
      <3>3. MutexSafe'
        BY <3>2, <2>4, <1>0, <1>1, MutexFrame
      <3>4. SemSafe'
        BY <3>1, <2>1, <2>4, <1>b
      <3>5. QED
        BY <3>3, <3>4
    <2>5. QED
      BY <2>1, <2>2, <2>3, <2>4
  <1>5. CASE MutexRelease(c, t)
    <2>1. At(c, t, "critical") /\ owner = t
      BY <1>1, <1>3, <1>5 DEF MutexRelease, At
    <2>2. /\ owner' = Null /\ Dequeue(MutexQueue, t) /\ UNCHANGED <<cpu, faults>>
          /\ Go(t, IF waiters[MutexQueue] = <<>> THEN "body" ELSE "wake")
          /\ UNCHANGED <<state, runnable, current, next>> /\ UNCHANGED quiet
      BY <1>5, <2>1 DEF MutexRelease, queueVars, cpuVars, quiet
    <2>3. pc'[t] \in {"body", "wake"} /\ \A u \in AllTasks : u # t => pc'[u] = pc[u]
      BY <1>0, <2>2 DEF Go
    <2>4. pc' \in [AllTasks -> Points]
      BY <1>0, <2>2 DEF Go, Points, Working
    <2>5. \A u \in Tasks : role[u] = "mutex" => (pc'[u] = "critical" <=> owner' = u)
      BY <2>1, <2>2, <2>3, <1>3
    <2>6. NoUnitLost' /\ waiters'[SemQueue] = waiters[SemQueue]
      BY <1>0, <1>2, <2>2 DEF Dequeue, NoUnitLost
    <2>7. CASE waiters[MutexQueue] = <<>>
      <3>1. waiters'[MutexQueue] = <<>> /\ waiting_on' = waiting_on
        BY <1>0, <2>2, <2>7 DEF Dequeue
      <3>2. MutexSafe'
        BY <3>1, <2>4, <2>5, <1>a
      <3>3. SemSafe'
        BY <3>1, <2>3, <2>6, <1>1, <1>b
      <3>4. QED
        BY <3>2, <3>3
    <2>8. CASE waiters[MutexQueue] # <<>>
      <3>1. /\ Go(t, "wake") /\ MutexQueue \in {MutexQueue, SemQueue} /\ count' \in Nat
            /\ UNCHANGED <<state, runnable, current, next, woken, role, cpu>> /\ Structure
            /\ c \in Cpus /\ t \in Tasks /\ MutexQueue \in Queues
        BY <1>0, <1>1, <2>2, <2>8 DEF Structure, TypeOK, MutexStep, deviceVars
      <3>2. PICK h \in Tasks : /\ h # t /\ role[h] \in LockUsers /\ waiting_on[h] = MutexQueue
                               /\ waiting_on' = [waiting_on EXCEPT ![h] = Null]
                               /\ pc[h] \in {"block", "block_switch", "acquire"}
        BY ONLY <3>1, <2>1, <2>2, <2>8, TakesOut
      <3>3. role[h] = "mutex"
        BY <3>2, <1>0 DEF Structure, TaskOK
      <3>4. waiting_on'[h] = Null /\ \A u \in AllTasks : u # h => waiting_on'[u] = waiting_on[u]
        BY <1>0, <3>2
      <3>5. Coming(h)'
        BY <3>2, <3>4, <2>3 DEF Coming
      <3>6. MutexSafe'
        BY <3>3, <3>5, <2>4, <2>5, <1>a
      <3>7. SemSafe'
        BY <3>3, <3>4, <2>3, <2>6, <1>1, <1>b
      <3>8. QED
        BY <3>6, <3>7
    <2>9. QED
      BY <2>7, <2>8
  <1>6. CASE BlockingStep(c, t) /\ UNCHANGED owner
    <2>1. UNCHANGED waiters /\ SameUsers("mutex") /\ SameUsers("semaphore") /\ NoUnitLost'
      BY <1>0, <1>6, BlockingUsers
    <2>2. MutexSafe'
      BY <1>0, <1>1, <1>6, <2>1, MutexFrame
    <2>3. SemSafe'
      BY <1>0, <1>1, <2>1, SemFrame
    <2>4. QED
      BY <2>2, <2>3
  <1>7. QED
    BY <1>1, <1>4, <1>5, <1>6 DEF MutexOps, BlockingStep

(* The steps of the users of the semaphore: a unit changes hands.          *)
LEMMA UsersFinite ==
    /\ IsFiniteSet(Holders) /\ IsFiniteSet(OnTheirWay("semaphore"))
    /\ Cardinality(Holders) \in Nat /\ Cardinality(OnTheirWay("semaphore")) \in Nat
  <1>1. Holders \subseteq Tasks /\ OnTheirWay("semaphore") \subseteq Tasks
    BY DEF Holders, OnTheirWay, Users
  <1>2. IsFiniteSet(Holders) /\ IsFiniteSet(OnTheirWay("semaphore"))
    BY <1>1, SyncAssumption, FS_Subset
  <1>3. QED
    BY <1>2, FS_CardinalityType

LEMMA SemStepSafe ==
    ASSUME IInv, NEW c \in Cpus, NEW t \in Tasks, SemStep(c, t)
    PROVE  MutexSafe' /\ SemSafe'
  <1> USE Constants
  <1>0. /\ Structure /\ MutexSafe /\ SemSafe /\ NoUnitLost
        /\ pc \in [AllTasks -> Points] /\ waiting_on \in [AllTasks -> Queues \cup {Null}]
        /\ waiters \in [Queues -> Seq(Tasks)] /\ count \in Nat /\ InitialCount \in Nat
    BY SemaphoreAssumption DEF IInv, Structure, TypeOK, SemSafe, UnitsConserved, NoUnitLost
  <1>1. role[t] = "semaphore" /\ UNCHANGED <<owner, role>> /\ SemOps(c, t)
    BY DEF SemStep
  <1>2. MutexQueue # SemQueue
    BY DEF MutexQueue, SemQueue
  <1> DEFINE H == Holders
             W == OnTheirWay("semaphore")
  <1>3. /\ count + Cardinality(H) = InitialCount
        /\ waiters[SemQueue] # <<>> => count <= Cardinality(W)
    BY <1>0 DEF SemSafe, UnitsConserved, Holders
  <1>4. /\ IsFiniteSet(H) /\ IsFiniteSet(W) /\ Cardinality(H) \in Nat /\ Cardinality(W) \in Nat
    BY UsersFinite
  <1>5. \A u : /\ u \in H <=> u \in Tasks /\ role[u] = "semaphore" /\ pc[u] = "critical"
               /\ u \in W <=> u \in Tasks /\ role[u] = "semaphore" /\ Coming(u)
    BY DEF Holders, OnTheirWay, Users, Coming
  <1>6. \A u : /\ u \in H' <=> u \in Tasks /\ role[u] = "semaphore" /\ pc'[u] = "critical"
               /\ u \in W' <=> u \in Tasks /\ role[u] = "semaphore" /\ Coming(u)'
    BY <1>1 DEF Holders, OnTheirWay, Users, Coming
  <1>a. ASSUME NoUnitLost', count' + Cardinality(H') = InitialCount,
               waiters'[SemQueue] # <<>> => count' <= Cardinality(W')
        PROVE  SemSafe'
    BY <1>a DEF SemSafe, UnitsConserved, NoUnitLost, Holders
  <1> HIDE DEF H, W
  <1>b. ASSUME \A u \in Tasks : role[u] # "semaphore" => pc'[u] = pc[u] /\ waiting_on'[u] = waiting_on[u],
               waiters'[MutexQueue] = waiters[MutexQueue]
        PROVE  MutexSafe'
    <2>1. SameUsers("mutex")
      BY <1>b DEF SameUsers, Coming
    <2>2. QED
      BY <1>0, <1>1, <1>b, <2>1, MutexFrame
  <1>7. CASE SemAcquire(c, t) \/ SemTryAcquire(c, t)
    <2>0. /\ pc[t] \in {"body", "acquire"} /\ waiting_on[t] = Null /\ NoUnitLost'
      <3>1. Runs(c, t) /\ pc[t] \in {"body", "acquire"} /\ NoUnitLost'
        BY <1>0, <1>7 DEF SemAcquire, SemTryAcquire, At, NoUnitLost
      <3>2. QED
        BY <3>1, <1>0, WorkerRuns DEF Working
    <2>1. \/ /\ count > 0 /\ count' = count - 1
             /\ Go(t, "critical") /\ UNCHANGED <<waiting_on, waiters>>
          \/ /\ count = 0 /\ count' = 0
             /\ Enqueue(SemQueue, t) /\ Go(t, "block")
          \/ /\ count = 0 /\ count' = 0
             /\ pc[t] = "body" /\ Go(t, "body") /\ UNCHANGED <<waiting_on, waiters>>
      <3>1. CASE SemAcquire(c, t)
        BY <3>1 DEF SemAcquire
      <3>2. CASE SemTryAcquire(c, t)
        <4>1. CASE count > 0
          BY <3>2, <4>1 DEF SemTryAcquire, At, taskVars, waitVars
        <4>2. CASE ~(count > 0)
          <5>1. count = 0
            BY <4>2, <1>0
          <5>2. QED
            BY <3>2, <4>2, <5>1 DEF SemTryAcquire, At, taskVars, waitVars
        <4>3. QED
          BY <4>1, <4>2
      <3>3. QED
        BY <1>7, <3>1, <3>2
    <2>2. CASE count > 0 /\ count' = count - 1 /\ Go(t, "critical") /\ UNCHANGED <<waiting_on, waiters>>
      <3>1. pc'[t] = "critical" /\ \A u \in AllTasks : u # t => pc'[u] = pc[u]
        BY <1>0, <2>2 DEF Go
      <3>2. H' = H \cup {t} /\ t \notin H
        BY <3>1, <2>0, <1>1, <1>5, <1>6
      <3>3. Cardinality(H') = Cardinality(H) + 1
        BY <3>2, <1>4, FS_AddElement
      <3>4. W' = W \ {t}
        BY <3>1, <2>2, <1>5, <1>6 DEF Coming
      <3>5. Cardinality(W') = IF t \in W THEN Cardinality(W) - 1 ELSE Cardinality(W)
        BY <3>4, <1>4, FS_RemoveElement
      <3>6. count' + Cardinality(H') = InitialCount
        BY <3>3, <2>2, <1>0, <1>3, <1>4
      <3>7. waiters[SemQueue] # <<>> => count' <= Cardinality(W')
        BY <3>5, <2>2, <1>0, <1>3, <1>4
      <3>8. waiters' = waiters
        BY <2>2
      <3>9. SemSafe'
        BY <3>6, <3>7, <3>8, <2>0, <1>a
      <3>10. MutexSafe'
        BY <3>1, <2>2, <1>1, <1>b
      <3>11. QED
        BY <3>9, <3>10
    <2>3. CASE count = 0 /\ count' = 0 /\ Enqueue(SemQueue, t) /\ Go(t, "block")
      <3>1. pc'[t] = "block" /\ \A u \in AllTasks : u # t => pc'[u] = pc[u]
        BY <1>0, <2>3 DEF Go
      <3>2. H' = H
        <4>1. \A u : u \in H' <=> u \in H
          BY <3>1, <2>0, <1>5, <1>6
        <4>2. QED
          BY <4>1
      <3>3. Cardinality(W') \in Nat
        <4>1. W' \in SUBSET Tasks
          BY <1>6
        <4>2. QED
          BY <4>1, SyncAssumption, FS_Subset, FS_CardinalityType
      <3>4. count' + Cardinality(H') = InitialCount /\ count' <= Cardinality(W')
        BY <3>2, <3>3, <2>3, <1>3
      <3>5. SemSafe'
        BY <3>4, <2>0, <1>a
      <3>6. \A u \in AllTasks : u # t => waiting_on'[u] = waiting_on[u]
        BY <1>0, <2>3 DEF Enqueue
      <3>7. waiters'[MutexQueue] = waiters[MutexQueue]
        BY <1>0, <1>2, <2>3 DEF Enqueue
      <3>8. MutexSafe'
        BY <3>1, <3>6, <3>7, <1>1, <1>b
      <3>9. QED
        BY <3>5, <3>8
    <2>4. CASE count = 0 /\ count' = 0 /\ pc[t] = "body" /\ Go(t, "body") /\ UNCHANGED <<waiting_on, waiters>>
      <3>1. \A u \in Tasks : pc'[u] = pc[u]
        BY <1>0, <2>4 DEF Go
      <3>2. SameUsers("semaphore")
        BY <3>1, <2>4 DEF SameUsers, Coming
      <3>3. SemSafe'
        BY <3>2, <2>0, <2>4, <1>0, <1>1, SemFrame
      <3>4. MutexSafe'
        BY <3>1, <2>4, <1>b
      <3>5. QED
        BY <3>3, <3>4
    <2>5. QED
      BY <2>1, <2>2, <2>3, <2>4
  <1>8. CASE SemRelease(c, t)
    <2>1. At(c, t, "critical") /\ pc[t] = "critical" /\ t \in H
      BY <1>1, <1>5, <1>8 DEF SemRelease, At
    <2>2. Cardinality(H \ {t}) = Cardinality(H) - 1 /\ Cardinality(H \ {t}) \in Nat
      <3>1. IsFiniteSet(H \ {t})
        BY <1>4, FS_RemoveElement
      <3>2. QED
        BY <3>1, <2>1, <1>4, FS_RemoveElement, FS_CardinalityType
    <2>3. ~(count >= InitialCount)
      BY <2>2, <1>0, <1>3, <1>4
    <2>4. /\ count' = count + 1 /\ Dequeue(SemQueue, t) /\ UNCHANGED <<cpu, faults>>
          /\ Go(t, IF waiters[SemQueue] = <<>> THEN "body" ELSE "wake")
      BY <1>8, <2>3, Zenon DEF SemRelease
    <2>5. UNCHANGED <<state, runnable, current, next>> /\ UNCHANGED quiet
      BY <1>8 DEF SemRelease, queueVars, cpuVars, quiet
    <2>6. pc'[t] \in {"body", "wake"} /\ \A u \in AllTasks : u # t => pc'[u] = pc[u]
      BY <1>0, <2>4 DEF Go
    <2>7. H' = H \ {t}
      BY <2>6, <1>5, <1>6
    <2>8. count' + Cardinality(H') = InitialCount
      BY <2>2, <2>4, <2>7, <1>0, <1>3, <1>4
    <2>9. NoUnitLost' /\ waiters'[MutexQueue] = waiters[MutexQueue]
      BY <1>0, <1>2, <2>4 DEF Dequeue, NoUnitLost
    <2>10. CASE waiters[SemQueue] = <<>>
      <3>1. waiters'[SemQueue] = <<>> /\ waiting_on' = waiting_on
        BY <1>0, <2>4, <2>10 DEF Dequeue
      <3>2. SemSafe'
        BY <3>1, <2>8, <2>9, <1>a
      <3>3. MutexSafe'
        BY <3>1, <2>6, <2>9, <1>1, <1>b
      <3>4. QED
        BY <3>2, <3>3
    <2>11. CASE waiters[SemQueue] # <<>>
      <3>1. /\ Go(t, "wake") /\ SemQueue \in {MutexQueue, SemQueue}
            /\ UNCHANGED <<state, runnable, current, next, woken, role, cpu>> /\ Structure
            /\ c \in Cpus /\ t \in Tasks /\ SemQueue \in Queues
        BY <1>0, <1>1, <2>4, <2>5, <2>11 DEF SemStep, deviceVars
      <3>a. count' \in Nat
        BY <1>0, <2>4
      <3>2. PICK h \in Tasks : /\ h # t /\ role[h] \in LockUsers /\ waiting_on[h] = SemQueue
                               /\ waiting_on' = [waiting_on EXCEPT ![h] = Null]
                               /\ pc[h] \in {"block", "block_switch", "acquire"}
        BY ONLY <3>1, <3>a, <2>1, <2>4, <2>5, <2>11, TakesOut
      <3>3. role[h] = "semaphore"
        BY <3>2, <1>0 DEF Structure, TaskOK
      <3>4. waiting_on'[h] = Null /\ \A u \in AllTasks : u # h => waiting_on'[u] = waiting_on[u]
        BY <1>0, <3>2
      <3>5. W' = W \cup {h} /\ h \notin W
        <4>1. Coming(h)' /\ ~Coming(h)
          BY <3>2, <3>4, <2>6 DEF Coming
        <4>2. ~Coming(t) /\ ~Coming(t)'
          BY <2>1, <2>6 DEF Coming
        <4>3. \A u \in Tasks : u # t /\ u # h => (Coming(u)' <=> Coming(u))
          BY <3>4, <2>6 DEF Coming
        <4>4. QED
          BY <4>1, <4>2, <4>3, <3>2, <3>3, <1>5, <1>6
      <3>6. Cardinality(W') = Cardinality(W) + 1
        BY <3>5, <1>4, FS_AddElement
      <3>7. count' <= Cardinality(W')
        BY <3>6, <2>4, <2>11, <1>0, <1>3, <1>4
      <3>8. SemSafe'
        BY <3>7, <2>8, <2>9, <1>a
      <3>9. MutexSafe'
        BY <3>3, <3>4, <2>6, <2>9, <1>1, <1>b
      <3>10. QED
        BY <3>8, <3>9
    <2>12. QED
      BY <2>10, <2>11
  <1>9. CASE BlockingStep(c, t) /\ UNCHANGED count
    <2>1. UNCHANGED waiters /\ SameUsers("mutex") /\ SameUsers("semaphore") /\ NoUnitLost'
      BY <1>0, <1>9, BlockingUsers
    <2>2. MutexSafe'
      BY <1>0, <1>1, <2>1, MutexFrame
    <2>3. SemSafe'
      BY <1>0, <1>1, <1>9, <2>1, SemFrame
    <2>4. QED
      BY <2>2, <2>3
  <1>10. QED
    BY <1>1, <1>7, <1>8, <1>9 DEF SemOps, BlockingStep

-----------------------------------------------------------------------------
LEMMA LocksInit == Init => IInv
  <1> SUFFICES ASSUME Init PROVE IInv
    OBVIOUS
  <1>1. Structure
    BY StructureInit
  <1>2. /\ waiters = [q \in Queues |-> <<>>] /\ owner = Null /\ count = InitialCount /\ faults = {}
        /\ pc = [t \in AllTasks |-> IF t \in Tasks THEN "body" ELSE "idle"]
    BY DEF Init, SchedInit, WaitInit, MutexInit, SemInit
  <1>3. waiters[MutexQueue] = <<>> /\ waiters[SemQueue] = <<>> /\ \A t \in Tasks : pc[t] = "body"
    BY <1>2, Constants
  <1>4. MutexSafe
    BY <1>2, <1>3, Constants DEF MutexSafe, MutualExclusion, Users
  <1>5. {t \in Users("semaphore") : pc[t] = "critical"} = {}
    BY <1>3 DEF Users
  <1>6. Cardinality({t \in Users("semaphore") : pc[t] = "critical"}) = 0
    BY <1>5, FS_EmptySet
  <1>7. UnitsConserved
    <2>1. count + Cardinality({t \in Users("semaphore") : pc[t] = "critical"}) = InitialCount
      BY <1>2, <1>6, SemaphoreAssumption
    <2>2. QED
      BY <1>2, <2>1 DEF UnitsConserved
  <1>8. SemSafe
    BY <1>3, <1>7 DEF SemSafe
  <1>9. QED
    BY <1>1, <1>4, <1>8 DEF IInv

LEMMA LocksStep == IInv /\ [Next]_vars => IInv'
  <1> SUFFICES ASSUME IInv, [Next]_vars PROVE IInv'
    OBVIOUS
  <1>0. Structure /\ MutexSafe /\ SemSafe /\ NoUnitLost
    BY DEF IInv, SemSafe, UnitsConserved, NoUnitLost
  <1>1. Structure'
    BY <1>0, StructureStep
  <1>2. ASSUME NEW c \in Cpus, CpuStep(c) PROVE MutexSafe' /\ SemSafe'
    <2>1. /\ UNCHANGED <<owner, count, role, waiters>>
          /\ SameUsers("mutex") /\ SameUsers("semaphore") /\ NoUnitLost'
      BY <1>0, <1>2, CpuStepUsers
    <2>2. QED
      BY <1>0, <2>1, MutexFrame, SemFrame
  <1>3. ASSUME NEW c \in Cpus, NEW t \in Tasks, MutexStep(c, t) PROVE MutexSafe' /\ SemSafe'
    BY <1>3, MutexStepSafe
  <1>4. ASSUME NEW c \in Cpus, NEW t \in Tasks, SemStep(c, t) PROVE MutexSafe' /\ SemSafe'
    BY <1>4, SemStepSafe
  <1>5. CASE AnswerStep \/ \E c \in Cpus, t \in Tasks : DeviceStep(c, t)
    <2>1. /\ UNCHANGED <<owner, count, role>>
          /\ waiters'[MutexQueue] = waiters[MutexQueue] /\ waiters'[SemQueue] = waiters[SemQueue]
          /\ SameUsers("mutex") /\ SameUsers("semaphore") /\ NoUnitLost'
      BY <1>0, <1>5, DeviceUsers
    <2>2. QED
      BY <1>0, <1>1, <2>1, MutexFrame, SemFrame DEF IInv
  <1>6. CASE UNCHANGED vars
    <2>1. UNCHANGED <<owner, count, role, waiters, pc, waiting_on, faults>>
      BY <1>6 DEF vars, schedVars, waitVars, taskVars
    <2>2. SameUsers("mutex") /\ SameUsers("semaphore") /\ NoUnitLost'
      BY <1>0, <2>1 DEF SameUsers, Coming, NoUnitLost
    <2>3. QED
      BY <1>0, <1>1, <2>1, <2>2, MutexFrame, SemFrame DEF IInv
  <1>7. QED
    BY <1>1, <1>2, <1>3, <1>4, <1>5, <1>6 DEF Next, IInv

\* mutex_acquire lets one task in, and a semaphore as many as it has units,
\* whoever releases, barges in or is preempted meanwhile; semaphore_release
\* never finds more units than there are.
THEOREM LocksAreExact == Spec => []HoldersExact
  <1>1. IInv => HoldersExact
    BY DEF IInv, MutexSafe, SemSafe, HoldersExact
  <1>2. QED
    BY <1>1, LocksInit, LocksStep, PTL DEF Spec

\* A release is never lost on the tasks that wait: for a mutex that is free, or
\* for every free unit, a task that was taken out of the queue is on its way.
THEOREM ReleasesReachWaiters == Spec => []NoLostWakeup
  <1>1. IInv => NoLostWakeup
    BY DEF IInv, MutexSafe, SemSafe, NoLostWakeup
  <1>2. QED
    BY <1>1, LocksInit, LocksStep, PTL DEF Spec

-----------------------------------------------------------------------------
(* The completion of the block driver, which one task at a time may use:   *)
(* the answer that sets it is the one to the last request.                 *)

OneDeviceUser ==
    \A r \in Roles : \A t, u \in Tasks : r[t] = "device" /\ r[u] = "device" => t = u

\* A request is with the device, or its interrupt is raised, or the completion
\* is done; and none of this before it is made.
RequestOK ==
    /\ done \in BOOLEAN /\ irq \in BOOLEAN
    /\ requested \subseteq Users("device")
    /\ requested # {} => ~done /\ ~irq
    /\ irq => ~done
    /\ \A t \in Users("device") :
        /\ pc[t] \in {"body", "notify"} => requested = {} /\ ~irq
        /\ pc[t] = "notify" => ~done

\* The step of a task that returns from completion_wait finds its answer.
ReturnOK == \A t \in Users("device") : pc[t] = "wait" /\ pc'[t] = "body" => t \notin requested

(* Only the steps of a task change where its code is.                      *)
LEMMA CpuStepStays ==
    ASSUME Structure, NEW c \in Cpus, CpuStep(c)
    PROVE  \A t \in Tasks : pc'[t] = pc[t]
  <1>0. pc \in [AllTasks -> Points]
    BY DEF Structure, TypeOK
  <1>1. WaitSchedStep(c)
    BY DEF CpuStep
  <1>2. CASE IdleYield(c)
    BY <1>2, <1>0, Constants DEF IdleYield, CallSwitch
  <1>3. CASE SwitchStep(c) \/ TimerIrq(c) \/ BootSwitch(c)
    <2>1. UNCHANGED pc
      BY <1>3 DEF SwitchStep, SwitchEnter, PickCleanup, PickIdle, PickFirst, Pick, CheckLive,
                  CheckExiting, SwitchTo,
                  ContextSwitch, BootContextSwitch, TimerIrq, BootSwitch
    <2>2. QED
      BY <2>1
  <1>4. QED
    BY <1>1, <1>2, <1>3 DEF WaitSchedStep

(* A step that is neither of a device user nor of the device.              *)
LEMMA RequestKept ==
    ASSUME RequestOK, UNCHANGED <<done, requested, irq, role>>,
           \A t \in Users("device") : pc'[t] = pc[t]
    PROVE  RequestOK' /\ ReturnOK
  <1>1. Users("device")' = Users("device")
    BY DEF Users
  <1>2. QED
    BY <1>1 DEF RequestOK, ReturnOK

(* A step of a task, which is the only user of the device.                 *)
LEMMA DeviceStepAnswered ==
    ASSUME Structure, RequestOK, OneDeviceUser, NEW c \in Cpus, NEW t \in Tasks, DeviceStep(c, t)
    PROVE  RequestOK' /\ ReturnOK
  <1>0. pc \in [AllTasks -> Points] /\ t \in AllTasks /\ role \in Roles
    BY Constants DEF Structure, TypeOK
  <1>1. /\ role[t] = "device" /\ UNCHANGED role
        /\ Reset(c, t) \/ Notify(c, t) \/ WaitCheck(c, t) \/ WaitEnqueue(c, t) \/ WaitSwitch(c, t)
    BY DEF DeviceStep, RequestStep
  <1>2. Users("device") = {t} /\ Users("device")' = {t}
    BY <1>0, <1>1 DEF Users, OneDeviceUser
  <1>3. /\ done \in BOOLEAN /\ irq \in BOOLEAN
        /\ requested \subseteq {t}
        /\ requested # {} => ~done /\ ~irq
        /\ irq => ~done
        /\ pc[t] \in {"body", "notify"} => requested = {} /\ ~irq
        /\ pc[t] = "notify" => ~done
    BY <1>2 DEF RequestOK
  <1>4. SUFFICES /\ done' \in BOOLEAN /\ irq' \in BOOLEAN
                 /\ requested' \subseteq {t}
                 /\ requested' # {} => ~done' /\ ~irq'
                 /\ irq' => ~done'
                 /\ pc'[t] \in {"body", "notify"} => requested' = {} /\ ~irq'
                 /\ pc'[t] = "notify" => ~done'
                 /\ pc[t] = "wait" /\ pc'[t] = "body" => t \notin requested
    BY <1>2 DEF RequestOK, ReturnOK
  <1>5. CASE Reset(c, t)
    <2>1. pc[t] = "body" /\ pc'[t] = "notify" /\ done' = FALSE /\ UNCHANGED <<requested, irq>>
      BY <1>5, <1>0 DEF Reset, Here, At, Go
    <2>2. QED
      BY <2>1, <1>3
  <1>6. CASE Notify(c, t)
    <2>1. /\ pc[t] = "notify" /\ pc'[t] = "wait" /\ UNCHANGED <<done, irq>>
          /\ requested' = requested \cup {t}
      BY <1>6, <1>0 DEF Notify, Here, At, Go
    <2>2. QED
      BY <2>1, <1>3
  <1>7. CASE WaitCheck(c, t)
    <2>1. /\ pc[t] = "wait" /\ pc'[t] = (IF done THEN "body" ELSE "wait_enqueue")
          /\ UNCHANGED <<done, irq, requested>>
      BY <1>7, <1>0 DEF WaitCheck, Here, At, Go, deviceVars
    <2>2. QED
      BY <2>1, <1>3
  <1>8. CASE WaitEnqueue(c, t) \/ WaitSwitch(c, t)
    <2>1. pc'[t] \in {"wait_enqueue", "block_switch", "wait"} /\ UNCHANGED <<done, irq, requested>>
      BY <1>8, <1>0 DEF WaitEnqueue, WaitSwitch, BlockSwitch, CallSwitch, Here, At, Go, deviceVars
    <2>2. QED
      BY <2>1, <1>3
  <1>9. QED
    BY <1>1, <1>5, <1>6, <1>7, <1>8

(* The device answers, or a CPU handles its interrupt.                     *)
LEMMA AnswerStepAnswered ==
    ASSUME Structure, RequestOK, OneDeviceUser, AnswerStep
    PROVE  RequestOK' /\ ReturnOK
  <1>0. UNCHANGED <<role, pc>> /\ Users("device")' = Users("device") /\ role \in Roles
    BY DEF AnswerStep, DeviceAnswers, TakeIrq, SignalStep, SignalDequeue, SignalWake, Users,
           Structure, TypeOK
  <1>1. ReturnOK
    BY <1>0 DEF ReturnOK
  <1>2. ASSUME NEW t \in Tasks, DeviceAnswers(t) PROVE RequestOK'
    <2>1. t \in requested /\ requested' = requested \ {t} /\ irq' = TRUE /\ UNCHANGED done
      BY <1>2 DEF DeviceAnswers
    <2>2. Users("device") = {t}
      BY <2>1, <1>0 DEF RequestOK, Users, OneDeviceUser
    <2>3. requested' = {} /\ ~done /\ pc[t] \notin {"body", "notify"}
      BY <2>1, <2>2 DEF RequestOK
    <2>4. QED
      BY <2>1, <2>2, <2>3, <1>0 DEF RequestOK
  <1>3. ASSUME NEW c \in Cpus, TakeIrq(c) PROVE RequestOK'
    <2>1. irq /\ irq' = FALSE /\ done' = TRUE /\ UNCHANGED requested
      BY <1>3 DEF TakeIrq, RequestOK
    <2>2. requested = {} /\ \A t \in Users("device") : pc[t] \notin {"body", "notify"}
      BY <2>1 DEF RequestOK
    <2>3. QED
      BY <2>1, <2>2, <1>0 DEF RequestOK
  <1>4. ASSUME NEW c \in Cpus, SignalStep(c) PROVE RequestOK'
    <2>1. UNCHANGED <<done, requested, irq>>
      BY <1>4 DEF SignalStep, SignalDequeue, SignalWake
    <2>2. QED
      BY <2>1, <1>0, RequestKept
  <1>5. QED
    BY <1>1, <1>2, <1>3, <1>4 DEF AnswerStep

LEMMA RequestStepOK ==
    ASSUME Structure, RequestOK, OneDeviceUser, [Next]_vars
    PROVE  RequestOK' /\ ReturnOK
  <1>0. pc \in [AllTasks -> Points] /\ Tasks \subseteq AllTasks
    BY Constants DEF Structure, TypeOK
  <1>1. ASSUME NEW c \in Cpus, CpuStep(c) PROVE RequestOK' /\ ReturnOK
    <2>1. UNCHANGED <<done, requested, irq, role>> /\ \A t \in Users("device") : pc'[t] = pc[t]
      BY <1>1, CpuStepStays DEF CpuStep, deviceVars, Users
    <2>2. QED
      BY <2>1, RequestKept
  <1>2. ASSUME NEW c \in Cpus, NEW t \in Tasks, MutexStep(c, t) \/ SemStep(c, t)
        PROVE  RequestOK' /\ ReturnOK
    <2>1. UNCHANGED <<done, requested, irq, role>> /\ role[t] # "device"
      BY <1>2 DEF MutexStep, SemStep, deviceVars
    <2>2. \A u \in Tasks : u # t => pc'[u] = pc[u]
      BY <1>0, <1>2 DEF MutexStep, SemStep, MutexOps, SemOps, MutexAcquire, MutexTryAcquire, MutexRelease,
             SemAcquire, SemTryAcquire, SemRelease, BlockCurrent, BlockSwitch, WakeBlocked, CallSwitch, Go
    <2>3. QED
      BY <2>1, <2>2, RequestKept DEF Users
  <1>3. ASSUME NEW c \in Cpus, NEW t \in Tasks, DeviceStep(c, t) PROVE RequestOK' /\ ReturnOK
    BY <1>3, DeviceStepAnswered
  <1>4. CASE AnswerStep
    BY <1>4, AnswerStepAnswered
  <1>5. CASE UNCHANGED vars
    BY <1>5, RequestKept DEF vars, schedVars, deviceVars
  <1>6. QED
    BY <1>1, <1>2, <1>3, <1>4, <1>5 DEF Next

\* completion_wait returns to the only user of the device after the device has
\* answered its request, and never on an answer to an earlier one: the reset
\* comes before the request, and at most one answer is under way.  With two
\* users, who share one completion, this is false.
THEOREM WaitsForItsAnswer ==
    ASSUME OneDeviceUser
    PROVE  Spec => AnsweredOnReturn
  <1>1. Init => RequestOK
    <2> SUFFICES ASSUME Init PROVE RequestOK
      OBVIOUS
    <2>1. done = FALSE /\ irq = FALSE /\ requested = {}
      BY DEF Init, CompletionInit
    <2>2. QED
      BY <2>1 DEF RequestOK
  <1>2. Structure /\ RequestOK /\ [Next]_vars => RequestOK'
    BY OneDeviceUser, RequestStepOK
  <1>3. Structure /\ RequestOK /\ [Next]_vars =>
            [\A t \in Users("device") : pc[t] = "wait" /\ pc'[t] = "body" => t \notin requested]_vars
    BY OneDeviceUser, RequestStepOK DEF ReturnOK
  <1>4. QED
    BY <1>1, <1>2, <1>3, StructureInit, StructureStep, PTL DEF Spec, AnsweredOnReturn

=============================================================================
