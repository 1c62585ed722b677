------------------------------ MODULE SpinLock ------------------------------
(***************************************************************************)
(* The spin lock of kernel/sync/spinlock.c together with the interrupt     *)
(* masking it is built on (irq_push_intr and irq_pop_intr of               *)
(* kernel/irq/irq_controller.c), at the grain of single memory accesses.   *)
(*                                                                         *)
(* A CPU executes one context at a time: the thread it has switched to, or *)
(* its interrupt handler, which is named by the CPU itself.  An interrupt  *)
(* is taken at any point where the CPU has interrupts enabled; it may end  *)
(* in a switch to another thread of the same CPU (preemption).  Threads    *)
(* never migrate.  A system call runs with interrupts masked.              *)
(***************************************************************************)
EXTENDS Naturals, FiniteSets

CONSTANTS Cpus,      \* the CPUs, and the names of their interrupt handlers
          Threads,   \* the kernel threads
          Locks,     \* the spin locks, numbered in the order they nest
          Home,      \* Home[t]: the CPU thread t runs on (Task.cpu)
          First,     \* First[c]: the thread CPU c runs first
          NoCpu,     \* nullptr in SpinLock.cpu
          NoLock     \* the argument of a context outside the lock's code

ASSUME CpusThreadsAssumption == Cpus \cap Threads = {} /\ NoCpu \notin Cpus
ASSUME LocksAssumption ==
    Locks \subseteq Nat /\ IsFiniteSet(Locks) /\ NoLock \notin Locks
ASSUME HomeAssumption ==
    /\ Home \in [Threads -> Cpus]
    /\ First \in [Cpus -> Threads]
    /\ \A c \in Cpus : Home[First[c]] = c

VARIABLES
    locked,     \* SpinLock.locked
    owner,      \* SpinLock.cpu
    enabled,    \* enabled[c]: DAIF.I and DAIF.F of CPU c are clear
    depth,      \* Cpu.irq_disable_depth
    was,        \* Cpu.irq_was_enabled
    current,    \* Cpu.current
    in_irq,     \* in_irq[c]: CPU c executes its interrupt handler
    in_svc,     \* in_svc[t]: thread t is inside a system call
    saved,      \* saved[t]: interrupt state thread t resumes with
    pc,         \* where a context is in spinlock_acquire / spinlock_release
    arg,        \* the lock a context is acquiring or releasing
    prev,       \* the local enabled_previously of irq_push_intr
    held        \* the locks a context has acquired and not yet released

lockVars == <<locked, owner>>
irqVars  == <<enabled, depth, was>>
cpuVars  == <<current, in_irq, in_svc, saved>>
ctxVars  == <<pc, arg, prev, held>>
vars     == <<lockVars, irqVars, cpuVars, ctxVars>>

Contexts == Threads \cup Cpus

CpuOf(x) == IF x \in Cpus THEN x ELSE Home[x]

\* The context CPU c executes.
Active(c) == IF in_irq[c] THEN c ELSE current[c]

PushPCs == {"push_read", "push_mask", "push_count"}
AcquirePCs == PushPCs \cup {"check_locked", "check_cpu", "exchange", "set_cpu"}
ReleasePCs == {"check_holding", "clear_cpu", "unlock", "pop"}
PCs == {"out", "panic"} \cup AcquirePCs \cup ReleasePCs

Init ==
    /\ locked  = [l \in Locks |-> FALSE]
    /\ owner   = [l \in Locks |-> NoCpu]
    /\ enabled = [c \in Cpus |-> TRUE]
    /\ depth   = [c \in Cpus |-> 0]
    /\ was     = [c \in Cpus |-> FALSE]
    /\ current = First
    /\ in_irq  = [c \in Cpus |-> FALSE]
    /\ in_svc  = [t \in Threads |-> FALSE]
    /\ saved   = [t \in Threads |-> TRUE]
    /\ pc      = [x \in Contexts |-> "out"]
    /\ arg     = [x \in Contexts |-> NoLock]
    /\ prev    = [x \in Contexts |-> FALSE]
    /\ held    = [x \in Contexts |-> {}]

-----------------------------------------------------------------------------
(* What a context does outside the lock's code.                            *)

\* A context asks for a lock.  Locks nest in one order, and the kernel never
\* asks for a lock the same context already holds.
BeginAcquire(c, l) ==
    LET x == Active(c) IN
    /\ pc[x] = "out"
    /\ \A k \in held[x] : k < l
    /\ pc'  = [pc EXCEPT ![x] = "push_read"]
    /\ arg' = [arg EXCEPT ![x] = l]
    /\ UNCHANGED <<lockVars, irqVars, cpuVars, prev, held>>

BeginRelease(c, l) ==
    LET x == Active(c) IN
    /\ pc[x] = "out"
    /\ l \in held[x]
    /\ pc'  = [pc EXCEPT ![x] = "check_holding"]
    /\ arg' = [arg EXCEPT ![x] = l]
    /\ UNCHANGED <<lockVars, irqVars, cpuVars, prev, held>>

-----------------------------------------------------------------------------
(* spinlock_acquire                                                        *)

Step(x, from, to) == pc[x] = from /\ pc' = [pc EXCEPT ![x] = to]

\* Mutant: the interrupt state is read after it has been masked.
MutPushRead(c) ==
    LET x == Active(c) IN
    /\ Step(x, "push_read", "push_mask")
    /\ prev' = [prev EXCEPT ![x] = FALSE]
    /\ UNCHANGED <<lockVars, irqVars, cpuVars, arg, held>>

\* enabled_previously = r_intrd_enabled()
PushRead(c) ==
    LET x == Active(c) IN
    /\ Step(x, "push_read", "push_mask")
    /\ prev' = [prev EXCEPT ![x] = enabled[c]]
    /\ UNCHANGED <<lockVars, irqVars, cpuVars, arg, held>>

\* Mutant: interrupts stay enabled inside the critical section.
MutPushMask(c) ==
    LET x == Active(c) IN
    /\ Step(x, "push_mask", "push_count")
    /\ UNCHANGED <<lockVars, irqVars, cpuVars, arg, prev, held>>

\* w_intrd_disable()
PushMask(c) ==
    LET x == Active(c) IN
    /\ Step(x, "push_mask", "push_count")
    /\ enabled' = [enabled EXCEPT ![c] = FALSE]
    /\ UNCHANGED <<lockVars, depth, was, cpuVars, arg, prev, held>>

\* the first push saves the interrupt state; every push counts
PushCount(c) ==
    LET x == Active(c) IN
    /\ Step(x, "push_count", "check_locked")
    /\ was'   = [was EXCEPT ![c] = IF depth[c] = 0 THEN prev[x] ELSE @]
    /\ depth' = [depth EXCEPT ![c] = @ + 1]
    /\ prev'  = [prev EXCEPT ![x] = FALSE]
    /\ UNCHANGED <<lockVars, enabled, cpuVars, arg, held>>

\* holding(sp) reads sp->locked, and sp->cpu only if it is set
CheckLocked(c) ==
    LET x == Active(c) IN
    /\ Step(x, "check_locked", IF locked[arg[x]] THEN "check_cpu" ELSE "exchange")
    /\ UNCHANGED <<lockVars, irqVars, cpuVars, arg, prev, held>>

\* panic("failed to acquire lock, already holding it")
CheckCpu(c) ==
    LET x == Active(c) IN
    /\ Step(x, "check_cpu", IF owner[arg[x]] = c THEN "panic" ELSE "exchange")
    /\ UNCHANGED <<lockVars, irqVars, cpuVars, arg, prev, held>>

\* Mutant: the lock word is stored without looking at its old value.
MutExchange(c) ==
    LET x == Active(c) IN
    /\ Step(x, "exchange", "set_cpu")
    /\ locked' = [locked EXCEPT ![arg[x]] = TRUE]
    /\ UNCHANGED <<owner, irqVars, cpuVars, arg, prev, held>>

\* the __atomic_exchange_n that ends the loop
Exchange(c) ==
    LET x == Active(c) IN
    /\ Step(x, "exchange", "set_cpu")
    /\ ~locked[arg[x]]
    /\ locked' = [locked EXCEPT ![arg[x]] = TRUE]
    /\ UNCHANGED <<owner, irqVars, cpuVars, arg, prev, held>>

SetCpu(c) ==
    LET x == Active(c) IN
    /\ Step(x, "set_cpu", "out")
    /\ owner' = [owner EXCEPT ![arg[x]] = c]
    /\ held'  = [held EXCEPT ![x] = @ \cup {arg[x]}]
    /\ arg'   = [arg EXCEPT ![x] = NoLock]
    /\ UNCHANGED <<locked, irqVars, cpuVars, prev>>

-----------------------------------------------------------------------------
(* spinlock_release                                                        *)

\* panic("failed to release lock, not holding it")
CheckHolding(c) ==
    LET x == Active(c) IN
    /\ Step(x, "check_holding",
            IF locked[arg[x]] /\ owner[arg[x]] = c THEN "clear_cpu" ELSE "panic")
    /\ UNCHANGED <<lockVars, irqVars, cpuVars, arg, prev, held>>

\* Mutant: the owner is left behind when the lock is released.
MutClearCpu(c) ==
    LET x == Active(c) IN
    /\ Step(x, "clear_cpu", "unlock")
    /\ UNCHANGED <<lockVars, irqVars, cpuVars, arg, prev, held>>

ClearCpu(c) ==
    LET x == Active(c) IN
    /\ Step(x, "clear_cpu", "unlock")
    /\ owner' = [owner EXCEPT ![arg[x]] = NoCpu]
    /\ UNCHANGED <<locked, irqVars, cpuVars, arg, prev, held>>

\* __atomic_store_n(&sp->locked, false)
Unlock(c) ==
    LET x == Active(c) IN
    /\ Step(x, "unlock", "pop")
    /\ locked' = [locked EXCEPT ![arg[x]] = FALSE]
    /\ held'   = [held EXCEPT ![x] = @ \ {arg[x]}]
    /\ arg'    = [arg EXCEPT ![x] = NoLock]
    /\ UNCHANGED <<owner, irqVars, cpuVars, prev>>

\* irq_pop_intr, whose two checks panic
Pop(c) ==
    LET x == Active(c) IN
    /\ pc[x] = "pop"
    /\ \/ /\ enabled[c] \/ depth[c] < 1
          /\ pc' = [pc EXCEPT ![x] = "panic"]
          /\ UNCHANGED irqVars
       \/ /\ ~enabled[c] /\ depth[c] >= 1
          /\ pc' = [pc EXCEPT ![x] = "out"]
          /\ depth' = [depth EXCEPT ![c] = @ - 1]
          /\ enabled' = [enabled EXCEPT ![c] = @ \/ (depth[c] = 1 /\ was[c])]
          /\ UNCHANGED was
    /\ UNCHANGED <<lockVars, cpuVars, arg, prev, held>>

-----------------------------------------------------------------------------
(* Interrupts, preemption, voluntary switches and system calls             *)

\* An active context that is outside the lock code and holds nothing.
AtRest(x) == pc[x] = "out" /\ held[x] = {}

\* The CPU takes an interrupt: the hardware masks interrupts.
TakeIrq(c) ==
    /\ ~in_irq[c] /\ enabled[c]
    /\ in_irq'  = [in_irq EXCEPT ![c] = TRUE]
    /\ enabled' = [enabled EXCEPT ![c] = FALSE]
    /\ UNCHANGED <<lockVars, depth, was, current, in_svc, saved, ctxVars>>

\* irq_handle returns false: eret restores the unmasked state.
IrqReturn(c) ==
    /\ in_irq[c] /\ AtRest(c)
    /\ in_irq'  = [in_irq EXCEPT ![c] = FALSE]
    /\ enabled' = [enabled EXCEPT ![c] = TRUE]
    /\ UNCHANGED <<lockVars, depth, was, current, in_svc, saved, ctxVars>>

\* irq_handle returns true: preempt calls scheduler_switch.  The interrupted
\* thread keeps its frame and resumes unmasked; the next one resumes with the
\* state it was switched out with.
Preempt(c, t) ==
    /\ in_irq[c] /\ AtRest(c)
    /\ Home[t] = c /\ t # current[c]
    /\ in_irq'  = [in_irq EXCEPT ![c] = FALSE]
    /\ saved'   = [saved EXCEPT ![current[c]] = TRUE]
    /\ current' = [current EXCEPT ![c] = t]
    /\ enabled' = [enabled EXCEPT ![c] = saved[t]]
    /\ UNCHANGED <<lockVars, depth, was, in_svc, ctxVars>>

\* A thread calls scheduler_switch, which saves and restores its interrupt
\* state in the thread's own frame.
Yield(c, t) ==
    /\ ~in_irq[c] /\ AtRest(current[c])
    /\ Home[t] = c /\ t # current[c]
    /\ saved'   = [saved EXCEPT ![current[c]] = enabled[c]]
    /\ current' = [current EXCEPT ![c] = t]
    /\ enabled' = [enabled EXCEPT ![c] = saved[t]]
    /\ UNCHANGED <<lockVars, depth, was, in_irq, in_svc, ctxVars>>

\* exception_handler masks interrupts for the whole system call.
SvcEnter(c) ==
    LET t == current[c] IN
    /\ ~in_irq[c] /\ AtRest(t) /\ ~in_svc[t]
    /\ in_svc'  = [in_svc EXCEPT ![t] = TRUE]
    /\ enabled' = [enabled EXCEPT ![c] = FALSE]
    /\ UNCHANGED <<lockVars, depth, was, current, in_irq, saved, ctxVars>>

SvcReturn(c) ==
    LET t == current[c] IN
    /\ ~in_irq[c] /\ AtRest(t) /\ in_svc[t]
    /\ in_svc'  = [in_svc EXCEPT ![t] = FALSE]
    /\ enabled' = [enabled EXCEPT ![c] = TRUE]
    /\ UNCHANGED <<lockVars, depth, was, current, in_irq, saved, ctxVars>>

-----------------------------------------------------------------------------
LockStep(c) ==
    \/ PushRead(c) \/ PushMask(c) \/ PushCount(c)
    \/ CheckLocked(c) \/ CheckCpu(c) \/ Exchange(c) \/ SetCpu(c)
    \/ CheckHolding(c) \/ ClearCpu(c) \/ Unlock(c) \/ Pop(c)

Next ==
    \E c \in Cpus :
        \/ \E l \in Locks : BeginAcquire(c, l) \/ BeginRelease(c, l)
        \/ LockStep(c)
        \/ TakeIrq(c) \/ IrqReturn(c)
        \/ \E t \in Threads : Preempt(c, t) \/ Yield(c, t)
        \/ SvcEnter(c) \/ SvcReturn(c)

Spec == Init /\ [][Next]_vars

-----------------------------------------------------------------------------
(* Properties                                                              *)

\* Every variable keeps the type its C declaration gives it.
TypeOK ==
    /\ locked  \in [Locks -> BOOLEAN]
    /\ owner   \in [Locks -> Cpus \cup {NoCpu}]
    /\ enabled \in [Cpus -> BOOLEAN]
    /\ depth   \in [Cpus -> Nat]
    /\ was     \in [Cpus -> BOOLEAN]
    /\ current \in [Cpus -> Threads]
    /\ in_irq  \in [Cpus -> BOOLEAN]
    /\ in_svc  \in [Threads -> BOOLEAN]
    /\ saved   \in [Threads -> BOOLEAN]
    /\ pc      \in [Contexts -> PCs]
    /\ arg     \in [Contexts -> Locks \cup {NoLock}]
    /\ prev    \in [Contexts -> BOOLEAN]
    /\ held    \in [Contexts -> SUBSET Locks]
    /\ \A c \in Cpus : Home[current[c]] = c

\* No two contexts hold a lock at once, whichever CPUs they are on and
\* whatever interrupts and preemptions fall between the steps of
\* spinlock_acquire and spinlock_release.
MutualExclusion ==
    \A x, y \in Contexts : x # y => held[x] \cap held[y] = {}

\* None of the checks of spinlock_acquire, spinlock_release and irq_pop_intr
\* ever panics for callers that pair their calls: the unlocked test of
\* holding() is never fooled by another CPU, or by an interrupt handler that
\* wants the lock of the thread it interrupted.
NoPanic == \A x \in Contexts : pc[x] # "panic"

\* A context that holds a lock is the one its CPU executes, with interrupts
\* masked: a lock holder is never preempted and never interrupted, so nobody
\* spins for a lock whose holder is switched out.
HolderRuns ==
    \A x \in Contexts :
        held[x] # {} => x = Active(CpuOf(x)) /\ ~enabled[CpuOf(x)]

\* Once a context has released its last lock, the interrupt state is the one
\* it had before it took the first: enabled for a thread outside a system
\* call, masked inside one and in the interrupt handler.
IrqStateRestored ==
    \A c \in Cpus :
        LET x == Active(c) IN
        AtRest(x) => (enabled[c] <=> x \in Threads /\ ~in_svc[x])

=============================================================================
