--------------------------- MODULE SpinLockProofs ---------------------------
(***************************************************************************)
(* Proofs that the spin lock is correct for every set of CPUs, threads and *)
(* locks.  The four safety properties of SpinLock follow from one          *)
(* inductive invariant, IInv, which says for every context how far the     *)
(* masking of its CPU, the nesting depth, the lock word and the owner      *)
(* field have got at each point of the code.                               *)
(***************************************************************************)
EXTENDS SpinLock, FiniteSetTheorems, TLAPS

\* The points of the code after w_intrd_disable and before the end of
\* irq_pop_intr, where interrupts are masked.
MaskedPCs == {"push_count", "check_locked", "check_cpu", "exchange", "set_cpu",
              "check_holding", "clear_cpu", "unlock", "pop"}

\* The points at which irq_disable_depth counts a lock that is not in held.
CountedPCs == {"check_locked", "check_cpu", "exchange", "set_cpu", "pop"}

\* The points a context can be interrupted or switched out at.
RestPCs == {"out", "push_read", "push_mask"}

\* The interrupt state of a context outside critical sections.
Unmasked(x) == x \in Threads /\ ~in_svc[x]

\* Context x has set the lock word of l and not cleared it yet.
Owns(x, l) == l \in held[x] \/ (pc[x] = "set_cpu" /\ arg[x] = l)

\* The argument of a context and its relation to the locks it holds.
ArgInv ==
    \A x \in Contexts :
        /\ pc[x] \in AcquirePCs => arg[x] \in Locks \ held[x]
        /\ pc[x] \in {"check_holding", "clear_cpu", "unlock"} => arg[x] \in held[x]

\* A context that is switched out or interrupted holds nothing and resumes
\* with its own interrupt state.
Suspended(x) ==
    /\ held[x] = {}
    /\ pc[x] \in RestPCs
    /\ x \in Cpus => pc[x] = "out"
    /\ pc[x] = "push_mask" => (prev[x] <=> Unmasked(x))

RestInv == \A x \in Contexts : x # Active(CpuOf(x)) => Suspended(x)

\* A thread that is not its CPU's current one resumes with its own interrupt
\* state; an interrupted thread was running unmasked.
SavedInv ==
    /\ \A t \in Threads : t # current[Home[t]] => (saved[t] <=> Unmasked(t))
    /\ \A c \in Cpus : in_irq[c] => Unmasked(current[c])

\* Masking, nesting depth and saved state of CPU c, which executes x.
CpuInv(c, x) ==
    LET inside == held[x] # {} \/ pc[x] \in MaskedPCs IN
    /\ inside => ~enabled[c]
    /\ ~inside => (enabled[c] <=> Unmasked(x))
    /\ depth[c] = Cardinality(held[x]) + (IF pc[x] \in CountedPCs THEN 1 ELSE 0)
    /\ depth[c] > 0 => (was[c] <=> Unmasked(x))
    /\ depth[c] = 0 /\ pc[x] \in {"push_mask", "push_count"} => (prev[x] <=> Unmasked(x))

ActiveInv == \A c \in Cpus : CpuInv(c, Active(c))

\* The lock word and the owner field.
LockInv ==
    /\ \A x, y \in Contexts, l \in Locks : Owns(x, l) /\ Owns(y, l) => x = y
    /\ \A x \in Contexts, l \in Locks : Owns(x, l) => locked[l]
    /\ \A x \in Contexts, l \in Locks :
         l \in held[x] /\ ~(pc[x] = "unlock" /\ arg[x] = l) => owner[l] = CpuOf(x)
    /\ \A x \in Contexts : pc[x] = "unlock" => owner[arg[x]] = NoCpu
    /\ \A l \in Locks : owner[l] # NoCpu =>
         \E x \in Contexts : l \in held[x] /\ owner[l] = CpuOf(x)

IInv == TypeOK /\ NoPanic /\ ArgInv /\ RestInv /\ SavedInv /\ ActiveInv /\ LockInv

-----------------------------------------------------------------------------
(* Facts the action steps share.                                           *)

\* Taking a lock adds one to the number of locks a context holds, releasing
\* one subtracts one: what irq_disable_depth counts.
LEMMA HeldCount ==
    ASSUME NEW S \in SUBSET Locks
    PROVE  /\ Cardinality(S) \in Nat
           /\ S = {} <=> Cardinality(S) = 0
           /\ \A l \in Locks \ S : Cardinality(S \cup {l}) = Cardinality(S) + 1
           /\ \A l \in S : Cardinality(S \ {l}) = Cardinality(S) - 1
  <1>1. IsFiniteSet(S)
    BY FS_Subset, LocksAssumption
  <1>2. Cardinality(S) \in Nat /\ (S = {} <=> Cardinality(S) = 0)
    BY <1>1, FS_CardinalityType, FS_EmptySet
  <1>3. \A l \in Locks \ S : Cardinality(S \cup {l}) = Cardinality(S) + 1
    BY <1>1, FS_AddElement
  <1>4. \A l \in S : Cardinality(S \ {l}) = Cardinality(S) - 1
    BY <1>1, FS_RemoveElement
  <1>5. QED
    BY <1>2, <1>3, <1>4

\* The active context of a CPU is a context of that CPU.
LEMMA ActiveType ==
    ASSUME TypeOK, NEW c \in Cpus
    PROVE  Active(c) \in Contexts /\ CpuOf(Active(c)) = c
  BY CpusThreadsAssumption, HomeAssumption DEF TypeOK, Active, CpuOf, Contexts

\* A context belongs to a CPU.
LEMMA CpuOfType ==
    ASSUME NEW x \in Contexts
    PROVE  CpuOf(x) \in Cpus
  BY CpusThreadsAssumption, HomeAssumption DEF CpuOf, Contexts

\* The invariant holds before any lock is taken.
LEMMA InitIInv == Init => IInv
  <1> SUFFICES ASSUME Init PROVE IInv
    OBVIOUS
  <1>1. TypeOK
    BY HomeAssumption DEF Init, TypeOK, PCs, Contexts
  <1>2. NoPanic /\ ArgInv
    BY DEF Init, NoPanic, ArgInv, AcquirePCs, PushPCs
  <1>3. RestInv
    BY DEF Init, RestInv, Suspended, RestPCs
  <1>4. SavedInv
    BY DEF Init, SavedInv, Unmasked
  <1>5. ActiveInv
    <2> SUFFICES ASSUME NEW c \in Cpus PROVE CpuInv(c, Active(c))
      BY DEF ActiveInv
    <2>1. Active(c) = First[c] /\ First[c] \in Threads
      BY HomeAssumption DEF Init, Active
    <2>2. Cardinality(held[First[c]]) = 0
      BY <2>1, FS_EmptySet DEF Init, Contexts
    <2> QED
      BY <2>1, <2>2 DEF Init, CpuInv, Unmasked, MaskedPCs, CountedPCs, Contexts
  <1>6. LockInv
    BY DEF Init, LockInv, Owns
  <1>7. QED
    BY <1>1, <1>2, <1>3, <1>4, <1>5, <1>6 DEF IInv

-----------------------------------------------------------------------------
(* One lemma per action.  A step of the lock's code, taken by the active   *)
(* context x of CPU c, changes nothing of the other contexts and CPUs.     *)

\* A step of the lock's code keeps what the invariant says of the contexts that
\* are not running and of the other CPUs, and so all of it if CPU c keeps its part.
LEMMA LocalStep ==
    ASSUME IInv, TypeOK', NEW c \in Cpus, UNCHANGED cpuVars,
           \A y \in Contexts : y # Active(c) =>
               /\ pc'[y] = pc[y]
               /\ prev'[y] = prev[y]
               /\ held'[y] = held[y],
           \A d \in Cpus : d # c =>
               /\ enabled'[d] = enabled[d]
               /\ depth'[d] = depth[d]
               /\ was'[d] = was[d],
           CpuInv(c, Active(c))'
    PROVE  RestInv' /\ SavedInv' /\ ActiveInv'
  <1>1. \A d \in Cpus : Active(d)' = Active(d)
    BY DEF Active, cpuVars
  <1>2. \A y \in Contexts : Unmasked(y)' <=> Unmasked(y)
    BY DEF Unmasked, cpuVars
  <1>3. \A y \in Contexts : y # Active(CpuOf(y)) => y # Active(c)
    BY ActiveType DEF IInv
  <1>4. RestInv'
    BY <1>1, <1>2, <1>3, CpuOfType DEF IInv, RestInv, Suspended, CpuOf
  <1>5. SavedInv'
    BY DEF IInv, SavedInv, Unmasked, cpuVars
  <1>6. ActiveInv'
    <2> SUFFICES ASSUME NEW d \in Cpus, d # c PROVE CpuInv(d, Active(d))'
      BY DEF ActiveInv
    <2>1. Active(d) \in Contexts /\ Active(d) # Active(c)
      BY ActiveType DEF IInv
    <2>2. CpuInv(d, Active(d))
      BY DEF IInv, ActiveInv
    <2> QED
      BY <1>1, <1>2, <2>1, <2>2 DEF CpuInv, MaskedPCs, CountedPCs
  <1> QED
    BY <1>4, <1>5, <1>6

\* Entering spinlock_acquire for a lock that nests inside the held ones.
LEMMA BeginAcquireStep ==
    ASSUME IInv, NEW c \in Cpus, NEW l \in Locks, BeginAcquire(c, l)
    PROVE  IInv'
  <1> DEFINE x == Active(c)
  <1> USE DEF lockVars, irqVars, cpuVars, ctxVars
  <1>1. x \in Contexts /\ CpuOf(x) = c
    BY ActiveType DEF IInv
  <1>2. TypeOK'
    BY <1>1 DEF IInv, TypeOK, PCs, AcquirePCs, ReleasePCs, PushPCs, ArgInv, BeginAcquire, Step
  <1>3. NoPanic' /\ ArgInv'
    BY <1>1, LocksAssumption DEF IInv, TypeOK, NoPanic, ArgInv, BeginAcquire, Step, AcquirePCs, PushPCs
  <1>4. CpuInv(c, Active(c))'
    <2>1. CpuInv(c, x) /\ Active(c)' = x
      BY DEF IInv, ActiveInv, BeginAcquire, Active
    <2>2. held[x] \in SUBSET Locks
      BY <1>1 DEF IInv, TypeOK
    <2> QED
      BY <1>1, <2>1, <2>2, HeldCount
      DEF IInv, TypeOK, ArgInv, CpuInv, BeginAcquire, Step, MaskedPCs, CountedPCs, Unmasked, AcquirePCs, PushPCs
  <1>5. RestInv' /\ SavedInv' /\ ActiveInv'
    BY <1>1, <1>2, <1>4, LocalStep DEF IInv, TypeOK, BeginAcquire, Step
  <1>6. LockInv'
    BY <1>1 DEF IInv, TypeOK, ArgInv, LockInv, Owns, BeginAcquire, Step, AcquirePCs, PushPCs
  <1> QED
    BY <1>2, <1>3, <1>5, <1>6 DEF IInv

\* Entering spinlock_release for a held lock.
LEMMA BeginReleaseStep ==
    ASSUME IInv, NEW c \in Cpus, NEW l \in Locks, BeginRelease(c, l)
    PROVE  IInv'
  <1> DEFINE x == Active(c)
  <1> USE DEF lockVars, irqVars, cpuVars, ctxVars
  <1>1. x \in Contexts /\ CpuOf(x) = c
    BY ActiveType DEF IInv
  <1>2. TypeOK'
    BY <1>1 DEF IInv, TypeOK, PCs, AcquirePCs, ReleasePCs, PushPCs, ArgInv, BeginRelease, Step
  <1>3. NoPanic' /\ ArgInv'
    BY <1>1 DEF IInv, TypeOK, NoPanic, ArgInv, BeginRelease, Step, AcquirePCs, PushPCs
  <1>4. CpuInv(c, Active(c))'
    <2>1. CpuInv(c, x) /\ Active(c)' = x
      BY DEF IInv, ActiveInv, BeginRelease, Active
    <2>2. held[x] \in SUBSET Locks
      BY <1>1 DEF IInv, TypeOK
    <2> QED
      BY <1>1, <2>1, <2>2, HeldCount
      DEF IInv, TypeOK, ArgInv, CpuInv, BeginRelease, Step, MaskedPCs, CountedPCs, Unmasked, AcquirePCs, PushPCs
  <1>5. RestInv' /\ SavedInv' /\ ActiveInv'
    BY <1>1, <1>2, <1>4, LocalStep DEF IInv, TypeOK, BeginRelease, Step
  <1>6. LockInv'
    BY <1>1 DEF IInv, TypeOK, ArgInv, LockInv, Owns, BeginRelease, Step, AcquirePCs, PushPCs
  <1> QED
    BY <1>2, <1>3, <1>5, <1>6 DEF IInv

\* irq_push_intr reads the interrupt state into its local.
LEMMA PushReadStep ==
    ASSUME IInv, NEW c \in Cpus, PushRead(c)
    PROVE  IInv'
  <1> DEFINE x == Active(c)
  <1> USE DEF lockVars, irqVars, cpuVars, ctxVars
  <1>1. x \in Contexts /\ CpuOf(x) = c
    BY ActiveType DEF IInv
  <1>2. TypeOK'
    BY <1>1 DEF IInv, TypeOK, PCs, AcquirePCs, ReleasePCs, PushPCs, ArgInv, PushRead, Step
  <1>3. NoPanic' /\ ArgInv'
    BY <1>1 DEF IInv, TypeOK, NoPanic, ArgInv, PushRead, Step, AcquirePCs, PushPCs
  <1>4. CpuInv(c, Active(c))'
    <2>1. CpuInv(c, x) /\ Active(c)' = x
      BY DEF IInv, ActiveInv, PushRead, Active
    <2>2. held[x] \in SUBSET Locks
      BY <1>1 DEF IInv, TypeOK
    <2> QED
      BY <1>1, <2>1, <2>2, HeldCount
      DEF IInv, TypeOK, ArgInv, CpuInv, PushRead, Step, MaskedPCs, CountedPCs, Unmasked, AcquirePCs, PushPCs
  <1>5. RestInv' /\ SavedInv' /\ ActiveInv'
    BY <1>1, <1>2, <1>4, LocalStep DEF IInv, TypeOK, PushRead, Step
  <1>6. LockInv'
    BY <1>1 DEF IInv, TypeOK, ArgInv, LockInv, Owns, PushRead, Step, AcquirePCs, PushPCs
  <1> QED
    BY <1>2, <1>3, <1>5, <1>6 DEF IInv

\* irq_push_intr masks interrupts.
LEMMA PushMaskStep ==
    ASSUME IInv, NEW c \in Cpus, PushMask(c)
    PROVE  IInv'
  <1> DEFINE x == Active(c)
  <1> USE DEF lockVars, irqVars, cpuVars, ctxVars
  <1>1. x \in Contexts /\ CpuOf(x) = c
    BY ActiveType DEF IInv
  <1>2. TypeOK'
    BY <1>1 DEF IInv, TypeOK, PCs, AcquirePCs, ReleasePCs, PushPCs, ArgInv, PushMask, Step
  <1>3. NoPanic' /\ ArgInv'
    BY <1>1 DEF IInv, TypeOK, NoPanic, ArgInv, PushMask, Step, AcquirePCs, PushPCs
  <1>4. CpuInv(c, Active(c))'
    <2>1. CpuInv(c, x) /\ Active(c)' = x
      BY DEF IInv, ActiveInv, PushMask, Active
    <2>2. held[x] \in SUBSET Locks
      BY <1>1 DEF IInv, TypeOK
    <2> QED
      BY <1>1, <2>1, <2>2, HeldCount
      DEF IInv, TypeOK, ArgInv, CpuInv, PushMask, Step, MaskedPCs, CountedPCs, Unmasked, AcquirePCs, PushPCs
  <1>5. RestInv' /\ SavedInv' /\ ActiveInv'
    BY <1>1, <1>2, <1>4, LocalStep DEF IInv, TypeOK, PushMask, Step
  <1>6. LockInv'
    BY <1>1 DEF IInv, TypeOK, ArgInv, LockInv, Owns, PushMask, Step, AcquirePCs, PushPCs
  <1> QED
    BY <1>2, <1>3, <1>5, <1>6 DEF IInv

\* irq_push_intr saves the interrupt state at depth zero and counts.
LEMMA PushCountStep ==
    ASSUME IInv, NEW c \in Cpus, PushCount(c)
    PROVE  IInv'
  <1> DEFINE x == Active(c)
  <1> USE DEF lockVars, irqVars, cpuVars, ctxVars
  <1>1. x \in Contexts /\ CpuOf(x) = c
    BY ActiveType DEF IInv
  <1>2. TypeOK'
    BY <1>1 DEF IInv, TypeOK, PCs, AcquirePCs, ReleasePCs, PushPCs, ArgInv, PushCount, Step
  <1>3. NoPanic' /\ ArgInv'
    BY <1>1 DEF IInv, TypeOK, NoPanic, ArgInv, PushCount, Step, AcquirePCs, PushPCs
  <1>4. CpuInv(c, Active(c))'
    <2>1. CpuInv(c, x) /\ Active(c)' = x
      BY DEF IInv, ActiveInv, PushCount, Active
    <2>2. held[x] \in SUBSET Locks
      BY <1>1 DEF IInv, TypeOK
    <2> QED
      BY <1>1, <2>1, <2>2, HeldCount
      DEF IInv, TypeOK, ArgInv, CpuInv, PushCount, Step, MaskedPCs, CountedPCs, Unmasked, AcquirePCs, PushPCs
  <1>5. RestInv' /\ SavedInv' /\ ActiveInv'
    BY <1>1, <1>2, <1>4, LocalStep DEF IInv, TypeOK, PushCount, Step
  <1>6. LockInv'
    BY <1>1 DEF IInv, TypeOK, ArgInv, LockInv, Owns, PushCount, Step, AcquirePCs, PushPCs
  <1> QED
    BY <1>2, <1>3, <1>5, <1>6 DEF IInv

\* spinlock_acquire reads the lock word for holding().
LEMMA CheckLockedStep ==
    ASSUME IInv, NEW c \in Cpus, CheckLocked(c)
    PROVE  IInv'
  <1> DEFINE x == Active(c)
  <1> USE DEF lockVars, irqVars, cpuVars, ctxVars
  <1>1. x \in Contexts /\ CpuOf(x) = c
    BY ActiveType DEF IInv
  <1>2. TypeOK'
    BY <1>1 DEF IInv, TypeOK, PCs, AcquirePCs, ReleasePCs, PushPCs, ArgInv, CheckLocked, Step
  <1>3. NoPanic' /\ ArgInv'
    BY <1>1 DEF IInv, TypeOK, NoPanic, ArgInv, CheckLocked, Step, AcquirePCs, PushPCs
  <1>4. CpuInv(c, Active(c))'
    <2>1. CpuInv(c, x) /\ Active(c)' = x
      BY DEF IInv, ActiveInv, CheckLocked, Active
    <2>2. held[x] \in SUBSET Locks
      BY <1>1 DEF IInv, TypeOK
    <2> QED
      BY <1>1, <2>1, <2>2, HeldCount
      DEF IInv, TypeOK, ArgInv, CpuInv, CheckLocked, Step, MaskedPCs, CountedPCs, Unmasked, AcquirePCs, PushPCs
  <1>5. RestInv' /\ SavedInv' /\ ActiveInv'
    BY <1>1, <1>2, <1>4, LocalStep DEF IInv, TypeOK, CheckLocked, Step
  <1>6. LockInv'
    BY <1>1 DEF IInv, TypeOK, ArgInv, LockInv, Owns, CheckLocked, Step, AcquirePCs, PushPCs
  <1> QED
    BY <1>2, <1>3, <1>5, <1>6 DEF IInv

\* spinlock_acquire reads the owner: it is never this CPU, because a lock this
\* CPU holds is held by the running context, which does not ask for it again.
LEMMA CheckCpuStep ==
    ASSUME IInv, NEW c \in Cpus, CheckCpu(c)
    PROVE  IInv'
  <1> DEFINE x == Active(c)
  <1> USE DEF lockVars, irqVars, cpuVars, ctxVars
  <1>1. x \in Contexts /\ CpuOf(x) = c
    BY ActiveType DEF IInv
  <1>a. owner[arg[x]] # c
    <2> SUFFICES ASSUME owner[arg[x]] = c PROVE FALSE
      OBVIOUS
    <2>1. arg[x] \in Locks /\ arg[x] \notin held[x]
      BY <1>1 DEF IInv, ArgInv, CheckCpu, Step, AcquirePCs
    <2>2. PICK y \in Contexts : arg[x] \in held[y] /\ c = CpuOf(y)
      BY <2>1, CpusThreadsAssumption DEF IInv, LockInv
    <2>3. y = x
      BY <2>2 DEF IInv, RestInv, Suspended
    <2> QED
      BY <2>1, <2>2, <2>3
  <1>2. TypeOK'
    BY <1>1 DEF IInv, TypeOK, PCs, AcquirePCs, ReleasePCs, PushPCs, ArgInv, CheckCpu, Step
  <1>3. NoPanic' /\ ArgInv'
    BY <1>1, <1>a DEF IInv, TypeOK, NoPanic, ArgInv, CheckCpu, Step, AcquirePCs, PushPCs
  <1>4. CpuInv(c, Active(c))'
    <2>1. CpuInv(c, x) /\ Active(c)' = x
      BY DEF IInv, ActiveInv, CheckCpu, Active
    <2>2. held[x] \in SUBSET Locks
      BY <1>1 DEF IInv, TypeOK
    <2> QED
      BY <1>1, <1>a, <2>1, <2>2, HeldCount
      DEF IInv, TypeOK, ArgInv, CpuInv, CheckCpu, Step, MaskedPCs, CountedPCs, Unmasked, AcquirePCs, PushPCs
  <1>5. RestInv' /\ SavedInv' /\ ActiveInv'
    BY <1>1, <1>2, <1>4, LocalStep DEF IInv, TypeOK, CheckCpu, Step
  <1>6. LockInv'
    BY <1>1 DEF IInv, TypeOK, ArgInv, LockInv, Owns, CheckCpu, Step, AcquirePCs, PushPCs
  <1> QED
    BY <1>2, <1>3, <1>5, <1>6 DEF IInv

\* The atomic exchange takes a lock that nobody owns.
LEMMA ExchangeStep ==
    ASSUME IInv, NEW c \in Cpus, Exchange(c)
    PROVE  IInv'
  <1> DEFINE x == Active(c)
  <1> USE DEF lockVars, irqVars, cpuVars, ctxVars
  <1>1. x \in Contexts /\ CpuOf(x) = c
    BY ActiveType DEF IInv
  <1>2. TypeOK'
    BY <1>1 DEF IInv, TypeOK, PCs, AcquirePCs, ReleasePCs, PushPCs, ArgInv, Exchange, Step
  <1>3. NoPanic' /\ ArgInv'
    BY <1>1 DEF IInv, TypeOK, NoPanic, ArgInv, Exchange, Step, AcquirePCs, PushPCs
  <1>4. CpuInv(c, Active(c))'
    <2>1. CpuInv(c, x) /\ Active(c)' = x
      BY DEF IInv, ActiveInv, Exchange, Active
    <2>2. held[x] \in SUBSET Locks
      BY <1>1 DEF IInv, TypeOK
    <2> QED
      BY <1>1, <2>1, <2>2, HeldCount
      DEF IInv, TypeOK, ArgInv, CpuInv, Exchange, Step, MaskedPCs, CountedPCs, Unmasked, AcquirePCs, PushPCs
  <1>5. RestInv' /\ SavedInv' /\ ActiveInv'
    BY <1>1, <1>2, <1>4, LocalStep DEF IInv, TypeOK, Exchange, Step
  <1>6. LockInv'
    BY <1>1 DEF IInv, TypeOK, ArgInv, LockInv, Owns, Exchange, Step, AcquirePCs, PushPCs
  <1> QED
    BY <1>2, <1>3, <1>5, <1>6 DEF IInv

\* spinlock_acquire records the owner and returns.
LEMMA SetCpuStep ==
    ASSUME IInv, NEW c \in Cpus, SetCpu(c)
    PROVE  IInv'
  <1> DEFINE x == Active(c)
  <1> USE DEF lockVars, irqVars, cpuVars, ctxVars
  <1>1. x \in Contexts /\ CpuOf(x) = c
    BY ActiveType DEF IInv
  <1>2. TypeOK'
    BY <1>1 DEF IInv, TypeOK, PCs, AcquirePCs, ReleasePCs, PushPCs, ArgInv, SetCpu, Step
  <1>3. NoPanic' /\ ArgInv'
    BY <1>1 DEF IInv, TypeOK, NoPanic, ArgInv, SetCpu, Step, AcquirePCs, PushPCs
  <1>4. CpuInv(c, Active(c))'
    <2>1. CpuInv(c, x) /\ Active(c)' = x
      BY DEF IInv, ActiveInv, SetCpu, Active
    <2>2. held[x] \in SUBSET Locks
      BY <1>1 DEF IInv, TypeOK
    <2> QED
      BY <1>1, <2>1, <2>2, HeldCount
      DEF IInv, TypeOK, ArgInv, CpuInv, SetCpu, Step, MaskedPCs, CountedPCs, Unmasked, AcquirePCs, PushPCs
  <1>5. RestInv' /\ SavedInv' /\ ActiveInv'
    BY <1>1, <1>2, <1>4, LocalStep DEF IInv, TypeOK, SetCpu, Step
  <1>6. LockInv'
    BY <1>1 DEF IInv, TypeOK, ArgInv, LockInv, Owns, SetCpu, Step, AcquirePCs, PushPCs
  <1> QED
    BY <1>2, <1>3, <1>5, <1>6 DEF IInv

\* spinlock_release finds the lock held by this CPU.
LEMMA CheckHoldingStep ==
    ASSUME IInv, NEW c \in Cpus, CheckHolding(c)
    PROVE  IInv'
  <1> DEFINE x == Active(c)
  <1> USE DEF lockVars, irqVars, cpuVars, ctxVars
  <1>1. x \in Contexts /\ CpuOf(x) = c
    BY ActiveType DEF IInv
  <1>a. locked[arg[x]] /\ owner[arg[x]] = c
    BY <1>1 DEF IInv, TypeOK, ArgInv, LockInv, Owns, CheckHolding, Step
  <1>2. TypeOK'
    BY <1>1 DEF IInv, TypeOK, PCs, AcquirePCs, ReleasePCs, PushPCs, ArgInv, CheckHolding, Step
  <1>3. NoPanic' /\ ArgInv'
    BY <1>1, <1>a DEF IInv, TypeOK, NoPanic, ArgInv, CheckHolding, Step, AcquirePCs, PushPCs
  <1>4. CpuInv(c, Active(c))'
    <2>1. CpuInv(c, x) /\ Active(c)' = x
      BY DEF IInv, ActiveInv, CheckHolding, Active
    <2>2. held[x] \in SUBSET Locks
      BY <1>1 DEF IInv, TypeOK
    <2> QED
      BY <1>1, <2>1, <2>2, HeldCount
      DEF IInv, TypeOK, ArgInv, CpuInv, CheckHolding, Step, MaskedPCs, CountedPCs, Unmasked, AcquirePCs, PushPCs
  <1>5. RestInv' /\ SavedInv' /\ ActiveInv'
    BY <1>1, <1>2, <1>4, LocalStep DEF IInv, TypeOK, CheckHolding, Step
  <1>6. LockInv'
    BY <1>1 DEF IInv, TypeOK, ArgInv, LockInv, Owns, CheckHolding, Step, AcquirePCs, PushPCs
  <1> QED
    BY <1>2, <1>3, <1>5, <1>6 DEF IInv

\* spinlock_release clears the owner before the lock word.
LEMMA ClearCpuStep ==
    ASSUME IInv, NEW c \in Cpus, ClearCpu(c)
    PROVE  IInv'
  <1> DEFINE x == Active(c)
  <1> USE DEF lockVars, irqVars, cpuVars, ctxVars
  <1>1. x \in Contexts /\ CpuOf(x) = c
    BY ActiveType DEF IInv
  <1>2. TypeOK'
    BY <1>1 DEF IInv, TypeOK, PCs, AcquirePCs, ReleasePCs, PushPCs, ArgInv, ClearCpu, Step
  <1>3. NoPanic' /\ ArgInv'
    BY <1>1 DEF IInv, TypeOK, NoPanic, ArgInv, ClearCpu, Step, AcquirePCs, PushPCs
  <1>4. CpuInv(c, Active(c))'
    <2>1. CpuInv(c, x) /\ Active(c)' = x
      BY DEF IInv, ActiveInv, ClearCpu, Active
    <2>2. held[x] \in SUBSET Locks
      BY <1>1 DEF IInv, TypeOK
    <2> QED
      BY <1>1, <2>1, <2>2, HeldCount
      DEF IInv, TypeOK, ArgInv, CpuInv, ClearCpu, Step, MaskedPCs, CountedPCs, Unmasked, AcquirePCs, PushPCs
  <1>5. RestInv' /\ SavedInv' /\ ActiveInv'
    BY <1>1, <1>2, <1>4, LocalStep DEF IInv, TypeOK, ClearCpu, Step
  <1>6. LockInv'
    BY <1>1 DEF IInv, TypeOK, ArgInv, LockInv, Owns, ClearCpu, Step, AcquirePCs, PushPCs
  <1> QED
    BY <1>2, <1>3, <1>5, <1>6 DEF IInv

\* spinlock_release clears the lock word.
LEMMA UnlockStep ==
    ASSUME IInv, NEW c \in Cpus, Unlock(c)
    PROVE  IInv'
  <1> DEFINE x == Active(c)
  <1> USE DEF lockVars, irqVars, cpuVars, ctxVars
  <1>1. x \in Contexts /\ CpuOf(x) = c
    BY ActiveType DEF IInv
  <1>2. TypeOK'
    BY <1>1 DEF IInv, TypeOK, PCs, AcquirePCs, ReleasePCs, PushPCs, ArgInv, Unlock, Step
  <1>3. NoPanic' /\ ArgInv'
    BY <1>1 DEF IInv, TypeOK, NoPanic, ArgInv, Unlock, Step, AcquirePCs, PushPCs
  <1>4. CpuInv(c, Active(c))'
    <2>1. CpuInv(c, x) /\ Active(c)' = x
      BY DEF IInv, ActiveInv, Unlock, Active
    <2>2. held[x] \in SUBSET Locks
      BY <1>1 DEF IInv, TypeOK
    <2> QED
      BY <1>1, <2>1, <2>2, HeldCount
      DEF IInv, TypeOK, ArgInv, CpuInv, Unlock, Step, MaskedPCs, CountedPCs, Unmasked, AcquirePCs, PushPCs
  <1>5. RestInv' /\ SavedInv' /\ ActiveInv'
    BY <1>1, <1>2, <1>4, LocalStep DEF IInv, TypeOK, Unlock, Step
  <1>6. LockInv'
    BY <1>1 DEF IInv, TypeOK, ArgInv, LockInv, Owns, Unlock, Step, AcquirePCs, PushPCs
  <1> QED
    BY <1>2, <1>3, <1>5, <1>6 DEF IInv

\* irq_pop_intr finds interrupts masked and a positive depth, and restores the
\* interrupt state with the last lock.
LEMMA PopStep ==
    ASSUME IInv, NEW c \in Cpus, Pop(c)
    PROVE  IInv'
  <1> DEFINE x == Active(c)
  <1> USE DEF lockVars, irqVars, cpuVars, ctxVars
  <1>1. x \in Contexts /\ CpuOf(x) = c
    BY ActiveType DEF IInv
  <1>a. ~enabled[c] /\ depth[c] >= 1
    <2>1. CpuInv(c, x) /\ held[x] \in SUBSET Locks
      BY <1>1 DEF IInv, TypeOK, ActiveInv
    <2> QED
      BY <2>1, HeldCount DEF IInv, TypeOK, CpuInv, Pop, MaskedPCs, CountedPCs
  <1>2. TypeOK'
    BY <1>1 DEF IInv, TypeOK, PCs, AcquirePCs, ReleasePCs, PushPCs, ArgInv, Pop, Step
  <1>3. NoPanic' /\ ArgInv'
    BY <1>1, <1>a DEF IInv, TypeOK, NoPanic, ArgInv, Pop, Step, AcquirePCs, PushPCs
  <1>4. CpuInv(c, Active(c))'
    <2>1. CpuInv(c, x) /\ Active(c)' = x
      BY DEF IInv, ActiveInv, Pop, Active
    <2>2. held[x] \in SUBSET Locks
      BY <1>1 DEF IInv, TypeOK
    <2> QED
      BY <1>1, <2>1, <2>2, HeldCount
      DEF IInv, TypeOK, ArgInv, CpuInv, Pop, Step, MaskedPCs, CountedPCs, Unmasked, AcquirePCs, PushPCs
  <1>5. RestInv' /\ SavedInv' /\ ActiveInv'
    BY <1>1, <1>2, <1>4, LocalStep DEF IInv, TypeOK, Pop, Step
  <1>6. LockInv'
    BY <1>1 DEF IInv, TypeOK, ArgInv, LockInv, Owns, Pop, Step, AcquirePCs, PushPCs
  <1> QED
    BY <1>2, <1>3, <1>5, <1>6 DEF IInv

-----------------------------------------------------------------------------
(* An interrupt, a switch or a system call of CPU c: it happens while the  *)
(* active context x is outside critical sections, and moves no context.    *)

\* What an interrupt, a switch or a system call of CPU c has to establish for the
\* invariant to survive it.
LEMMA SwitchStep ==
    ASSUME IInv, TypeOK', SavedInv', NEW c \in Cpus, NEW x \in Contexts, x = Active(c),
           UNCHANGED <<lockVars, depth, was, ctxVars>>,
           \A d \in Cpus : d # c =>
               /\ enabled'[d] = enabled[d]
               /\ in_irq'[d] = in_irq[d]
               /\ current'[d] = current[d],
           \A t \in Threads : in_svc'[t] # in_svc[t] => t = current[c] /\ pc[t] = "out",
           held[x] = {}, pc[x] \in RestPCs, x \in Cpus => pc[x] = "out",
           enabled'[c] <=> Unmasked(Active(c))'
    PROVE  IInv'
  <1> USE DEF lockVars, ctxVars
  <1>1. NoPanic' /\ ArgInv' /\ LockInv'
    BY DEF IInv, NoPanic, ArgInv, LockInv, Owns
  <1>2. depth[c] = 0 /\ Suspended(x)
    <2>1. CpuInv(c, x) /\ Cardinality(held[x]) = 0
      BY FS_EmptySet DEF IInv, ActiveInv
    <2> QED
      BY <2>1 DEF CpuInv, Suspended, RestPCs, CountedPCs
  <1>3. \A y \in Contexts : Suspended(y) => Suspended(y)'
    BY DEF Suspended, Unmasked
  <1>4. \A y \in Contexts : CpuOf(y) = c => Suspended(y)
    BY <1>2 DEF IInv, RestInv
  <1>5. \A d \in Cpus : d # c => Active(d)' = Active(d)
    BY DEF Active
  <1>6. RestInv'
    <2> SUFFICES ASSUME NEW y \in Contexts, NEW d \in Cpus, d = CpuOf(y), y # Active(d)'
                 PROVE  Suspended(y)'
      BY CpuOfType DEF RestInv, CpuOf
    <2> QED
      BY <1>3, <1>4, <1>5 DEF IInv, RestInv
  <1>7. CpuInv(c, Active(c))'
    <2>1. PICK y \in Contexts : y = Active(c)' /\ CpuOf(y) = c
      BY HomeAssumption, CpusThreadsAssumption DEF TypeOK, Active, CpuOf, Contexts
    <2>2. Suspended(y)' /\ held'[y] = {} /\ Cardinality(held'[y]) = 0
      BY <1>3, <1>4, <2>1, FS_EmptySet DEF Suspended
    <2>3. CpuInv(c, y)'
      BY <1>2, <2>1, <2>2 DEF CpuInv, Suspended, RestPCs, MaskedPCs, CountedPCs
    <2> QED
      BY <2>1, <2>3
  <1>8. ActiveInv'
    <2> SUFFICES ASSUME NEW d \in Cpus, d # c PROVE CpuInv(d, Active(d))'
      BY <1>7 DEF ActiveInv
    <2>1. CpuInv(d, Active(d)) /\ Active(d) # current[c]
      BY HomeAssumption, CpusThreadsAssumption DEF IInv, TypeOK, ActiveInv, Active
    <2> QED
      BY <1>5, <2>1 DEF CpuInv, Unmasked
  <1> QED
    BY <1>1, <1>6, <1>8 DEF IInv

\* Taking an interrupt: the interrupted thread holds nothing.
LEMMA TakeIrqStep ==
    ASSUME IInv, NEW c \in Cpus, TakeIrq(c)
    PROVE  IInv'
  <1> USE DEF lockVars, ctxVars
  <1>1. PICK x \in Contexts : x = Active(c)
    BY ActiveType DEF IInv
  <1>2. /\ current[c] \in Threads /\ c \notin Threads /\ current[c] \notin Cpus
        /\ CpuInv(c, x)
    BY <1>1, CpusThreadsAssumption DEF IInv, TypeOK, ActiveInv
  <1>3. TypeOK'
    BY <1>2 DEF IInv, TypeOK, TakeIrq
  <1>4. held[x] = {} /\ pc[x] \in RestPCs /\ (x \in Cpus => pc[x] = "out")
    BY <1>1, <1>2 DEF IInv, TypeOK, NoPanic, CpuInv, Active, AtRest, RestPCs, MaskedPCs,
       PCs, AcquirePCs, ReleasePCs, PushPCs, TakeIrq
  <1>5. SavedInv'
    <2>1. ASSUME NEW u \in Threads, (u # current[Home[u]])' PROVE (saved[u] <=> Unmasked(u))'
      BY <1>1, <1>2, <1>4, <2>1, HomeAssumption
      DEF IInv, TypeOK, SavedInv, CpuInv, Active, AtRest, Unmasked, MaskedPCs, TakeIrq
    <2>2. ASSUME NEW d \in Cpus, in_irq'[d] PROVE Unmasked(current[d])'
      BY <1>1, <1>2, <1>4, <2>2, HomeAssumption
      DEF IInv, TypeOK, SavedInv, CpuInv, Active, AtRest, RestPCs, Unmasked, MaskedPCs, TakeIrq
    <2> QED
      BY <2>1, <2>2 DEF SavedInv
  <1>6. enabled'[c] <=> Unmasked(Active(c))'
    BY <1>1, <1>2, <1>4 DEF IInv, TypeOK, SavedInv, CpuInv, Active, AtRest, Unmasked, MaskedPCs, RestPCs, TakeIrq
  <1>7. /\ UNCHANGED <<lockVars, depth, was, ctxVars>>
        /\ \A d \in Cpus : d # c => /\ enabled'[d] = enabled[d]
                                    /\ in_irq'[d] = in_irq[d]
                                    /\ current'[d] = current[d]
        /\ \A u \in Threads : in_svc'[u] # in_svc[u] => u = current[c] /\ pc[u] = "out"
    BY DEF IInv, TypeOK, AtRest, TakeIrq
  <1> QED
    BY <1>1, <1>3, <1>4, <1>5, <1>6, <1>7, SwitchStep

\* Returning from an interrupt to the interrupted thread.
LEMMA IrqReturnStep ==
    ASSUME IInv, NEW c \in Cpus, IrqReturn(c)
    PROVE  IInv'
  <1> USE DEF lockVars, ctxVars
  <1>1. PICK x \in Contexts : x = Active(c)
    BY ActiveType DEF IInv
  <1>2. /\ current[c] \in Threads /\ c \notin Threads /\ current[c] \notin Cpus
        /\ CpuInv(c, x)
    BY <1>1, CpusThreadsAssumption DEF IInv, TypeOK, ActiveInv
  <1>3. TypeOK'
    BY <1>2 DEF IInv, TypeOK, IrqReturn
  <1>4. held[x] = {} /\ pc[x] \in RestPCs /\ (x \in Cpus => pc[x] = "out")
    BY <1>1, <1>2 DEF IInv, TypeOK, NoPanic, CpuInv, Active, AtRest, RestPCs, MaskedPCs,
       PCs, AcquirePCs, ReleasePCs, PushPCs, IrqReturn
  <1>5. SavedInv'
    <2>1. ASSUME NEW u \in Threads, (u # current[Home[u]])' PROVE (saved[u] <=> Unmasked(u))'
      BY <1>1, <1>2, <1>4, <2>1, HomeAssumption
      DEF IInv, TypeOK, SavedInv, CpuInv, Active, AtRest, Unmasked, MaskedPCs, IrqReturn
    <2>2. ASSUME NEW d \in Cpus, in_irq'[d] PROVE Unmasked(current[d])'
      BY <1>1, <1>2, <1>4, <2>2, HomeAssumption
      DEF IInv, TypeOK, SavedInv, CpuInv, Active, AtRest, RestPCs, Unmasked, MaskedPCs, IrqReturn
    <2> QED
      BY <2>1, <2>2 DEF SavedInv
  <1>6. enabled'[c] <=> Unmasked(Active(c))'
    BY <1>1, <1>2, <1>4 DEF IInv, TypeOK, SavedInv, CpuInv, Active, AtRest, Unmasked, MaskedPCs, RestPCs, IrqReturn
  <1>7. /\ UNCHANGED <<lockVars, depth, was, ctxVars>>
        /\ \A d \in Cpus : d # c => /\ enabled'[d] = enabled[d]
                                    /\ in_irq'[d] = in_irq[d]
                                    /\ current'[d] = current[d]
        /\ \A u \in Threads : in_svc'[u] # in_svc[u] => u = current[c] /\ pc[u] = "out"
    BY DEF IInv, TypeOK, AtRest, IrqReturn
  <1> QED
    BY <1>1, <1>3, <1>4, <1>5, <1>6, <1>7, SwitchStep

\* Returning from an interrupt to another thread.
LEMMA PreemptStep ==
    ASSUME IInv, NEW c \in Cpus, NEW t \in Threads, Preempt(c, t)
    PROVE  IInv'
  <1> USE DEF lockVars, ctxVars
  <1>1. PICK x \in Contexts : x = Active(c)
    BY ActiveType DEF IInv
  <1>2. /\ current[c] \in Threads /\ c \notin Threads /\ current[c] \notin Cpus
        /\ CpuInv(c, x)
    BY <1>1, CpusThreadsAssumption DEF IInv, TypeOK, ActiveInv
  <1>3. TypeOK'
    BY <1>2 DEF IInv, TypeOK, Preempt
  <1>4. held[x] = {} /\ pc[x] \in RestPCs /\ (x \in Cpus => pc[x] = "out")
    BY <1>1, <1>2 DEF IInv, TypeOK, NoPanic, CpuInv, Active, AtRest, RestPCs, MaskedPCs,
       PCs, AcquirePCs, ReleasePCs, PushPCs, Preempt
  <1>5. SavedInv'
    <2>1. ASSUME NEW u \in Threads, (u # current[Home[u]])' PROVE (saved[u] <=> Unmasked(u))'
      BY <1>1, <1>2, <1>4, <2>1, HomeAssumption
      DEF IInv, TypeOK, SavedInv, CpuInv, Active, AtRest, Unmasked, MaskedPCs, Preempt
    <2>2. ASSUME NEW d \in Cpus, in_irq'[d] PROVE Unmasked(current[d])'
      BY <1>1, <1>2, <1>4, <2>2, HomeAssumption
      DEF IInv, TypeOK, SavedInv, CpuInv, Active, AtRest, RestPCs, Unmasked, MaskedPCs, Preempt
    <2> QED
      BY <2>1, <2>2 DEF SavedInv
  <1>6. enabled'[c] <=> Unmasked(Active(c))'
    BY <1>1, <1>2, <1>4 DEF IInv, TypeOK, SavedInv, CpuInv, Active, AtRest, Unmasked, MaskedPCs, RestPCs, Preempt
  <1>7. /\ UNCHANGED <<lockVars, depth, was, ctxVars>>
        /\ \A d \in Cpus : d # c => /\ enabled'[d] = enabled[d]
                                    /\ in_irq'[d] = in_irq[d]
                                    /\ current'[d] = current[d]
        /\ \A u \in Threads : in_svc'[u] # in_svc[u] => u = current[c] /\ pc[u] = "out"
    BY DEF IInv, TypeOK, AtRest, Preempt
  <1> QED
    BY <1>1, <1>3, <1>4, <1>5, <1>6, <1>7, SwitchStep

\* scheduler_switch called by a thread.
LEMMA YieldStep ==
    ASSUME IInv, NEW c \in Cpus, NEW t \in Threads, Yield(c, t)
    PROVE  IInv'
  <1> USE DEF lockVars, ctxVars
  <1>1. PICK x \in Contexts : x = Active(c)
    BY ActiveType DEF IInv
  <1>2. /\ current[c] \in Threads /\ c \notin Threads /\ current[c] \notin Cpus
        /\ CpuInv(c, x)
    BY <1>1, CpusThreadsAssumption DEF IInv, TypeOK, ActiveInv
  <1>3. TypeOK'
    BY <1>2 DEF IInv, TypeOK, Yield
  <1>4. held[x] = {} /\ pc[x] \in RestPCs /\ (x \in Cpus => pc[x] = "out")
    BY <1>1, <1>2 DEF IInv, TypeOK, NoPanic, CpuInv, Active, AtRest, RestPCs, MaskedPCs,
       PCs, AcquirePCs, ReleasePCs, PushPCs, Yield
  <1>5. SavedInv'
    <2>1. ASSUME NEW u \in Threads, (u # current[Home[u]])' PROVE (saved[u] <=> Unmasked(u))'
      BY <1>1, <1>2, <1>4, <2>1, HomeAssumption
      DEF IInv, TypeOK, SavedInv, CpuInv, Active, AtRest, Unmasked, MaskedPCs, Yield
    <2>2. ASSUME NEW d \in Cpus, in_irq'[d] PROVE Unmasked(current[d])'
      BY <1>1, <1>2, <1>4, <2>2, HomeAssumption
      DEF IInv, TypeOK, SavedInv, CpuInv, Active, AtRest, RestPCs, Unmasked, MaskedPCs, Yield
    <2> QED
      BY <2>1, <2>2 DEF SavedInv
  <1>6. enabled'[c] <=> Unmasked(Active(c))'
    BY <1>1, <1>2, <1>4 DEF IInv, TypeOK, SavedInv, CpuInv, Active, AtRest, Unmasked, MaskedPCs, RestPCs, Yield
  <1>7. /\ UNCHANGED <<lockVars, depth, was, ctxVars>>
        /\ \A d \in Cpus : d # c => /\ enabled'[d] = enabled[d]
                                    /\ in_irq'[d] = in_irq[d]
                                    /\ current'[d] = current[d]
        /\ \A u \in Threads : in_svc'[u] # in_svc[u] => u = current[c] /\ pc[u] = "out"
    BY DEF IInv, TypeOK, AtRest, Yield
  <1> QED
    BY <1>1, <1>3, <1>4, <1>5, <1>6, <1>7, SwitchStep

\* Entering a system call masks interrupts.
LEMMA SvcEnterStep ==
    ASSUME IInv, NEW c \in Cpus, SvcEnter(c)
    PROVE  IInv'
  <1> USE DEF lockVars, ctxVars
  <1>1. PICK x \in Contexts : x = Active(c)
    BY ActiveType DEF IInv
  <1>2. /\ current[c] \in Threads /\ c \notin Threads /\ current[c] \notin Cpus
        /\ CpuInv(c, x)
    BY <1>1, CpusThreadsAssumption DEF IInv, TypeOK, ActiveInv
  <1>3. TypeOK'
    BY <1>2 DEF IInv, TypeOK, SvcEnter
  <1>4. held[x] = {} /\ pc[x] \in RestPCs /\ (x \in Cpus => pc[x] = "out")
    BY <1>1, <1>2 DEF IInv, TypeOK, NoPanic, CpuInv, Active, AtRest, RestPCs, MaskedPCs,
       PCs, AcquirePCs, ReleasePCs, PushPCs, SvcEnter
  <1>5. SavedInv'
    <2>1. ASSUME NEW u \in Threads, (u # current[Home[u]])' PROVE (saved[u] <=> Unmasked(u))'
      BY <1>1, <1>2, <1>4, <2>1, HomeAssumption
      DEF IInv, TypeOK, SavedInv, CpuInv, Active, AtRest, Unmasked, MaskedPCs, SvcEnter
    <2>2. ASSUME NEW d \in Cpus, in_irq'[d] PROVE Unmasked(current[d])'
      BY <1>1, <1>2, <1>4, <2>2, HomeAssumption
      DEF IInv, TypeOK, SavedInv, CpuInv, Active, AtRest, RestPCs, Unmasked, MaskedPCs, SvcEnter
    <2> QED
      BY <2>1, <2>2 DEF SavedInv
  <1>6. enabled'[c] <=> Unmasked(Active(c))'
    BY <1>1, <1>2, <1>4 DEF IInv, TypeOK, SavedInv, CpuInv, Active, AtRest, Unmasked, MaskedPCs, RestPCs, SvcEnter
  <1>7. /\ UNCHANGED <<lockVars, depth, was, ctxVars>>
        /\ \A d \in Cpus : d # c => /\ enabled'[d] = enabled[d]
                                    /\ in_irq'[d] = in_irq[d]
                                    /\ current'[d] = current[d]
        /\ \A u \in Threads : in_svc'[u] # in_svc[u] => u = current[c] /\ pc[u] = "out"
    BY DEF IInv, TypeOK, AtRest, SvcEnter
  <1> QED
    BY <1>1, <1>3, <1>4, <1>5, <1>6, <1>7, SwitchStep

\* Leaving a system call restores them.
LEMMA SvcReturnStep ==
    ASSUME IInv, NEW c \in Cpus, SvcReturn(c)
    PROVE  IInv'
  <1> USE DEF lockVars, ctxVars
  <1>1. PICK x \in Contexts : x = Active(c)
    BY ActiveType DEF IInv
  <1>2. /\ current[c] \in Threads /\ c \notin Threads /\ current[c] \notin Cpus
        /\ CpuInv(c, x)
    BY <1>1, CpusThreadsAssumption DEF IInv, TypeOK, ActiveInv
  <1>3. TypeOK'
    BY <1>2 DEF IInv, TypeOK, SvcReturn
  <1>4. held[x] = {} /\ pc[x] \in RestPCs /\ (x \in Cpus => pc[x] = "out")
    BY <1>1, <1>2 DEF IInv, TypeOK, NoPanic, CpuInv, Active, AtRest, RestPCs, MaskedPCs,
       PCs, AcquirePCs, ReleasePCs, PushPCs, SvcReturn
  <1>5. SavedInv'
    <2>1. ASSUME NEW u \in Threads, (u # current[Home[u]])' PROVE (saved[u] <=> Unmasked(u))'
      BY <1>1, <1>2, <1>4, <2>1, HomeAssumption
      DEF IInv, TypeOK, SavedInv, CpuInv, Active, AtRest, Unmasked, MaskedPCs, SvcReturn
    <2>2. ASSUME NEW d \in Cpus, in_irq'[d] PROVE Unmasked(current[d])'
      BY <1>1, <1>2, <1>4, <2>2, HomeAssumption
      DEF IInv, TypeOK, SavedInv, CpuInv, Active, AtRest, RestPCs, Unmasked, MaskedPCs, SvcReturn
    <2> QED
      BY <2>1, <2>2 DEF SavedInv
  <1>6. enabled'[c] <=> Unmasked(Active(c))'
    BY <1>1, <1>2, <1>4 DEF IInv, TypeOK, SavedInv, CpuInv, Active, AtRest, Unmasked, MaskedPCs, RestPCs, SvcReturn
  <1>7. /\ UNCHANGED <<lockVars, depth, was, ctxVars>>
        /\ \A d \in Cpus : d # c => /\ enabled'[d] = enabled[d]
                                    /\ in_irq'[d] = in_irq[d]
                                    /\ current'[d] = current[d]
        /\ \A u \in Threads : in_svc'[u] # in_svc[u] => u = current[c] /\ pc[u] = "out"
    BY DEF IInv, TypeOK, AtRest, SvcReturn
  <1> QED
    BY <1>1, <1>3, <1>4, <1>5, <1>6, <1>7, SwitchStep

-----------------------------------------------------------------------------
(* The invariant is inductive, and the properties follow from it.          *)

\* Every step of the specification preserves the invariant.
LEMMA NextIInv == IInv /\ [Next]_vars => IInv'
  <1> SUFFICES ASSUME IInv, [Next]_vars PROVE IInv'
    OBVIOUS
  <1>1. CASE UNCHANGED vars
    BY <1>1 DEF vars, lockVars, irqVars, cpuVars, ctxVars, IInv, TypeOK, NoPanic,
       ArgInv, RestInv, Suspended, SavedInv, ActiveInv, CpuInv, LockInv, Owns, Active, Unmasked
  <1>2. ASSUME NEW c \in Cpus, NEW l \in Locks, BeginAcquire(c, l) \/ BeginRelease(c, l)
        PROVE  IInv'
    BY <1>2, BeginAcquireStep, BeginReleaseStep
  <1>3. ASSUME NEW c \in Cpus, LockStep(c) PROVE IInv'
    BY <1>3, PushReadStep, PushMaskStep, PushCountStep, CheckLockedStep, CheckCpuStep,
       ExchangeStep, SetCpuStep, CheckHoldingStep, ClearCpuStep, UnlockStep, PopStep
    DEF LockStep
  <1>4. ASSUME NEW c \in Cpus, TakeIrq(c) \/ IrqReturn(c) \/ SvcEnter(c) \/ SvcReturn(c)
        PROVE  IInv'
    BY <1>4, TakeIrqStep, IrqReturnStep, SvcEnterStep, SvcReturnStep
  <1>5. ASSUME NEW c \in Cpus, NEW t \in Threads, Preempt(c, t) \/ Yield(c, t)
        PROVE  IInv'
    BY <1>5, PreemptStep, YieldStep
  <1> QED
    BY <1>1, <1>2, <1>3, <1>4, <1>5 DEF Next

\* The inductive invariant holds in every reachable state.
THEOREM InvariantHolds == Spec => []IInv
  BY InitIInv, NextIInv, PTL DEF Spec

\* For any number of CPUs, threads and locks, the state of the locks and of
\* the interrupt masking code stays well typed.
THEOREM TypeCorrect == Spec => []TypeOK
  <1>1. IInv => TypeOK
    BY DEF IInv
  <1> QED
    BY <1>1, InvariantHolds, PTL

\* spinlock_acquire and spinlock_release give mutual exclusion between all
\* threads and interrupt handlers of all CPUs.
THEOREM LockIsExclusive == Spec => []MutualExclusion
  <1>1. IInv => MutualExclusion
    BY DEF IInv, TypeOK, LockInv, Owns, MutualExclusion
  <1> QED
    BY <1>1, InvariantHolds, PTL

\* The panics of spinlock_acquire, spinlock_release and irq_pop_intr are
\* unreachable for callers that pair their calls.
THEOREM NeverPanics == Spec => []NoPanic
  <1>1. IInv => NoPanic
    BY DEF IInv, NoPanic
  <1> QED
    BY <1>1, InvariantHolds, PTL

\* The holder of a spin lock is never interrupted or switched out.
THEOREM HolderIsRunning == Spec => []HolderRuns
  <1>1. IInv => HolderRuns
    BY CpuOfType DEF IInv, RestInv, Suspended, ActiveInv, CpuInv, HolderRuns
  <1> QED
    BY <1>1, InvariantHolds, PTL

\* Leaving the outermost critical section restores the interrupt state.
THEOREM IrqStateIsRestored == Spec => []IrqStateRestored
  <1>1. IInv => IrqStateRestored
    BY DEF IInv, ActiveInv, CpuInv, IrqStateRestored, AtRest, MaskedPCs, Unmasked
  <1> QED
    BY <1>1, InvariantHolds, PTL

=============================================================================
