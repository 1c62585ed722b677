--------------------------- MODULE ProcessProofs ----------------------------
(***************************************************************************)
(* Processes, for every number of CPUs, threads and processes, whoever     *)
(* forks and whatever fails: a thread that may still run has its process   *)
(* and its address space, and while every process has one thread, somebody *)
(* takes care of each child, and no two do.  On one CPU, where only the    *)
(* root forks, nothing fails either.                                       *)
(***************************************************************************)
EXTENDS ProcessLife, SequenceTheorems, FiniteSetTheorems, WellFoundedInduction, TLAPS

\* The points of a system call at which its local variable is a process.
Holding == {"fork_add", "fork_parent", "wait_look", "wait_remove", "wait_copy", "wait_destroy"}

ExitPoints == {"exit_state", "exit_parent", "exit_dequeue", "exit_ready", "exit_flag", "exit_dead",
               "exit_yield", "gone"}
WaitPoints == {"wait_scan", "wait_look", "wait_remove", "wait_copy", "wait_destroy", "wait_enqueue", "block", "block_switch"}

\* The points of the code of a thread, and of the idle and cleanup tasks.
ThreadPoints == {"user", "fork_add", "fork_parent"} \cup ExitPoints \cup WaitPoints
ReapPoints == {"remove", "detach", "space", "space_free", "space_null", "destroy"}
ServantPoints == {"idle", "find", "clear", "rest"} \cup ReapPoints

Live(t) == state[t] \in {"READY", "RUNNING", "BLOCKED"}

\* Variables whose values the properties do not mention.
Types ==
    /\ TypeOK
    /\ children \in [Procs -> Seq(Procs)]
    /\ runnable \in [Cpus -> Seq(Tasks)]
    /\ sleeping = [c \in Cpus |-> <<>>]
    /\ current \in [Cpus -> AllTasks \cup {Null}]
    /\ needs_cleanup \in [Cpus -> BOOLEAN]
    /\ next \in [Cpus -> AllTasks \cup {Null}]
    /\ left \in [Cpus -> AllTasks \cup {Null}]
    /\ cpu \in [Cpus -> CpuPoints]
    /\ pc \in [AllTasks -> ThreadPoints \cup ServantPoints]
    /\ \A t \in Tasks : pc[t] \in ThreadPoints
    /\ exiting \subseteq Tasks
    /\ tasks \in Seq(Tasks)
    /\ dead \in [Cpus -> Tasks \cup {Null}]
    /\ waiters \in [Procs -> Seq(Tasks)]
    /\ blocked \in [Tasks -> Tasks \cup {Null}]

\* A CPU executes a thread of its own, which runs unless it is about to leave.
CpuOK(c) ==
    /\ current[c] # Null => Home[current[c]] = c
    /\ current[c] \in Tasks /\ cpu[c] = "run" =>
        \/ state[current[c]] = "RUNNING"
        \/ state[current[c]] = "DEAD" /\ pc[current[c]] = "exit_yield"
        \/ state[current[c]] \in {"BLOCKED", "READY"} /\ pc[current[c]] = "block_switch"
    /\ current[c] \in Tasks /\ cpu[c] = "ctx" => state[current[c]] = "RUNNING"
    /\ cpu[c] \in {"check", "commit"} =>
        /\ next[c] # Null /\ Home[next[c]] = c
        /\ next[c] \in Tasks => state[next[c]] # "NONE"

QueueOK(c) == \A t \in ToSet(runnable[c]) : Home[t] = c /\ state[t] # "NONE"

\* What the cleanup task of a CPU has found is dead.
CleanupOK(c) ==
    pc[Cleanup[c]] \in ReapPoints => dead[c] \in Tasks /\ state[dead[c]] = "DEAD"

\* A thread belongs to a process from its creation on, and while it is alive
\* the process counts it and has an address space.
ThreadOK(t) ==
    /\ state[t] = "NONE" <=> process[t] = Null
    /\ state[t] = "NONE" => pc[t] = "user"
    /\ process[t] \in Procs => pstate[process[t]] # "NONE"
    /\ Live(t) =>
        /\ t \in threads[process[t]]
        /\ process[t] \in space
        /\ pstate[process[t]] \in {"RUNNING", "ZOMBIE"}
    /\ pc[t] \in {"exit_dequeue", "exit_ready"} => parent[process[t]] \in Procs
    /\ pc[t] = "exit_ready" => blocked[t] \in Tasks

\* The process whose address space a cleanup task will destroy has no threads.
EmptyOK(c) == pc[Cleanup[c]] = "space_free" => threads[process[dead[c]]] = {}

\* A process that a call works on, or that is in a list, was created.
HolderOK(t) == pc[t] \in Holding => child[t] \in Procs /\ pstate[child[t]] # "NONE"

Placement == \A c \in Cpus : CpuOK(c) /\ QueueOK(c) /\ CleanupOK(c)
Threads == \A t \in Tasks : ThreadOK(t)
Emptied == \A c \in Cpus : EmptyOK(c)
Known ==
    /\ pstate[Root] # "NONE"
    /\ \A p \in Procs : \A q \in ToSet(children[p]) : pstate[q] # "NONE"
    /\ \A t \in Tasks : HolderOK(t)

\* The inductive invariant.
IInv == Types /\ Placement /\ Threads /\ Emptied /\ Known

-----------------------------------------------------------------------------
(* Queues and lists of children are sequences without repetition.         *)

LEMMA EmptyQueue ==
    /\ \A x : x \notin ToSet(<<>>)
    /\ IsInjective(<<>>)
  BY DEF ToSet, IsInjective

(* What an enqueue leaves in a queue.                                      *)
LEMMA AppendQueue ==
    ASSUME NEW S, NEW s \in Seq(S), NEW e \in S
    PROVE  /\ Append(s, e) \in Seq(S)
           /\ Append(s, e) # <<>>
           /\ \A x : x \in ToSet(Append(s, e)) <=> x \in ToSet(s) \/ x = e
           /\ IsInjective(s) /\ e \notin ToSet(s) => IsInjective(Append(s, e))
  <1> DEFINE a == Append(s, e)
             n == Len(s)
  <1>1. /\ a \in Seq(S) /\ a # <<>> /\ Len(a) = n + 1 /\ n \in Nat
        /\ \A i \in 1..n : a[i] = s[i]
        /\ a[n + 1] = e
    BY AppendProperties, LenProperties
  <1>2. DOMAIN a = 1..(n + 1) /\ DOMAIN s = 1..n
    BY <1>1, LenProperties
  <1> HIDE DEF a, n
  <1>3. ASSUME NEW x PROVE x \in ToSet(a) <=> x \in ToSet(s) \/ x = e
    <2>1. ASSUME x \in ToSet(a) PROVE x \in ToSet(s) \/ x = e
      <3>1. PICK i \in 1..(n + 1) : x = a[i]
        BY <2>1, <1>2 DEF ToSet
      <3>2. CASE i = n + 1
        BY <3>1, <3>2, <1>1
      <3>3. CASE i \in 1..n
        BY <3>1, <3>3, <1>1, <1>2 DEF ToSet
      <3>4. QED
        BY <3>1, <3>2, <3>3, <1>1
    <2>2. ASSUME x \in ToSet(s) PROVE x \in ToSet(a)
      <3>1. PICK i \in 1..n : x = s[i]
        BY <2>2, <1>2 DEF ToSet
      <3>2. i \in DOMAIN a /\ a[i] = x
        BY <3>1, <1>1, <1>2
      <3>3. QED
        BY <3>2 DEF ToSet
    <2>3. ASSUME x = e PROVE x \in ToSet(a)
      <3>1. n + 1 \in DOMAIN a /\ a[n + 1] = x
        BY <2>3, <1>1, <1>2
      <3>2. QED
        BY <3>1 DEF ToSet
    <2>4. QED
      BY <2>1, <2>2, <2>3
  <1>4. ASSUME IsInjective(s), e \notin ToSet(s) PROVE IsInjective(a)
    <2>1. \A i \in 1..n : s[i] # e
      BY <1>4, <1>2 DEF ToSet
    <2>2. \A i, j \in 1..n : s[i] = s[j] => i = j
      BY <1>4, <1>2 DEF IsInjective
    <2>3. \A i, j \in 1..(n + 1) : a[i] = a[j] => i = j
      BY <2>1, <2>2, <1>1
    <2>4. QED
      BY <2>3, <1>2 DEF IsInjective
  <1>5. QED
    BY <1>1, <1>3, <1>4 DEF a

(* What a dequeue takes out of a queue.                                    *)
LEMMA TailQueue ==
    ASSUME NEW S, NEW s \in Seq(S), s # <<>>
    PROVE  /\ Tail(s) \in Seq(S) /\ Head(s) \in S
           /\ Head(s) \in ToSet(s)
           /\ IsInjective(s) =>
                /\ IsInjective(Tail(s))
                /\ \A x : x \in ToSet(Tail(s)) <=> x \in ToSet(s) /\ x # Head(s)
  <1> DEFINE r == Tail(s)
             n == Len(s)
  <1>1. /\ r \in Seq(S) /\ Head(s) \in S /\ n \in Nat \ {0}
        /\ Len(r) = n - 1
        /\ \A i \in 1..(n - 1) : r[i] = s[i + 1]
    BY HeadTailProperties, EmptySeq
  <1>2. DOMAIN r = 1..(n - 1) /\ DOMAIN s = 1..n
    BY <1>1, LenProperties
  <1>3. Head(s) = s[1]
    OBVIOUS
  <1> HIDE DEF r, n
  <1>4. Head(s) \in ToSet(s)
    BY <1>1, <1>2, <1>3 DEF ToSet
  <1>5. ASSUME IsInjective(s)
        PROVE  IsInjective(r) /\ \A x : x \in ToSet(r) <=> x \in ToSet(s) /\ x # Head(s)
    <2>1. \A i, j \in 1..n : s[i] = s[j] => i = j
      BY <1>5, <1>2 DEF IsInjective
    <2>2. \A i, j \in 1..(n - 1) : r[i] = r[j] => i = j
      BY <2>1, <1>1
    <2>3. IsInjective(r)
      BY <2>2, <1>2 DEF IsInjective
    <2>4. ASSUME NEW x, x \in ToSet(r) PROVE x \in ToSet(s) /\ x # Head(s)
      <3>1. PICK i \in 1..(n - 1) : x = r[i]
        BY <2>4, <1>2 DEF ToSet
      <3>2. i + 1 \in 1..n /\ i + 1 # 1 /\ 1 \in 1..n /\ x = s[i + 1]
        BY <3>1, <1>1
      <3>3. QED
        BY <3>2, <2>1, <1>2, <1>3 DEF ToSet
    <2>5. ASSUME NEW x, x \in ToSet(s), x # Head(s) PROVE x \in ToSet(r)
      <3>1. PICK i \in 1..n : x = s[i]
        BY <2>5, <1>2 DEF ToSet
      <3>2. i - 1 \in 1..(n - 1) /\ (i - 1) + 1 = i
        BY <3>1, <2>5, <1>1, <1>3
      <3>3. r[i - 1] = x
        BY <3>1, <3>2, <1>1
      <3>4. QED
        BY <3>2, <3>3, <1>2 DEF ToSet
    <2>6. QED
      BY <2>3, <2>4, <2>5
  <1>6. QED
    BY <1>1, <1>4, <1>5 DEF r

(* What is left after a dequeue was there before.                          *)
LEMMA TailMembers ==
    ASSUME NEW S, NEW s \in Seq(S), s # <<>>
    PROVE  \A x \in ToSet(Tail(s)) : x \in ToSet(s)
  <1> DEFINE r == Tail(s)
             n == Len(s)
  <1>1. /\ r \in Seq(S) /\ n \in Nat \ {0} /\ Len(r) = n - 1
        /\ \A i \in 1..(n - 1) : r[i] = s[i + 1]
    BY HeadTailProperties, EmptySeq
  <1>2. DOMAIN r = 1..(n - 1) /\ DOMAIN s = 1..n
    BY <1>1, LenProperties
  <1> HIDE DEF r, n
  <1>3. ASSUME NEW x \in ToSet(r) PROVE x \in ToSet(s)
    <2>1. PICK i \in 1..(n - 1) : x = r[i]
      BY <1>2 DEF ToSet
    <2>2. i + 1 \in DOMAIN s /\ x = s[i + 1]
      BY <2>1, <1>1, <1>2
    <2>3. QED
      BY <2>2 DEF ToSet
  <1>4. QED
    BY <1>3 DEF r

(* What two queues make when one is put behind the other.                  *)
LEMMA JoinedQueue ==
    ASSUME NEW S, NEW s \in Seq(S), NEW r \in Seq(S)
    PROVE  /\ s \o r \in Seq(S)
           /\ \A x : x \in ToSet(s \o r) <=> x \in ToSet(s) \/ x \in ToSet(r)
           /\ IsInjective(s) /\ IsInjective(r) /\ ToSet(s) \cap ToSet(r) = {}
                => IsInjective(s \o r)
  <1> DEFINE q == s \o r
             m == Len(s)
             n == Len(r)
  <1>1. /\ q \in Seq(S) /\ m \in Nat /\ n \in Nat /\ Len(q) = m + n
        /\ \A i \in 1..m : q[i] = s[i]
        /\ \A i \in 1..n : q[m + i] = r[i]
    BY LenProperties, ConcatProperties
  <1>2. DOMAIN q = 1..(m + n) /\ DOMAIN s = 1..m /\ DOMAIN r = 1..n
    BY <1>1, LenProperties
  <1> HIDE DEF q, m, n
  <1>3. \A k \in 1..(m + n) : k \in 1..m \/ \E i \in 1..n : k = m + i
    <2> SUFFICES ASSUME NEW k \in 1..(m + n), k \notin 1..m
                 PROVE  \E i \in 1..n : k = m + i
      OBVIOUS
    <2>1. k - m \in 1..n /\ k = m + (k - m)
      BY <1>1
    <2>2. QED
      BY <2>1
  <1>4. ASSUME NEW x PROVE x \in ToSet(q) <=> x \in ToSet(s) \/ x \in ToSet(r)
    <2>1. ASSUME x \in ToSet(q) PROVE x \in ToSet(s) \/ x \in ToSet(r)
      <3>1. PICK k \in 1..(m + n) : x = q[k]
        BY <2>1, <1>2 DEF ToSet
      <3>2. CASE k \in 1..m
        BY <3>1, <3>2, <1>1, <1>2 DEF ToSet
      <3>3. CASE \E i \in 1..n : k = m + i
        BY <3>1, <3>3, <1>1, <1>2 DEF ToSet
      <3>4. QED
        BY <3>2, <3>3, <1>3
    <2>2. ASSUME x \in ToSet(s) PROVE x \in ToSet(q)
      <3>1. PICK i \in 1..m : x = s[i]
        BY <2>2, <1>2 DEF ToSet
      <3>2. i \in DOMAIN q /\ q[i] = x
        BY <3>1, <1>1, <1>2
      <3>3. QED
        BY <3>2 DEF ToSet
    <2>3. ASSUME x \in ToSet(r) PROVE x \in ToSet(q)
      <3>1. PICK i \in 1..n : x = r[i]
        BY <2>3, <1>2 DEF ToSet
      <3>2. m + i \in DOMAIN q /\ q[m + i] = x
        BY <3>1, <1>1, <1>2
      <3>3. QED
        BY <3>2 DEF ToSet
    <2>4. QED
      BY <2>1, <2>2, <2>3
  <1>5. ASSUME IsInjective(s), IsInjective(r), ToSet(s) \cap ToSet(r) = {}
        PROVE  IsInjective(q)
    <2>1. \A i \in 1..m, j \in 1..n : s[i] # r[j]
      BY <1>5, <1>2 DEF ToSet
    <2>2. \A i, j \in 1..m : s[i] = s[j] => i = j
      BY <1>5, <1>2 DEF IsInjective
    <2>3. \A i, j \in 1..n : r[i] = r[j] => i = j
      BY <1>5, <1>2 DEF IsInjective
    <2>4. ASSUME NEW k \in 1..(m + n), NEW l \in 1..(m + n), q[k] = q[l] PROVE k = l
      <3>1. CASE k \in 1..m /\ l \in 1..m
        BY <2>4, <3>1, <2>2, <1>1
      <3>2. CASE k \in 1..m /\ \E i \in 1..n : l = m + i
        <4>1. PICK i \in 1..n : l = m + i
          BY <3>2
        <4>2. q[k] = s[k] /\ q[l] = r[i] /\ s[k] # r[i]
          BY <3>2, <4>1, <2>1, <1>1
        <4>3. QED
          BY <2>4, <4>2
      <3>3. CASE l \in 1..m /\ \E i \in 1..n : k = m + i
        <4>1. PICK i \in 1..n : k = m + i
          BY <3>3
        <4>2. q[l] = s[l] /\ q[k] = r[i] /\ s[l] # r[i]
          BY <3>3, <4>1, <2>1, <1>1
        <4>3. QED
          BY <2>4, <4>2
      <3>4. CASE (\E i \in 1..n : k = m + i) /\ (\E i \in 1..n : l = m + i)
        <4>1. PICK i \in 1..n : k = m + i
          BY <3>4
        <4>2. PICK j \in 1..n : l = m + j
          BY <3>4
        <4>3. r[i] = r[j]
          BY <2>4, <4>1, <4>2, <1>1
        <4>4. QED
          BY <4>1, <4>2, <4>3, <2>3
      <3>5. QED
        BY <3>1, <3>2, <3>3, <3>4, <1>3
    <2>5. QED
      BY <2>4, <1>2 DEF IsInjective
  <1>6. QED
    BY <1>1, <1>4, <1>5 DEF q

(* The elements of a part of a queue, from a to b.                         *)
LEMMA PartAt ==
    ASSUME NEW S, NEW s \in Seq(S), NEW a \in Nat \ {0}, NEW b \in Nat,
           b <= Len(s), a <= b + 1
    PROVE  /\ SubSeq(s, a, b) \in Seq(S)
           /\ Len(SubSeq(s, a, b)) = b - a + 1
           /\ \A i \in 1..(b - a + 1) : SubSeq(s, a, b)[i] = s[a + i - 1]
  OBVIOUS

(* A part of a queue, from a to b, as a set, and its distinctness.         *)
LEMMA PartOfQueue ==
    ASSUME NEW S, NEW s \in Seq(S), NEW a \in Nat \ {0}, NEW b \in Nat,
           b <= Len(s), a <= b + 1
    PROVE  /\ SubSeq(s, a, b) \in Seq(S)
           /\ Len(SubSeq(s, a, b)) = b - a + 1
           /\ \A i \in 1..(b - a + 1) : SubSeq(s, a, b)[i] = s[a + i - 1]
           /\ \A x : x \in ToSet(SubSeq(s, a, b)) <=> \E k \in a..b : x = s[k]
           /\ IsInjective(s) => IsInjective(SubSeq(s, a, b))
  <1> DEFINE r == SubSeq(s, a, b)
             n == Len(s)
  <1>1. n \in Nat /\ DOMAIN s = 1..n /\ \A i \in 1..n : s[i] \in S
    BY LenProperties, ElementOfSeq
  <1>2. r = [i \in 1..(b - a + 1) |-> s[a + i - 1]]
    OBVIOUS
  <1>3. DOMAIN r = 1..(b - a + 1) /\ b - a + 1 \in Nat
    BY <1>2
  <1>4. \A i \in 1..(b - a + 1) : r[i] = s[a + i - 1]
    BY <1>2
  <1>5. r \in Seq(S) /\ Len(r) = b - a + 1
    <2>1. \A i \in 1..(b - a + 1) : a + i - 1 \in 1..n
      BY <1>1
    <2>2. r \in [1..(b - a + 1) -> S]
      BY <1>1, <1>2, <2>1
    <2>3. QED
      BY <2>2, <1>3, SeqDef, LenProperties
  <1> HIDE DEF r
  <1>6. ASSUME NEW x PROVE x \in ToSet(r) <=> \E k \in a..b : x = s[k]
    <2>1. ASSUME x \in ToSet(r) PROVE \E k \in a..b : x = s[k]
      <3>1. PICK i \in 1..(b - a + 1) : x = r[i]
        BY <2>1, <1>3 DEF ToSet
      <3>2. a + i - 1 \in a..b /\ x = s[a + i - 1]
        BY <3>1, <1>4
      <3>3. QED
        BY <3>2
    <2>2. ASSUME NEW k \in a..b, x = s[k] PROVE x \in ToSet(r)
      <3>1. k - a + 1 \in 1..(b - a + 1) /\ a + (k - a + 1) - 1 = k
        OBVIOUS
      <3>2. k - a + 1 \in DOMAIN r /\ r[k - a + 1] = x
        BY <2>2, <3>1, <1>3, <1>4
      <3>3. QED
        BY <3>2 DEF ToSet
    <2>3. QED
      BY <2>1, <2>2
  <1>7. ASSUME IsInjective(s) PROVE IsInjective(r)
    <2>1. \A i, j \in 1..n : s[i] = s[j] => i = j
      BY <1>7, <1>1 DEF IsInjective
    <2>2. ASSUME NEW i \in 1..(b - a + 1), NEW j \in 1..(b - a + 1), r[i] = r[j] PROVE i = j
      <3>1. a + i - 1 \in 1..n /\ a + j - 1 \in 1..n /\ s[a + i - 1] = s[a + j - 1]
        BY <2>2, <1>1, <1>4
      <3>2. a + i - 1 = a + j - 1
        BY <3>1, <2>1
      <3>3. QED
        BY <3>2
    <2>3. QED
      BY <2>2, <1>3 DEF IsInjective
  <1>8. QED
    BY <1>4, <1>5, <1>6, <1>7 DEF r

(* The first of some places in a queue.                                    *)
LEMMA FirstPlace ==
    ASSUME NEW I, I \subseteq Nat, I # {}
    PROVE  Min(I) \in I /\ \A j \in I : Min(I) <= j
  <1>1. \E n \in I : \A k \in I : ~ (<<k, n>> \in OpToRel(<, Nat))
    BY NatLessThanWellFounded, WFMin
  <1>2. ASSUME NEW k \in Nat, NEW n \in Nat, k < n
        PROVE  <<k, n>> \in OpToRel(<, Nat)
    BY <1>2, Zenon DEF OpToRel
  <1>3. \E n \in I : \A k \in I : ~ (k < n)
    BY <1>1, <1>2
  <1>4. \E n \in I : \A k \in I : n <= k
    BY <1>3
  <1>5. QED
    BY <1>4 DEF Min

(* intrusivelist_remove of the node at place k.                            *)
LEMMA RemovedAt ==
    ASSUME NEW S, NEW s \in Seq(S), IsInjective(s), NEW k \in 1..Len(s)
    PROVE  /\ RemoveAt(s, k) \in Seq(S)
           /\ IsInjective(RemoveAt(s, k))
           /\ \A x : x \in ToSet(RemoveAt(s, k)) <=> x \in ToSet(s) /\ x # s[k]
  <1> DEFINE n == Len(s)
             a == SubSeq(s, 1, k - 1)
             b == SubSeq(s, k + 1, n)
  <1>1. n \in Nat /\ DOMAIN s = 1..n
    BY LenProperties
  <1>2. k \in 1..n
    OBVIOUS
  <1>4. RemoveAt(s, k) = a \o b
    BY DEF RemoveAt
  <1> HIDE DEF n
  <1>5. \A i, j \in 1..n : s[i] = s[j] => i = j
    BY <1>1 DEF IsInjective
  <1>6. /\ a \in Seq(S) /\ IsInjective(a)
        /\ \A x : x \in ToSet(a) <=> \E i \in 1..(k - 1) : x = s[i]
    <2>1. 1 \in Nat \ {0} /\ k - 1 \in Nat /\ k - 1 <= Len(s) /\ 1 <= (k - 1) + 1
      BY <1>1, <1>2 DEF n
    <2>2. QED
      BY ONLY <2>1, s \in Seq(S), IsInjective(s), PartOfQueue
  <1>7. /\ b \in Seq(S) /\ IsInjective(b)
        /\ \A x : x \in ToSet(b) <=> \E i \in (k + 1)..n : x = s[i]
    <2>1. k + 1 \in Nat \ {0} /\ n \in Nat /\ n <= Len(s) /\ k + 1 <= n + 1
      BY <1>1, <1>2 DEF n
    <2>2. QED
      BY ONLY <2>1, s \in Seq(S), IsInjective(s), PartOfQueue
  <1> HIDE DEF a, b
  <1>8. ToSet(a) \cap ToSet(b) = {}
    <2> SUFFICES ASSUME NEW x, x \in ToSet(a), x \in ToSet(b) PROVE FALSE
      OBVIOUS
    <2>1. PICK i \in 1..(k - 1) : x = s[i]
      BY <1>6
    <2>2. PICK j \in (k + 1)..n : x = s[j]
      BY <1>7
    <2>3. i \in 1..n /\ j \in 1..n /\ i # j
      BY <1>1, <1>2
    <2>4. QED
      BY <2>1, <2>2, <2>3, <1>5
  <1>9. /\ a \o b \in Seq(S) /\ IsInjective(a \o b)
        /\ \A x : x \in ToSet(a \o b) <=> x \in ToSet(a) \/ x \in ToSet(b)
    BY <1>6, <1>7, <1>8, JoinedQueue
  <1>10. \A x : x \in ToSet(s) <=> \E i \in 1..n : x = s[i]
    BY <1>1 DEF ToSet
  <1>11. ASSUME NEW x PROVE x \in ToSet(a \o b) <=> x \in ToSet(s) /\ x # s[k]
    <2>1. \A i \in 1..n : i \in 1..(k - 1) \/ i = k \/ i \in (k + 1)..n
      BY <1>1, <1>2
    <2>2. \A i \in 1..(k - 1) : i \in 1..n /\ i # k
      BY <1>1, <1>2
    <2>3. \A i \in (k + 1)..n : i \in 1..n /\ i # k
      BY <1>1, <1>2
    <2>4. QED
      BY <2>1, <2>2, <2>3, <1>2, <1>5, <1>6, <1>7, <1>9, <1>10
  <1>12. QED
    BY <1>4, <1>9, <1>11

(* intrusivelist_remove of the node of e.                                  *)
LEMMA UnlinkedQueue ==
    ASSUME NEW S, NEW s \in Seq(S), NEW e, IsInjective(s), e \in ToSet(s)
    PROVE  /\ Unlink(s, e) \in Seq(S)
           /\ IsInjective(Unlink(s, e))
           /\ \A x : x \in ToSet(Unlink(s, e)) <=> x \in ToSet(s) /\ x # e
  <1>1. Len(s) \in Nat /\ DOMAIN s = 1..Len(s)
    BY LenProperties
  <1>2. PICK k : k = CHOOSE i \in DOMAIN s : s[i] = e
    OBVIOUS
  <1>3. k \in 1..Len(s) /\ s[k] = e
    BY <1>1, <1>2 DEF ToSet
  <1>4. Contains(s, e)
    BY <1>1, <1>3 DEF Contains
  <1>5. Unlink(s, e) = RemoveAt(s, k)
    BY <1>2, <1>4 DEF Unlink
  <1>6. QED
    BY <1>3, <1>5, RemovedAt

(* Whatever is unlinked, what is left was in the list.                     *)
LEMMA UnlinkType ==
    ASSUME NEW S, NEW s \in Seq(S), NEW e
    PROVE  Unlink(s, e) \in Seq(S) /\ ToSet(Unlink(s, e)) \subseteq ToSet(s)
  <1>1. CASE ~Contains(s, e)
    BY <1>1, EmptyQueue DEF Unlink
  <1>2. CASE Contains(s, e)
    <2>1. Len(s) \in Nat /\ DOMAIN s = 1..Len(s)
      BY LenProperties
    <2>2. PICK k : k = CHOOSE i \in DOMAIN s : s[i] = e
      OBVIOUS
    <2>3. k \in 1..Len(s)
      BY <1>2, <2>1, <2>2 DEF Contains
    <2>4. SubSeq(s, 1, k - 1) \in Seq(S) /\ \A x \in ToSet(SubSeq(s, 1, k - 1)) : x \in ToSet(s)
      <3>1. 1 \in Nat \ {0} /\ k - 1 \in Nat /\ k - 1 <= Len(s) /\ 1 <= (k - 1) + 1
        BY <2>1, <2>3
      <3>2. SubSeq(s, 1, k - 1) \in Seq(S) /\ \A x \in ToSet(SubSeq(s, 1, k - 1)) : \E i \in 1..(k - 1) : x = s[i]
        BY ONLY <3>1, s \in Seq(S), PartOfQueue
      <3>3. QED
        BY <2>1, <2>3, <3>2 DEF ToSet
    <2>5. SubSeq(s, k + 1, Len(s)) \in Seq(S) /\ \A x \in ToSet(SubSeq(s, k + 1, Len(s))) : x \in ToSet(s)
      <3>1. k + 1 \in Nat \ {0} /\ Len(s) \in Nat /\ Len(s) <= Len(s) /\ k + 1 <= Len(s) + 1
        BY <2>1, <2>3
      <3>2. /\ SubSeq(s, k + 1, Len(s)) \in Seq(S)
            /\ \A x \in ToSet(SubSeq(s, k + 1, Len(s))) : \E i \in (k + 1)..Len(s) : x = s[i]
        BY ONLY <3>1, s \in Seq(S), PartOfQueue
      <3>3. QED
        BY <2>1, <2>3, <3>2 DEF ToSet
    <2>6. Unlink(s, e) = SubSeq(s, 1, k - 1) \o SubSeq(s, k + 1, Len(s))
      BY <1>2, <2>2 DEF Unlink, RemoveAt
    <2>7. PICK a : a = SubSeq(s, 1, k - 1)
      OBVIOUS
    <2>8. PICK b : b = SubSeq(s, k + 1, Len(s))
      OBVIOUS
    <2>9. /\ a \in Seq(S) /\ \A x \in ToSet(a) : x \in ToSet(s)
          /\ b \in Seq(S) /\ \A x \in ToSet(b) : x \in ToSet(s)
          /\ Unlink(s, e) = a \o b
      BY ONLY <2>4, <2>5, <2>6, <2>7, <2>8
    <2>10. a \o b \in Seq(S) /\ \A x : x \in ToSet(a \o b) <=> x \in ToSet(a) \/ x \in ToSet(b)
      BY ONLY <2>9, JoinedQueue
    <2>11. QED
      BY ONLY <2>9, <2>10
  <1>3. QED
    BY <1>1, <1>2

(* Membership in a queue, as the model states it.                          *)
LEMMA ContainsIsMembership ==
    ASSUME NEW S, NEW s \in Seq(S), NEW e
    PROVE  Contains(s, e) <=> e \in ToSet(s)
  <1>1. DOMAIN s = 1..Len(s)
    BY LenProperties
  <1>2. QED
    BY <1>1 DEF Contains, ToSet

(* What the constants say of tasks and processes.                          *)
LEMMA Constants ==
    /\ Tasks \subseteq AllTasks /\ Null \notin AllTasks /\ Null \notin Tasks
    /\ \A c \in Cpus : /\ Idle[c] \in AllTasks /\ Idle[c] \notin Tasks /\ Home[Idle[c]] = c
                      /\ Cleanup[c] \in AllTasks /\ Cleanup[c] \notin Tasks /\ Home[Cleanup[c]] = c
    /\ \A c, d \in Cpus : Idle[c] # Cleanup[d]
    /\ \A c, d \in Cpus : Cleanup[c] = Cleanup[d] => c = d
    /\ \A t \in AllTasks : Home[t] \in Cpus
    /\ Root \in Procs /\ First \in Tasks /\ Null \notin Procs /\ Queues = Procs
  <1>1. \A c \in Cpus : /\ Idle[c] \in AllTasks /\ Idle[c] \in {Idle[c], Cleanup[c]}
                       /\ Cleanup[c] \in AllTasks /\ Cleanup[c] \in {Idle[c], Cleanup[c]}
    BY SchedAssumption
  <1>2. \A c \in Cpus : Idle[c] \notin Tasks /\ Cleanup[c] \notin Tasks
    BY <1>1, SchedAssumption
  <1>3. Tasks \subseteq AllTasks /\ Null \notin AllTasks
    BY SchedAssumption
  <1>4. \A c \in Cpus : Home[Idle[c]] = c /\ Home[Cleanup[c]] = c /\ Idle[c] # Cleanup[c]
    BY SchedAssumption
  <1>5. \A t \in AllTasks : Home[t] \in Cpus
    BY SchedAssumption
  <1>6. QED
    BY <1>1, <1>2, <1>3, <1>4, <1>5, ProcessAssumption

(* The members of a sequence of tasks are tasks.                           *)
LEMMA SeqMembers ==
    ASSUME NEW s \in Seq(Tasks)
    PROVE  ToSet(s) \subseteq Tasks /\ ToSet(s) \subseteq AllTasks
  <1>1. \A i \in DOMAIN s : s[i] \in Tasks
    BY LenProperties, ElementOfSeq
  <1>2. QED
    BY <1>1, Constants DEF ToSet

(* ... and those of a list of children are processes.                      *)
LEMMA ProcMembers ==
    ASSUME NEW f \in [Procs -> Seq(Procs)], NEW p \in Procs
    PROVE  ToSet(f[p]) \subseteq Procs
  <1>1. f[p] \in Seq(Procs)
    OBVIOUS
  <1>2. \A i \in DOMAIN f[p] : f[p][i] \in Procs
    BY <1>1, LenProperties, ElementOfSeq
  <1>3. QED
    BY <1>2 DEF ToSet

LEMMA QueueOfSet ==
    ASSUME NEW S, IsFiniteSet(S), NEW s \in SetToSeqs(S)
    PROVE  s \in Seq(S) /\ IsInjective(s)
  <1>1. PICK n \in Nat : n = Cardinality(S)
    BY FS_CardinalityType
  <1>2. s \in [1..n -> S] /\ \A i, j \in 1..n : i # j => s[i] # s[j]
    BY <1>1 DEF SetToSeqs
  <1>3. s \in Seq(S)
    BY <1>2, SeqDef
  <1>4. QED
    BY <1>2, <1>3 DEF IsInjective

-----------------------------------------------------------------------------
(* What a step has to leave alone.                                         *)

(* A thread is executed by one CPU at most, its own.                       *)
LEMMA OneCpu ==
    ASSUME Placement, NEW c \in Cpus, NEW d \in Cpus, current[c] # Null, current[c] = current[d]
    PROVE  c = d
  BY DEF Placement, CpuOK

(* Steps after which the lists and calls know no process that they, or the *)
(* creation of it, did not know before.                                    *)
LEMMA KnownFrame ==
    ASSUME Types, Known,
           \A p \in Procs : pstate[p] # "NONE" => pstate'[p] # "NONE",
           \A p \in Procs : \A q \in ToSet(children'[p]) :
              q \in ToSet(children[p]) \/ pstate'[q] # "NONE",
           \A t \in Tasks : pc'[t] \in Holding =>
              \/ pc[t] \in Holding /\ child'[t] = child[t]
              \/ child'[t] \in Procs /\ pstate'[child'[t]] # "NONE"
    PROVE  Known'
  <1>1. pstate'[Root] # "NONE"
    BY Constants DEF Known
  <1>2. \A p \in Procs : \A q \in ToSet(children[p]) : q \in Procs /\ pstate[q] # "NONE"
    BY ProcMembers DEF Types, Known
  <1>3. ASSUME NEW p \in Procs, NEW q \in ToSet(children'[p]) PROVE pstate'[q] # "NONE"
    BY <1>2
  <1>4. ASSUME NEW t \in Tasks PROVE HolderOK(t)'
    BY DEF Known, HolderOK
  <1>5. QED
    BY <1>1, <1>3, <1>4 DEF Known

(* Steps that leave the family alone, and the calls that work on it.       *)
LEMMA FamilyFrame ==
    ASSUME Types, Known, UNCHANGED <<children, child, pstate>>,
           \A t \in Tasks : pc'[t] = pc[t] \/ pc'[t] \notin Holding
    PROVE  Known'
  BY KnownFrame

(* No thread is counted that was not before.                               *)
LEMMA EmptyFrame ==
    ASSUME Types, Placement, Threads, Emptied,
           \A c \in Cpus : pc'[Cleanup[c]] = "space_free" =>
              pc[Cleanup[c]] = "space_free" /\ dead'[c] = dead[c],
           \A u \in Tasks : state[u] # "NONE" => process'[u] = process[u],
           \A p \in Procs : threads[p] = {} /\ pstate[p] # "NONE" => threads'[p] = {}
    PROVE  Emptied'
  <1> SUFFICES ASSUME NEW c \in Cpus, pc'[Cleanup[c]] = "space_free"
               PROVE  threads'[process'[dead'[c]]] = {}
    BY DEF Emptied, EmptyOK
  <1>1. pc[Cleanup[c]] = "space_free" /\ dead'[c] = dead[c] /\ threads[process[dead[c]]] = {}
    BY DEF Emptied, EmptyOK
  <1>2. dead[c] \in Tasks /\ state[dead[c]] = "DEAD"
    BY <1>1 DEF Placement, CleanupOK, ReapPoints
  <1>3. process[dead[c]] \in Procs /\ pstate[process[dead[c]]] # "NONE"
    BY <1>2 DEF Threads, ThreadOK, Types, TypeOK
  <1>4. QED
    BY <1>1, <1>2, <1>3

(* A thread whose process is left alone.                                   *)
LEMMA ThreadFrame ==
    ASSUME NEW t \in Tasks, ThreadOK(t),
           process'[t] = process[t], UNCHANGED <<threads, space, pstate, parent>>,
           state'[t] = "NONE" <=> state[t] = "NONE",
           Live(t)' => Live(t),
           \/ pc'[t] = pc[t] /\ (blocked'[t] = blocked[t] \/ pc[t] # "exit_ready")
           \/ state[t] # "NONE" /\ pc'[t] \notin {"exit_dequeue", "exit_ready"}
    PROVE  ThreadOK(t)'
  BY DEF ThreadOK, Live

(* A CPU whose task is left alone.                                         *)
LEMMA CpuFrame ==
    ASSUME NEW c \in Cpus, CpuOK(c), current'[c] = current[c],
           cpu'[c] \in {"run", "ctx"} => cpu'[c] = cpu[c] \/ cpu[c] = "ctx",
           cpu'[c] \in {"check", "commit"} =>
             cpu[c] \in {"check", "commit"} /\ next'[c] = next[c],
           next[c] \in Tasks /\ state[next[c]] # "NONE" => state'[next[c]] # "NONE",
           current[c] \in Tasks /\ cpu'[c] \in {"run", "ctx"} =>
             /\ pc'[current[c]] = pc[current[c]]
             /\ \/ state'[current[c]] = state[current[c]]
                \/ state[current[c]] = "BLOCKED" /\ state'[current[c]] = "READY"
                \/ state[current[c]] = "NONE"
    PROVE  CpuOK(c)'
  BY DEF CpuOK

(* A step of the code of a thread, on the CPU that executes it: other      *)
(* threads are created or woken at most.                                   *)
LEMMA CallPlacement ==
    ASSUME Types, Placement, NEW c \in Cpus, NEW t \in Tasks, Runs(c, t),
           UNCHANGED <<current, next, dead>>,
           \A d \in Cpus : QueueOK(d)',
           \A u \in AllTasks \ {t} : pc'[u] = pc[u],
           \A u \in Tasks : state[u] # "NONE" => state'[u] # "NONE",
           \A u \in Tasks \ {t} : \/ state'[u] = state[u]
                                  \/ state[u] = "NONE"
                                  \/ state[u] = "BLOCKED" /\ state'[u] = "READY",
           state[t] = "DEAD" => state'[t] = "DEAD",
           \A d \in Cpus \ {c} : cpu'[d] = cpu[d],
           \/ cpu'[c] \notin {"run", "ctx", "check", "commit"}
           \/ /\ cpu'[c] = "run"
              /\ \/ state'[t] = "RUNNING"
                 \/ state'[t] = "DEAD" /\ pc'[t] = "exit_yield"
                 \/ state'[t] \in {"BLOCKED", "READY"} /\ pc'[t] = "block_switch"
    PROVE  Placement'
  <1> USE Constants
  <1>1. \A d \in Cpus : current[d] = t => d = c
    BY OneCpu DEF Runs
  <1>2. ASSUME NEW d \in Cpus PROVE CpuOK(d)'
    <2>1. CASE d = c
      BY <2>1 DEF Placement, CpuOK, Runs
    <2>2. CASE d # c
      <3>1. current'[d] = current[d] /\ current[d] # t /\ cpu'[d] = cpu[d] /\ CpuOK(d)
        BY <1>1, <2>2 DEF Placement
      <3>2. current[d] \in Tasks => current[d] \in AllTasks \ {t} /\ current[d] \in Tasks \ {t}
        BY <3>1
      <3>3. QED
        BY <3>1, <3>2, CpuFrame
    <2>3. QED
      BY <2>1, <2>2
  <1>3. ASSUME NEW d \in Cpus PROVE CleanupOK(d)'
    <2>1. Cleanup[d] \in AllTasks \ {t} /\ CleanupOK(d)
      BY DEF Placement
    <2>2. pc'[Cleanup[d]] = pc[Cleanup[d]] /\ dead'[d] = dead[d]
      BY <2>1
    <2>3. dead[d] \in Tasks /\ state[dead[d]] = "DEAD" => state'[dead[d]] = "DEAD"
      OBVIOUS
    <2>4. QED
      BY <2>1, <2>2, <2>3 DEF CleanupOK
  <1>4. QED
    BY <1>2, <1>3 DEF Placement

(* A step of the scheduler or of the idle or cleanup task on a CPU: dead   *)
(* threads stay dead, and the threads of other CPUs are left alone.        *)
LEMMA SchedPlacement ==
    ASSUME Types, Placement, NEW c \in Cpus, CpuOK(c)', CleanupOK(c)',
           \A d \in Cpus : QueueOK(d)',
           \A d \in Cpus \ {c} : /\ current'[d] = current[d] /\ next'[d] = next[d]
                                 /\ cpu'[d] = cpu[d] /\ dead'[d] = dead[d],
           \A u \in AllTasks : pc'[u] = pc[u] \/ u \in {Idle[c], Cleanup[c]},
           \A u \in Tasks : state'[u] = state[u] \/ (Home[u] = c /\ state[u] # "DEAD")
                                                 \/ (Home[u] = c /\ state'[u] = "DEAD")
    PROVE  Placement'
  <1> USE Constants
  <1>1. ASSUME NEW d \in Cpus PROVE CpuOK(d)'
    <2>1. CASE d = c
      BY <2>1
    <2>2. CASE d # c
      <3>1. current'[d] = current[d] /\ next'[d] = next[d] /\ cpu'[d] = cpu[d] /\ CpuOK(d)
        BY <2>2 DEF Placement
      <3>2. current[d] \in Tasks => Home[current[d]] # c /\ current[d] \in AllTasks
        BY <2>2, <3>1 DEF CpuOK
      <3>3. current[d] \in Tasks => pc'[current[d]] = pc[current[d]] /\ state'[current[d]] = state[current[d]]
        BY <3>2
      <3>4. cpu[d] \in {"check", "commit"} /\ next[d] \in Tasks => state'[next[d]] = state[next[d]]
        BY <2>2, <3>1 DEF CpuOK
      <3>5. QED
        BY <3>1, <3>3, <3>4 DEF CpuOK
    <2>3. QED
      BY <2>1, <2>2
  <1>2. ASSUME NEW d \in Cpus PROVE CleanupOK(d)'
    <2>1. CASE d = c
      BY <2>1
    <2>2. CASE d # c
      <3>1. Cleanup[d] \in AllTasks /\ CleanupOK(d) /\ Cleanup[d] \notin {Idle[c], Cleanup[c]}
        BY <2>2 DEF Placement
      <3>2. pc'[Cleanup[d]] = pc[Cleanup[d]] /\ dead'[d] = dead[d]
        BY <3>1, <2>2
      <3>3. dead[d] \in Tasks /\ state[dead[d]] = "DEAD" => state'[dead[d]] = "DEAD"
        OBVIOUS
      <3>4. QED
        BY <3>1, <3>2, <3>3 DEF CleanupOK
    <2>3. QED
      BY <2>1, <2>2
  <1>3. QED
    BY <1>1, <1>2 DEF Placement

-----------------------------------------------------------------------------
(* The scheduler                                                           *)

(* A step of the scheduler on CPU c, which moves threads of its own        *)
(* between states in which they exist.                                     *)
LEMMA SchedFrame ==
    ASSUME IInv, NEW c \in Cpus, Types', CpuOK(c)', QueueOK(c)',
           UNCHANGED <<lifeVars, waitVars, procVars>>,
           \A d \in Cpus \ {c} : /\ current'[d] = current[d] /\ next'[d] = next[d]
                                 /\ cpu'[d] = cpu[d] /\ runnable'[d] = runnable[d],
           \A u \in AllTasks : pc'[u] = pc[u] \/ u = Idle[c],
           \A u \in Tasks : \/ state'[u] = state[u]
                            \/ Home[u] = c /\ state'[u] = "DEAD" /\ state[u] # "NONE"
                            \/ /\ Home[u] = c /\ Live(u)
                               /\ state'[u] \in {"READY", "RUNNING", "BLOCKED", "DEAD"}
    PROVE  IInv'
  <1> USE Constants
  <1>1. UNCHANGED <<process, pstate, threads, parent, children, space, child, dead, blocked>>
    BY DEF lifeVars, waitVars, procVars
  <1>2. \A u \in Tasks : pc'[u] = pc[u]
    OBVIOUS
  <1>3. Known'
    BY <1>1, <1>2, FamilyFrame DEF IInv
  <1>a. Emptied'
    <2>1. \A d \in Cpus : pc'[Cleanup[d]] = pc[Cleanup[d]] /\ dead'[d] = dead[d]
      BY <1>1
    <2>2. QED
      BY <1>1, <2>1, EmptyFrame DEF IInv
  <1>4. ASSUME NEW u \in Tasks PROVE ThreadOK(u)'
    <2>1. ThreadOK(u) /\ pc'[u] = pc[u] /\ blocked'[u] = blocked[u] /\ process'[u] = process[u]
      BY <1>1, <1>2 DEF IInv, Threads
    <2>2. (state'[u] = "NONE" <=> state[u] = "NONE") /\ (Live(u)' => Live(u))
      BY DEF Live
    <2>3. QED
      BY <2>1, <2>2, <1>1, ThreadFrame
  <1>5. \A d \in Cpus : QueueOK(d)'
    <2> SUFFICES ASSUME NEW d \in Cpus, d # c PROVE QueueOK(d)'
      OBVIOUS
    <2>1. QueueOK(d) /\ runnable'[d] = runnable[d] /\ runnable[d] \in Seq(Tasks)
      BY DEF IInv, Placement, Types
    <2>2. ToSet(runnable[d]) \subseteq Tasks
      BY <2>1, SeqMembers
    <2>3. \A u \in Tasks : state[u] # "NONE" => state'[u] # "NONE"
      BY DEF Live
    <2>4. QED
      BY <2>1, <2>2, <2>3 DEF QueueOK
  <1>6. CleanupOK(c)'
    <2>1. pc'[Cleanup[c]] = pc[Cleanup[c]] /\ CleanupOK(c)
      BY DEF IInv, Placement
    <2>2. QED
      BY <2>1, <1>1 DEF CleanupOK, Live
  <1>7. Placement'
    <2>1. \A u \in Tasks : \/ state'[u] = state[u] \/ (Home[u] = c /\ state[u] # "DEAD")
                           \/ (Home[u] = c /\ state'[u] = "DEAD")
      BY DEF Live
    <2>2. QED
      BY <2>1, <1>1, <1>5, <1>6, SchedPlacement DEF IInv
  <1>8. QED
    BY <1>3, <1>a, <1>4, <1>7 DEF IInv, Threads

(* The rest of what a step of the scheduler leaves alone.                  *)
LEMMA SchedTypes ==
    ASSUME Types, UNCHANGED <<lifeVars, waitVars, procVars>>, UNCHANGED <<sleeping, exiting>>,
           state' \in [AllTasks -> {"NONE", "READY", "RUNNING", "BLOCKED", "DEAD"}],
           waiting_on' \in [AllTasks -> Procs \cup {Null}],
           runnable' \in [Cpus -> Seq(Tasks)],
           current' \in [Cpus -> AllTasks \cup {Null}],
           needs_cleanup' \in [Cpus -> BOOLEAN],
           next' \in [Cpus -> AllTasks \cup {Null}],
           left' \in [Cpus -> AllTasks \cup {Null}],
           cpu' \in [Cpus -> CpuPoints],
           pc' \in [AllTasks -> ThreadPoints \cup ServantPoints],
           \A t \in Tasks : pc'[t] = pc[t]
    PROVE  Types'
  BY DEF Types, TypeOK, lifeVars, waitVars, procVars

LEMMA TypesFacts ==
    ASSUME Types
    PROVE  /\ state \in [AllTasks -> {"NONE", "READY", "RUNNING", "BLOCKED", "DEAD"}]
           /\ waiting_on \in [AllTasks -> Procs \cup {Null}]
           /\ runnable \in [Cpus -> Seq(Tasks)]
           /\ sleeping = [c \in Cpus |-> <<>>]
           /\ current \in [Cpus -> AllTasks \cup {Null}]
           /\ needs_cleanup \in [Cpus -> BOOLEAN]
           /\ next \in [Cpus -> AllTasks \cup {Null}]
           /\ left \in [Cpus -> AllTasks \cup {Null}]
           /\ cpu \in [Cpus -> CpuPoints]
           /\ pc \in [AllTasks -> ThreadPoints \cup ServantPoints]
           /\ \A t \in Tasks : pc[t] \in ThreadPoints
  BY DEF Types, TypeOK

(* Steps that only move a CPU: to a switch, to a halt, or to the task that *)
(* was picked.                                                             *)
LEMMA CpuStepOK ==
    ASSUME IInv, NEW c \in Cpus, NEW to \in CpuPoints,
           UNCHANGED <<lifeVars, waitVars, procVars>>,
           UNCHANGED <<sleeping, exiting, state, waiting_on, runnable, current, next, needs_cleanup>>,
           left' \in [Cpus -> AllTasks \cup {Null}],
           cpu' = [cpu EXCEPT ![c] = to] \/ cpu' = cpu,
           to \in {"run", "ctx"} => to = "run" /\ cpu[c] = "ctx",
           to \in {"check", "commit"} => cpu[c] \in {"check", "commit"},
           pc' = pc \/ pc' = [pc EXCEPT ![Idle[c]] = "idle"]
    PROVE  IInv'
  <1> USE Constants, TypesFacts
  <1>0. Types
    BY DEF IInv
  <1>1. cpu' \in [Cpus -> CpuPoints] /\ \A d \in Cpus : cpu'[d] = cpu[d] \/ (d = c /\ cpu'[d] = to)
    <2>1. cpu \in [Cpus -> CpuPoints]
      BY <1>0
    <2>2. CASE cpu' = cpu
      BY <2>1, <2>2
    <2>3. CASE cpu' = [cpu EXCEPT ![c] = to]
      BY <2>1, <2>3
    <2>4. QED
      BY <2>2, <2>3
  <1>2. /\ pc' \in [AllTasks -> ThreadPoints \cup ServantPoints]
        /\ \A u \in AllTasks : pc'[u] = pc[u] \/ u = Idle[c]
    <2>1. pc \in [AllTasks -> ThreadPoints \cup ServantPoints] /\ "idle" \in ServantPoints
      BY <1>0 DEF ServantPoints
    <2>2. CASE pc' = pc
      BY <2>1, <2>2
    <2>3. CASE pc' = [pc EXCEPT ![Idle[c]] = "idle"]
      BY <2>1, <2>3
    <2>4. QED
      BY <2>2, <2>3
  <1>3. \A u \in Tasks : pc'[u] = pc[u]
    BY <1>2
  <1>4. Types'
    BY <1>0, <1>1, <1>2, <1>3, SchedTypes
  <1>5. CpuOK(c)'
    <2>1. CpuOK(c)
      BY DEF IInv, Placement
    <2>2. QED
      BY <2>1, <1>1, <1>3, CpuFrame
  <1>6. QueueOK(c)'
    BY DEF IInv, Placement, QueueOK
  <1>7. QED
    BY <1>1, <1>2, <1>4, <1>5, <1>6, SchedFrame

(* A task of this CPU is picked: the idle or the cleanup task, or the      *)
(* first of the run queue.                                                 *)
LEMMA Picked ==
    ASSUME IInv, NEW c \in Cpus, NEW to \in {"check", "commit"},
           NEW n \in AllTasks, Home[n] = c, n \in Tasks => state[n] # "NONE",
           NEW queue \in Seq(Tasks), \A u \in ToSet(queue) : u \in ToSet(runnable[c]),
           Pick(c, n, queue, to),
           UNCHANGED <<lifeVars, waitVars, procVars>>
    PROVE  IInv'
  <1> USE Constants, TypesFacts
  <1>0. Types
    BY DEF IInv
  <1>1. /\ runnable' = [runnable EXCEPT ![c] = queue]
        /\ UNCHANGED <<state, waiting_on, sleeping, current, left, needs_cleanup, exiting, pc>>
        /\ next' = [next EXCEPT ![c] = n] /\ cpu' = [cpu EXCEPT ![c] = to]
    BY DEF Pick, taskVars
  <1>2. runnable' \in [Cpus -> Seq(Tasks)] /\ runnable'[c] = queue /\ \A d \in Cpus \ {c} : runnable'[d] = runnable[d]
    BY <1>0, <1>1
  <1>3. /\ next' \in [Cpus -> AllTasks \cup {Null}] /\ next'[c] = n
        /\ \A d \in Cpus \ {c} : next'[d] = next[d]
    BY <1>0, <1>1
  <1>4. cpu' \in [Cpus -> CpuPoints] /\ cpu'[c] = to /\ \A d \in Cpus \ {c} : cpu'[d] = cpu[d]
    BY <1>0, <1>1 DEF CpuPoints
  <1>5. Types'
    BY <1>0, <1>1, <1>2, <1>3, <1>4, SchedTypes
  <1>6. CpuOK(c)'
    <2>1. CpuOK(c)
      BY DEF IInv, Placement
    <2>2. QED
      BY <2>1, <1>1, <1>3, <1>4 DEF CpuOK
  <1>7. QueueOK(c)'
    BY <1>1, <1>2 DEF IInv, Placement, QueueOK
  <1>8. QED
    BY <1>1, <1>2, <1>3, <1>4, <1>5, <1>6, <1>7, SchedFrame

(* The task that was picked is switched to, if it is ready.                *)
LEMMA SwitchToOK ==
    ASSUME IInv, NEW c \in Cpus, SwitchTo(c), UNCHANGED <<lifeVars, waitVars, procVars>>
    PROVE  IInv'
  <1> USE Constants, TypesFacts
  <1>0. Types
    BY DEF IInv
  <1>1. PICK n : n = next[c]
    OBVIOUS
  <1>2. n \in AllTasks /\ Home[n] = c /\ cpu[c] = "commit"
    <2>1. cpu[c] = "commit" /\ CpuOK(c)
      BY DEF IInv, Placement, SwitchTo
    <2>2. QED
      BY <1>0, <1>1, <2>1 DEF CpuOK
  <1>3. /\ UNCHANGED <<runnable, waiting_on, sleeping, needs_cleanup, exiting, pc>>
        /\ next' = [next EXCEPT ![c] = Null]
    BY DEF SwitchTo, queueVars
  <1>4. next' \in [Cpus -> AllTasks \cup {Null}] /\ \A d \in Cpus \ {c} : next'[d] = next[d]
    BY <1>0, <1>3
  <1>a. ToSet(runnable[c]) \subseteq AllTasks
    BY <1>0, SeqMembers
  <1>5. CASE /\ n \in Tasks => state[n] = "READY"
             /\ state' = [state EXCEPT ![n] = "RUNNING"]
             /\ current' = [current EXCEPT ![c] = n]
             /\ left' = [left EXCEPT ![c] = IF current[c] = n THEN Null ELSE current[c]]
             /\ cpu' = [cpu EXCEPT ![c] = IF current[c] = n THEN "run" ELSE "ctx"]
    <2>1. /\ state' \in [AllTasks -> {"NONE", "READY", "RUNNING", "BLOCKED", "DEAD"}]
          /\ state'[n] = "RUNNING" /\ \A u \in AllTasks : u # n => state'[u] = state[u]
      BY <1>0, <1>2, <1>5
    <2>2. current' \in [Cpus -> AllTasks \cup {Null}] /\ current'[c] = n /\ \A d \in Cpus \ {c} : current'[d] = current[d]
      BY <1>0, <1>2, <1>5
    <2>3. left' \in [Cpus -> AllTasks \cup {Null}]
      BY <1>0, <1>5
    <2>4. /\ cpu' \in [Cpus -> CpuPoints] /\ cpu'[c] \in {"run", "ctx"}
          /\ \A d \in Cpus \ {c} : cpu'[d] = cpu[d]
      BY <1>0, <1>5 DEF CpuPoints
    <2>5. Types'
      BY <1>0, <1>3, <1>4, <2>1, <2>2, <2>3, <2>4, SchedTypes
    <2>6. CpuOK(c)'
      BY <1>2, <2>1, <2>2, <2>4 DEF CpuOK
    <2>7. QueueOK(c)'
      BY <1>3, <1>a, <2>1 DEF IInv, Placement, QueueOK
    <2>8. \A u \in Tasks : state'[u] = state[u] \/ (Home[u] = c /\ Live(u) /\ state'[u] = "RUNNING")
      BY <1>2, <1>5, <2>1 DEF Live
    <2>9. QED
      BY <1>3, <1>4, <2>2, <2>4, <2>5, <2>6, <2>7, <2>8, SchedFrame
  <1>6. CASE cpu' = [cpu EXCEPT ![c] = "halted"] /\ UNCHANGED <<state, current, left>>
    <2>1. cpu' \in [Cpus -> CpuPoints] /\ cpu'[c] = "halted" /\ \A d \in Cpus \ {c} : cpu'[d] = cpu[d]
      BY <1>0, <1>6 DEF CpuPoints
    <2>2. Types'
      BY <1>0, <1>3, <1>4, <1>6, <2>1, SchedTypes
    <2>3. CpuOK(c)'
      BY <1>6, <2>1 DEF IInv, Placement, CpuOK
    <2>4. QueueOK(c)'
      BY <1>3, <1>6 DEF IInv, Placement, QueueOK
    <2>5. QED
      BY <1>3, <1>4, <1>6, <2>1, <2>2, <2>3, <2>4, SchedFrame
  <1>7. QED
    BY <1>1, <1>5, <1>6 DEF SwitchTo, Panic

(* Nobody sleeps, so the timer interrupt only preempts.                    *)
LEMMA NobodyIsDue ==
    ASSUME Types, NEW c \in Cpus, TimerIrq(c)
    PROVE  /\ UNCHANGED <<state, runnable, sleeping, waiting_on>>
           /\ cpu' = [cpu EXCEPT ![c] = IF current[c] = Null THEN "boot" ELSE "enter"]
           /\ UNCHANGED <<current, next, left, needs_cleanup, exiting, pc, faults>>
  <1>0. /\ sleeping = [d \in Cpus |-> <<>>] /\ runnable \in [Cpus -> Seq(Tasks)]
        /\ waiting_on \in [AllTasks -> Procs \cup {Null}] /\ cpu \in [Cpus -> CpuPoints]
        /\ state \in [AllTasks -> {"NONE", "READY", "RUNNING", "BLOCKED", "DEAD"}]
    BY DEF Types, TypeOK
  <1>1. sleeping[c] = <<>>
    BY <1>0
  <1>2. Due(c) = <<>>
    <2>1. {i \in DOMAIN sleeping[c] : now < sleep_until[sleeping[c][i]]} = {}
      BY <1>1
    <2>2. QED
      BY <1>1, <2>1 DEF Due
  <1>3. ToSet(<<>>) = {} /\ \A t : ~Contains(<<>>, t)
    BY DEF ToSet, Contains
  <1>4. Len(<<>>) = 0 /\ SubSeq(<<>>, 0 + 1, 0) = <<>>
    BY SubSeqEmpty
  <1>5. sleeping' = sleeping
    <2>1. sleeping' = [sleeping EXCEPT ![c] = SubSeq(sleeping[c], Len(Due(c)) + 1, Len(sleeping[c]))]
      BY <1>0 DEF TimerIrq
    <2>2. sleeping' = [sleeping EXCEPT ![c] = <<>>]
      BY <2>1, <1>1, <1>2, <1>4
    <2>3. QED
      BY <2>2, <1>0
  <1>6. waiting_on' = waiting_on
    <2>1. waiting_on' = [t \in AllTasks |-> IF Contains(Due(c), t) THEN Null ELSE waiting_on[t]]
      BY DEF TimerIrq
    <2>2. \A t \in AllTasks : ~Contains(Due(c), t)
      BY <1>2, <1>3
    <2>3. QED
      BY <2>1, <2>2, <1>0
  <1>7. ~\E t \in ToSet(Due(c)) : state[t] # "BLOCKED"
    BY <1>2, <1>3
  <1>8. state' = state
    <2>1. state' = [t \in AllTasks |-> IF Contains(Due(c), t) THEN "READY" ELSE state[t]]
      BY <1>7 DEF TimerIrq
    <2>2. \A t \in AllTasks : ~Contains(Due(c), t)
      BY <1>2, <1>3
    <2>3. QED
      BY <2>1, <2>2, <1>0
  <1>9. runnable' = runnable
    <2>1. runnable' = [runnable EXCEPT ![c] = runnable[c] \o <<>>]
      BY <1>2, <1>7 DEF TimerIrq
    <2>2. runnable[c] \o <<>> = runnable[c]
      BY <1>0, ConcatEmptySeq
    <2>3. QED
      BY <2>1, <2>2, <1>0
  <1>10. cpu' = [cpu EXCEPT ![c] = IF current[c] = Null THEN "boot" ELSE "enter"] /\ UNCHANGED faults
    BY <1>7 DEF TimerIrq
  <1>12. UNCHANGED <<current, next, left, needs_cleanup, exiting, pc>>
    BY DEF TimerIrq
  <1>13. QED
    BY <1>5, <1>6, <1>8, <1>9, <1>10, <1>12

LEMMA TimerOK ==
    ASSUME IInv, NEW c \in Cpus, TimerIrq(c), UNCHANGED <<lifeVars, waitVars, procVars>>
    PROVE  IInv'
  <1>0. Types /\ left \in [Cpus -> AllTasks \cup {Null}]
    BY TypesFacts DEF IInv
  <1>1. /\ UNCHANGED <<state, runnable, sleeping, waiting_on>>
        /\ cpu' = [cpu EXCEPT ![c] = IF current[c] = Null THEN "boot" ELSE "enter"]
        /\ UNCHANGED <<current, next, left, needs_cleanup, exiting, pc, faults>>
    BY <1>0, NobodyIsDue
  <1>2. PICK to : to = IF current[c] = Null THEN "boot" ELSE "enter"
    OBVIOUS
  <1>3. to \in {"boot", "enter"} /\ to \in CpuPoints /\ cpu' = [cpu EXCEPT ![c] = to]
    BY <1>1, <1>2 DEF CpuPoints
  <1>4. QED
    BY <1>0, <1>1, <1>3, CpuStepOK

(* The checks of scheduler_switch.                                         *)
LEMMA SwitchEnterOK ==
    ASSUME IInv, NEW c \in Cpus, SwitchEnter(c), UNCHANGED <<lifeVars, waitVars, procVars>>
    PROVE  IInv'
  <1> USE Constants, TypesFacts
  <1> DEFINE p == current[c]
  <1>0. Types
    BY DEF IInv
  <1>1. UNCHANGED <<waiting_on, sleeping, current, next, needs_cleanup, left, exiting, pc>>
    BY DEF SwitchEnter, cpuVars
  <1>2. CASE cpu' = [cpu EXCEPT ![c] = "halted"] /\ UNCHANGED <<state, runnable>>
    BY <1>0, <1>1, <1>2, CpuStepOK DEF CpuPoints
  <1>3. CASE cpu' = [cpu EXCEPT ![c] = "pick"] /\ UNCHANGED <<state, runnable>>
    BY <1>0, <1>1, <1>3, CpuStepOK DEF CpuPoints
  <1>4. CASE /\ cpu' = [cpu EXCEPT ![c] = "pick"]
             /\ p \in Tasks /\ state[p] = "RUNNING"
             /\ state' = [state EXCEPT ![p] = "READY"]
             /\ runnable' = [runnable EXCEPT ![c] = Append(@, p)]
    <2>1. /\ state' \in [AllTasks -> {"NONE", "READY", "RUNNING", "BLOCKED", "DEAD"}]
          /\ state'[p] = "READY" /\ \A u \in AllTasks : u # p => state'[u] = state[u]
      BY <1>0, <1>4
    <2>2. cpu' \in [Cpus -> CpuPoints] /\ cpu'[c] = "pick" /\ \A d \in Cpus \ {c} : cpu'[d] = cpu[d]
      BY <1>0, <1>4 DEF CpuPoints
    <2>3. Home[p] = c
      BY <1>4 DEF IInv, Placement, CpuOK
    <2>4. runnable[c] \in Seq(Tasks) /\ runnable'[c] = Append(runnable[c], p)
      BY <1>0, <1>4
    <2>5. Append(runnable[c], p) \in Seq(Tasks) /\ \A x : x \in ToSet(Append(runnable[c], p)) <=> x \in ToSet(runnable[c]) \/ x = p
      BY <1>4, <2>4, AppendQueue
    <2>6. runnable' \in [Cpus -> Seq(Tasks)] /\ \A d \in Cpus \ {c} : runnable'[d] = runnable[d]
      BY <1>0, <1>4, <2>5
    <2>7. Types'
      BY <1>0, <1>1, <2>1, <2>2, <2>6, SchedTypes
    <2>8. QueueOK(c)'
      <3>1. \A u \in ToSet(runnable[c]) : u \in AllTasks /\ Home[u] = c /\ state[u] # "NONE"
        BY <2>4, SeqMembers DEF IInv, Placement, QueueOK
      <3>2. QED
        BY <3>1, <2>1, <2>3, <2>4, <2>5 DEF QueueOK
    <2>9. CpuOK(c)'
      BY <1>1, <2>2, <2>3 DEF CpuOK
    <2>10. \A u \in Tasks : state'[u] = state[u] \/ (Home[u] = c /\ Live(u) /\ state'[u] = "READY")
      BY <1>4, <2>1, <2>3 DEF Live
    <2>11. QED
      BY <1>1, <2>2, <2>6, <2>7, <2>8, <2>9, <2>10, SchedFrame
  <1>5. QED
    BY <1>2, <1>3, <1>4 DEF SwitchEnter, Panic

(* A thread of an exiting process dies when it is picked.                  *)
LEMMA CheckExitingOK ==
    ASSUME IInv, NEW c \in Cpus, CheckExiting(c), UNCHANGED <<lifeVars, waitVars, procVars>>
    PROVE  IInv'
  <1> USE Constants, TypesFacts
  <1>0. Types
    BY DEF IInv
  <1>1. PICK p : p = next[c]
    OBVIOUS
  <1>2. /\ UNCHANGED <<waiting_on, runnable, sleeping, current, left, exiting, pc>>
        /\ state' = [state EXCEPT ![p] = "DEAD"]
        /\ needs_cleanup' = [needs_cleanup EXCEPT ![c] = TRUE]
        /\ next' = [next EXCEPT ![c] = Null]
        /\ cpu[c] = "check" /\ cpu' = [cpu EXCEPT ![c] = "loop"]
    BY <1>1 DEF CheckExiting, queueVars
  <1>3. p \in AllTasks /\ Home[p] = c /\ (p \in Tasks => state[p] # "NONE")
    BY <1>0, <1>1, <1>2 DEF IInv, Placement, CpuOK
  <1>5. \A u \in ToSet(runnable[c]) : u \in AllTasks /\ Home[u] = c /\ state[u] # "NONE"
    BY <1>0, SeqMembers DEF IInv, Placement, QueueOK
  <1>6. /\ state' \in [AllTasks -> {"NONE", "READY", "RUNNING", "BLOCKED", "DEAD"}]
        /\ state'[p] = "DEAD" /\ \A u \in AllTasks : u # p => state'[u] = state[u]
    BY <1>0, <1>2, <1>3
  <1>7. next' \in [Cpus -> AllTasks \cup {Null}] /\ \A d \in Cpus \ {c} : next'[d] = next[d]
    BY <1>0, <1>2
  <1>8. /\ cpu' \in [Cpus -> CpuPoints] /\ cpu'[c] = "loop" /\ needs_cleanup' \in [Cpus -> BOOLEAN]
        /\ \A d \in Cpus \ {c} : cpu'[d] = cpu[d]
    BY <1>0, <1>2 DEF CpuPoints
  <1>9. Types'
    BY <1>0, <1>2, <1>6, <1>7, <1>8, SchedTypes
  <1>10. CpuOK(c)'
    BY <1>2, <1>8 DEF IInv, Placement, CpuOK
  <1>11. QueueOK(c)'
    BY <1>2, <1>5, <1>6 DEF QueueOK
  <1>12. \A u \in Tasks : \/ state'[u] = state[u]
                          \/ Home[u] = c /\ state'[u] = "DEAD" /\ state[u] # "NONE"
    BY <1>3, <1>6
  <1>13. QED
    BY <1>2, <1>7, <1>8, <1>9, <1>10, <1>11, <1>12, SchedFrame

(* The policy of scheduler_pick_next.                                      *)
LEMMA PickOK ==
    ASSUME IInv, NEW c \in Cpus, PickCleanup(c) \/ PickIdle(c) \/ PickFirst(c),
           UNCHANGED <<lifeVars, waitVars, procVars>>
    PROVE  IInv'
  <1> USE Constants
  <1>1. runnable[c] \in Seq(Tasks)
    BY TypesFacts DEF IInv
  <1>2. CASE PickCleanup(c)
    BY <1>1, <1>2, Picked DEF PickCleanup
  <1>3. CASE PickIdle(c)
    BY <1>1, <1>3, Picked DEF PickIdle
  <1>4. CASE PickFirst(c)
    <2>1. runnable[c] # <<>> /\ Pick(c, Head(runnable[c]), Tail(runnable[c]), "check")
      BY <1>4 DEF PickFirst
    <2>2. Tail(runnable[c]) \in Seq(Tasks) /\ Head(runnable[c]) \in Tasks /\ Head(runnable[c]) \in ToSet(runnable[c])
      BY <1>1, <2>1, TailQueue
    <2>3. \A u \in ToSet(Tail(runnable[c])) : u \in ToSet(runnable[c])
      BY <1>1, <2>1, TailMembers
    <2>4. Home[Head(runnable[c])] = c /\ state[Head(runnable[c])] # "NONE"
      BY <2>2 DEF IInv, Placement, QueueOK
    <2>5. QED
      BY <2>1, <2>2, <2>3, <2>4, Picked
  <1>5. QED
    BY <1>2, <1>3, <1>4

LEMMA SchedStepOK ==
    ASSUME IInv, NEW c \in Cpus, SchedStep(c)
    PROVE  IInv'
  <1> USE Constants, TypesFacts
  <1>0. Types /\ UNCHANGED <<lifeVars, waitVars, procVars>>
    BY DEF IInv, SchedStep
  <1>1. CASE SwitchSpace(c)
    BY <1>0, <1>1, CpuStepOK DEF SwitchSpace, kept, cpuVars, CpuPoints
  <1>2. CASE SwitchEnter(c)
    BY <1>0, <1>2, SwitchEnterOK
  <1>3. CASE PickCleanup(c) \/ PickIdle(c) \/ PickFirst(c)
    BY <1>0, <1>3, PickOK
  <1>4. CASE CheckExiting(c)
    BY <1>0, <1>4, CheckExitingOK
  <1>a. CASE CheckLive(c)
    BY <1>0, <1>a, CpuStepOK DEF CheckLive, taskVars, queueVars, cpuVars, CpuPoints
  <1>b. CASE SwitchTo(c)
    BY <1>0, <1>b, SwitchToOK
  <1>5. CASE ContextSwitch(c)
    <2>1. left' \in [Cpus -> AllTasks \cup {Null}]
      BY <1>0, <1>5 DEF ContextSwitch
    <2>2. QED
      BY <1>0, <1>5, <2>1, CpuStepOK DEF ContextSwitch, taskVars, queueVars, CpuPoints
  <1>6. CASE BootContextSwitch(c)
    <2>1. cpu[c] = "ctx" /\ UNCHANGED <<taskVars, queueVars, cpuVars, exiting, pc>>
      BY <1>6 DEF BootContextSwitch
    <2>2. CASE cpu' = [cpu EXCEPT ![c] = "halted"]
      BY <1>0, <2>1, <2>2, CpuStepOK DEF taskVars, queueVars, cpuVars, CpuPoints
    <2>3. CASE cpu' = [cpu EXCEPT ![c] = "run"]
      BY <1>0, <2>1, <2>3, CpuStepOK DEF taskVars, queueVars, cpuVars, CpuPoints
    <2>4. QED
      BY <1>6, <2>2, <2>3 DEF BootContextSwitch, Panic
  <1>7. CASE TimerStep(c)
    BY <1>0, <1>7, TimerOK DEF TimerStep
  <1>8. CASE BootSwitch(c)
    BY <1>0, <1>8, CpuStepOK DEF BootSwitch, taskVars, queueVars, cpuVars, CpuPoints
  <1>9. CASE IdleYield(c)
    BY <1>0, <1>9, CpuStepOK DEF IdleYield, CallSwitch, taskVars, queueVars, cpuVars, CpuPoints
  <1>10. QED
    BY <1>1, <1>2, <1>3, <1>4, <1>a, <1>b, <1>5, <1>6, <1>7, <1>8, <1>9 DEF SchedStep, SwitchOrFault, SwitchStep

-----------------------------------------------------------------------------
(* The cleanup task                                                        *)

(* A step of the cleanup task of CPU c that reaps nobody, or works on the  *)
(* dead thread it has found.                                               *)
LEMMA CleanupFrame ==
    ASSUME IInv, NEW c \in Cpus, Types', CleanupOK(c)', Threads',
           UNCHANGED <<state, runnable, current, next, process, pstate, parent, children, child, blocked>>,
           EmptyOK(c)', \A p \in Procs : threads'[p] \subseteq threads[p],
           \A d \in Cpus \ {c} : cpu'[d] = cpu[d] /\ dead'[d] = dead[d],
           \A d \in Cpus : cpu'[d] = cpu[d] \/ cpu'[d] = "halted" \/ cpu'[d] = "enter",
           \A u \in AllTasks : pc'[u] = pc[u] \/ u = Cleanup[c]
    PROVE  IInv'
  <1> USE Constants
  <1>1. \A u \in Tasks : pc'[u] = pc[u]
    OBVIOUS
  <1>2. Known'
    BY <1>1, FamilyFrame DEF IInv
  <1>a. Emptied'
    <2> SUFFICES ASSUME NEW d \in Cpus, d # c, pc'[Cleanup[d]] = "space_free"
                 PROVE  threads'[process[dead'[d]]] = {}
      BY DEF Emptied, EmptyOK
    <2>1. pc[Cleanup[d]] = "space_free" /\ dead'[d] = dead[d] /\ threads[process[dead[d]]] = {}
      BY DEF IInv, Emptied, EmptyOK
    <2>2. dead[d] \in Tasks /\ state[dead[d]] = "DEAD"
      BY <2>1 DEF IInv, Placement, CleanupOK, ReapPoints
    <2>3. process[dead[d]] \in Procs
      BY <2>2 DEF IInv, Threads, ThreadOK, Types, TypeOK
    <2>4. QED
      BY <2>1, <2>3
  <1>3. CpuOK(c)'
    <2>1. CpuOK(c)
      BY DEF IInv, Placement
    <2>2. QED
      BY <2>1, <1>1, CpuFrame
  <1>4. \A d \in Cpus : QueueOK(d)'
    BY DEF IInv, Placement, QueueOK
  <1>5. Placement'
    BY <1>3, <1>4, SchedPlacement DEF IInv
  <1>6. QED
    BY <1>2, <1>a, <1>5 DEF IInv

(* The dead thread task_manager_find_dead_task finds.                      *)
LEMMA FoundIsDead ==
    ASSUME NEW list \in Seq(Tasks),
           NEW corpses, corpses = {i \in DOMAIN list : state[list[i]] = "DEAD"}, corpses # {}
    PROVE  list[Min(corpses)] \in Tasks /\ state[list[Min(corpses)]] = "DEAD"
                                        /\ list[Min(corpses)] \in ToSet(list)
  <1>1. DOMAIN list = 1..Len(list) /\ Len(list) \in Nat
    BY LenProperties
  <1>2. corpses \subseteq Nat
    BY <1>1
  <1>3. Min(corpses) \in corpses
    BY <1>2, FirstPlace
  <1>4. QED
    BY <1>1, <1>3, ElementOfSeq DEF ToSet

(* What a step of the cleanup task does to the thread it works on.         *)
LEMMA CleanupThreads ==
    ASSUME IInv, UNCHANGED <<state, process, pstate, parent, child, blocked>>,
           \A u \in Tasks : pc'[u] = pc[u],
           \A u \in Tasks : Live(u) => /\ u \in threads'[process[u]]
                                       /\ process[u] \in space'
    PROVE  Threads'
  <1> SUFFICES ASSUME NEW u \in Tasks PROVE ThreadOK(u)'
    BY DEF Threads
  <1>1. ThreadOK(u)
    BY DEF IInv, Threads
  <1>2. QED
    BY <1>1 DEF ThreadOK, Live

(* A live thread is counted by its process, which has its address space.   *)
LEMMA LiveThread ==
    ASSUME IInv, NEW u \in Tasks, Live(u)
    PROVE  /\ process[u] \in Procs /\ u \in threads[process[u]] /\ process[u] \in space
           /\ pstate[process[u]] \in {"RUNNING", "ZOMBIE"}
  BY Constants DEF IInv, Threads, ThreadOK, Types, TypeOK, Live

LEMMA CleanupStepOK ==
    ASSUME IInv, NEW c \in Cpus, CleanupStep(c)
    PROVE  IInv'
  <1> USE Constants, TypesFacts
  <1> DEFINE k == Cleanup[c]
  <1>0. Types /\ k \in AllTasks /\ k \notin Tasks
    BY DEF IInv
  <1>a. pc \in [AllTasks -> ThreadPoints \cup ServantPoints]
    BY <1>0
  <1>b. ASSUME NEW to \in ServantPoints, Go(k, to)
        PROVE  /\ pc' \in [AllTasks -> ThreadPoints \cup ServantPoints]
               /\ pc'[k] = to /\ \A u \in AllTasks : u # k => pc'[u] = pc[u]
    BY <1>0, <1>a, <1>b DEF Go
  <1>c. \A u \in Tasks : Live(u) => u \in threads[process[u]] /\ process[u] \in space
    BY LiveThread
  <1>1. CASE FindDead(c) /\ UNCHANGED <<waitVars, procVars>>
    <2> DEFINE corpses == {i \in DOMAIN tasks : state[tasks[i]] = "DEAD"}
               d == IF corpses = {} THEN Null ELSE tasks[Min(corpses)]
               to == IF corpses = {} THEN "clear" ELSE "remove"
    <2>1. /\ dead' = [dead EXCEPT ![c] = d] /\ Go(k, to)
          /\ UNCHANGED <<taskVars, queueVars, cpuVars, now, exiting, cpu, faults, tasks, freed>>
      BY <1>1 DEF FindDead
    <2>2. tasks \in Seq(Tasks) /\ dead \in [Cpus -> Tasks \cup {Null}]
      BY <1>0 DEF Types
    <2>3. corpses # {} => d \in Tasks /\ state[d] = "DEAD"
      BY <2>2, FoundIsDead
    <2>4. d \in Tasks \cup {Null} /\ (to \in ReapPoints => d \in Tasks /\ state[d] = "DEAD")
      BY <2>3 DEF ReapPoints
    <2>5. to \in ServantPoints
      BY DEF ServantPoints, ReapPoints
    <2> HIDE DEF corpses, d, to
    <2>6. /\ pc' \in [AllTasks -> ThreadPoints \cup ServantPoints]
          /\ pc'[k] = to /\ \A u \in AllTasks : u # k => pc'[u] = pc[u]
      BY <2>1, <2>5, <1>b
    <2>7. /\ dead' \in [Cpus -> Tasks \cup {Null}] /\ dead'[c] = d
          /\ \A e \in Cpus \ {c} : dead'[e] = dead[e]
      BY <2>1, <2>2, <2>4
    <2>a. \A t \in Tasks : pc'[t] \in ThreadPoints
      BY <1>0, <2>6
    <2>8. Types'
      BY <1>0, <1>1, <2>1, <2>6, <2>7, <2>a DEF Types, TypeOK, taskVars, queueVars, cpuVars, waitVars, procVars
    <2>9. CleanupOK(c)'
      BY <2>1, <2>4, <2>6, <2>7 DEF CleanupOK, taskVars
    <2>10. Threads'
      BY <1>0, <1>1, <1>c, <2>1, <2>6, CleanupThreads DEF taskVars, waitVars, procVars
    <2>b. EmptyOK(c)'
      <3>1. to # "space_free"
        BY DEF to
      <3>2. QED
        BY <2>6, <3>1 DEF EmptyOK
    <2>11. QED
      BY <1>0, <1>1, <2>1, <2>6, <2>7, <2>8, <2>9, <2>10, <2>b, CleanupFrame
         DEF taskVars, queueVars, cpuVars, waitVars, procVars
  <1>2. ASSUME NEW to \in ServantPoints, to \in ReapPoints => pc[k] \in ReapPoints,
               Go(k, to), needs_cleanup' \in [Cpus -> BOOLEAN],
               cpu' = cpu \/ cpu' = [cpu EXCEPT ![c] = "enter"],
               tasks' \in Seq(Tasks),
               dead' = dead \/ (dead' = [dead EXCEPT ![c] = Null] /\ to \notin ReapPoints),
               threads' \in [Procs -> SUBSET Tasks], space' \subseteq Procs,
               \A p \in Procs : threads'[p] \subseteq threads[p],
               to = "space_free" => dead' = dead /\ threads' = threads /\ threads[process[dead[c]]] = {},
               \A u \in Tasks : Live(u) => u \in threads'[process[u]] /\ process[u] \in space',
               UNCHANGED <<state, waiting_on, runnable, sleeping, current, next, left, exiting, waiters, blocked>>,
               UNCHANGED <<process, pstate, parent, children, child>>
        PROVE  IInv'
    <2>1. /\ pc' \in [AllTasks -> ThreadPoints \cup ServantPoints]
          /\ pc'[k] = to /\ \A u \in AllTasks : u # k => pc'[u] = pc[u]
      BY <1>2, <1>b
    <2>2. /\ cpu' \in [Cpus -> CpuPoints] /\ (\A e \in Cpus \ {c} : cpu'[e] = cpu[e])
          /\ \A e \in Cpus : cpu'[e] = cpu[e] \/ cpu'[e] = "enter"
      <3>1. cpu \in [Cpus -> CpuPoints] /\ "enter" \in CpuPoints
        BY <1>0 DEF CpuPoints
      <3>2. CASE cpu' = cpu
        BY <3>1, <3>2
      <3>3. CASE cpu' = [cpu EXCEPT ![c] = "enter"]
        BY <3>1, <3>3
      <3>4. QED
        BY <1>2, <3>2, <3>3
    <2>3. dead' \in [Cpus -> Tasks \cup {Null}] /\ \A e \in Cpus \ {c} : dead'[e] = dead[e]
      <3>1. dead \in [Cpus -> Tasks \cup {Null}]
        BY <1>0 DEF Types
      <3>2. CASE dead' = dead
        BY <3>1, <3>2
      <3>3. CASE dead' = [dead EXCEPT ![c] = Null]
        BY <3>1, <3>3
      <3>4. QED
        BY <1>2, <3>2, <3>3
    <2>4. \A t \in Tasks : pc'[t] \in ThreadPoints
      BY <1>0, <2>1
    <2>5. Types'
      BY <1>0, <1>2, <2>1, <2>2, <2>3, <2>4 DEF Types, TypeOK
    <2>6. CleanupOK(c)'
      <3>1. CleanupOK(c)
        BY DEF IInv, Placement
      <3>2. QED
        BY <1>2, <2>1, <3>1 DEF CleanupOK
    <2>7. Threads'
      BY <1>0, <1>2, <2>1, CleanupThreads
    <2>a. EmptyOK(c)'
      BY <1>2, <2>1 DEF EmptyOK
    <2>8. QED
      BY <1>0, <1>2, <2>1, <2>2, <2>3, <2>5, <2>6, <2>7, <2>a, CleanupFrame
  <1>3. \A to \in {"find", "clear", "rest", "detach", "space", "space_free", "space_null", "destroy"} : to \in ServantPoints
    BY DEF ServantPoints, ReapPoints
  <1>d. tasks \in Seq(Tasks) /\ threads \in [Procs -> SUBSET Tasks] /\ space \subseteq Procs
    BY <1>0 DEF Types, TypeOK
  <1>e. needs_cleanup \in [Cpus -> BOOLEAN]
    BY <1>0
  <1>f. /\ {"find", "clear", "rest"} \cap ReapPoints = {}
        /\ {"remove", "detach", "space", "space_free", "space_null", "destroy"} = ReapPoints
    BY DEF ReapPoints
  <1>g. ASSUME pc[k] \in ReapPoints PROVE dead[c] \in Tasks /\ ~Live(dead[c])
    BY <1>g DEF IInv, Placement, CleanupOK, Live
  <1>4. CASE ClearCleanup(c) /\ UNCHANGED <<waitVars, procVars>>
    <2>1. needs_cleanup' \in [Cpus -> BOOLEAN]
      BY <1>4, <1>e DEF ClearCleanup
    <2>2. QED
      BY <1>2, <1>3, <1>4, <1>c, <1>d, <1>f, <2>1
         DEF ClearCleanup, taskVars, queueVars, lifeVars, waitVars, procVars
  <1>5. CASE CleanupYield(c) /\ UNCHANGED <<waitVars, procVars>>
    BY <1>2, <1>3, <1>5, <1>c, <1>d, <1>e, <1>f
       DEF CleanupYield, CallSwitch, Go, taskVars, queueVars, cpuVars, lifeVars, waitVars, procVars
  <1>6. CASE RemoveDead(c, "detach") /\ UNCHANGED <<waitVars, procVars>>
    <2>1. pc[k] = "remove" /\ UNCHANGED <<taskVars, queueVars, cpuVars, now, exiting, dead, freed>>
      BY <1>6 DEF RemoveDead, At
    <2>2. CASE Panic(c, "dead task is still waiting on") /\ UNCHANGED <<tasks, pc>>
      <3>1. /\ cpu' \in [Cpus -> CpuPoints] /\ (\A e \in Cpus \ {c} : cpu'[e] = cpu[e])
            /\ \A e \in Cpus : cpu'[e] = cpu[e] \/ cpu'[e] = "halted"
        BY <1>0, <2>2 DEF Panic, CpuPoints
      <3>2. Types'
        BY <1>0, <1>6, <2>1, <2>2, <3>1 DEF Types, TypeOK, taskVars, queueVars, cpuVars, waitVars, procVars
      <3>3. CleanupOK(c)'
        BY <2>1, <2>2 DEF IInv, Placement, CleanupOK, taskVars
      <3>4. Threads'
        BY <1>6, <1>c, <2>1, <2>2, CleanupThreads DEF taskVars, waitVars, procVars
      <3>a. EmptyOK(c)'
        BY <2>1, <2>2 DEF EmptyOK
      <3>5. QED
        BY <1>6, <2>1, <2>2, <3>1, <3>2, <3>3, <3>4, <3>a, CleanupFrame
           DEF taskVars, queueVars, cpuVars, waitVars, procVars
    <2>3. CASE tasks' = Unlink(tasks, dead[c]) /\ Go(k, "detach") /\ UNCHANGED cpu
      <3>1. tasks' \in Seq(Tasks)
        BY <1>d, <2>3, UnlinkType
      <3>2. QED
        BY <1>2, <1>3, <1>6, <1>c, <1>d, <1>e, <1>f, <2>1, <2>3, <3>1
           DEF taskVars, queueVars, cpuVars, waitVars, procVars
    <2>4. QED
      BY <1>6, <2>2, <2>3 DEF RemoveDead
  <1>7. CASE DestroyDead(c) /\ UNCHANGED <<waitVars, procVars>>
    BY <1>2, <1>3, <1>7, <1>c, <1>d, <1>e, <1>f
       DEF DestroyDead, taskVars, queueVars, cpuVars, waitVars, procVars
  <1>8. CASE Detach(c)
    <2>1. /\ pc[k] = "detach" /\ threads' = [threads EXCEPT ![process[dead[c]]] = @ \ {dead[c]}]
          /\ Go(k, "space")
          /\ UNCHANGED <<kept, state, waiting_on, runnable, exiting, cpu, lifeVars, waitVars,
                         process, pstate, parent, children, space, child>>
      BY <1>8 DEF Detach, At
    <2>2. dead[c] \in Tasks /\ ~Live(dead[c])
      BY <1>f, <1>g, <2>1
    <2>3. /\ threads' \in [Procs -> SUBSET Tasks]
          /\ \A p \in Procs : threads'[p] \subseteq threads[p]
          /\ \A p \in Procs, u \in Tasks : u \in threads[p] /\ u # dead[c] => u \in threads'[p]
      <3>1. threads \in [Procs -> SUBSET Tasks]
        BY <1>d
      <3>2. threads' = [threads EXCEPT ![process[dead[c]]] = @ \ {dead[c]}]
        BY <2>1
      <3>3. PICK f, g, d, o : f = threads /\ g = threads' /\ d = dead[c] /\ o = process[dead[c]]
        OBVIOUS
      <3>4. f \in [Procs -> SUBSET Tasks] /\ g = [f EXCEPT ![o] = @ \ {d}]
        BY <3>1, <3>2, <3>3, Zenon
      <3>5. /\ g \in [Procs -> SUBSET Tasks]
            /\ \A p \in Procs : g[p] \subseteq f[p]
            /\ \A p \in Procs, u \in Tasks : u \in f[p] /\ u # d => u \in g[p]
        <4>1. ASSUME NEW p \in Procs PROVE (p = o /\ g[p] = f[p] \ {d}) \/ (p # o /\ g[p] = f[p])
          <5>1. CASE p = o
            BY <3>4, <5>1
          <5>2. CASE p # o
            BY <3>4, <5>2
          <5>3. QED
            BY <5>1, <5>2
        <4>2. ASSUME NEW p \in Procs PROVE g[p] \in SUBSET Tasks
          BY <3>4, <4>1
        <4>3. g = [p \in Procs |-> g[p]]
          BY <3>4
        <4>4. ASSUME NEW p \in Procs, NEW u \in Tasks, u \in f[p], u # d PROVE u \in g[p]
          BY <4>1, <4>4
        <4>a. ASSUME NEW p \in Procs PROVE g[p] \subseteq f[p]
          BY <4>1
        <4>5. QED
          BY <4>2, <4>3, <4>4, <4>a
      <3>6. QED
        BY <3>3, <3>5
    <2>4. \A u \in Tasks : Live(u) => u \in threads'[process[u]] /\ process[u] \in space'
      BY <2>1, <2>2, <2>3, LiveThread
    <2>5. QED
      BY <1>2, <1>3, <1>d, <1>e, <1>f, <2>1, <2>3, <2>4
         DEF kept, cpuVars, lifeVars, waitVars
  <1>9. CASE CheckLast(c)
    <2> DEFINE to == IF dead[c] \in exiting /\ threads[process[dead[c]]] = {} THEN "space_free" ELSE "destroy"
    <2>1. /\ pc[k] = "space" /\ Go(k, to)
          /\ UNCHANGED <<kept, state, waiting_on, runnable, exiting, cpu, lifeVars, waitVars, procVars>>
      BY <1>9 DEF CheckLast, At
    <2>2. to \in ServantPoints /\ (to = "space_free" => threads[process[dead[c]]] = {})
      BY <1>3
    <2> HIDE DEF to
    <2>3. QED
      BY <1>2, <1>c, <1>d, <1>e, <1>f, <2>1, <2>2
         DEF kept, cpuVars, lifeVars, waitVars, procVars
  <1>10. CASE DestroySpace(c)
    <2> DEFINE p == process[dead[c]]
    <2>1. /\ pc[k] = "space_free" /\ space' = space \ {p} /\ threads[p] = {}
          /\ Go(k, "space_null")
          /\ UNCHANGED <<kept, state, waiting_on, runnable, exiting, cpu, lifeVars, waitVars,
                         process, pstate, threads, parent, children, child>>
      BY <1>10 DEF DestroySpace, At, IInv, Emptied, EmptyOK
    <2>2. \A u \in Tasks : Live(u) => u \in threads'[process[u]] /\ process[u] \in space'
      BY <2>1, LiveThread
    <2>3. space' \subseteq Procs
      BY <1>d, <2>1
    <2>4. QED
      BY <1>2, <1>3, <1>d, <1>e, <1>f, <2>1, <2>2, <2>3
         DEF kept, cpuVars, lifeVars, waitVars
  <1>11. CASE ForgetSpace(c)
    BY <1>2, <1>3, <1>11, <1>c, <1>d, <1>e, <1>f
       DEF ForgetSpace, At, kept, cpuVars, lifeVars, waitVars, procVars
  <1>12. QED
    BY <1>1, <1>4, <1>5, <1>6, <1>7, <1>8, <1>9, <1>10, <1>11 DEF CleanupStep

-----------------------------------------------------------------------------
(* The code of the threads                                                 *)

(* Between two switches a thread runs, and has its process.                *)
LEMMA Running ==
    ASSUME IInv, NEW c \in Cpus, NEW t \in Tasks, Runs(c, t), pc[t] \notin {"exit_yield", "block_switch"}
    PROVE  /\ state[t] = "RUNNING" /\ process[t] \in Procs /\ t \in threads[process[t]]
           /\ process[t] \in space /\ pstate[process[t]] \in {"RUNNING", "ZOMBIE"}
  <1>1. state[t] = "RUNNING"
    BY DEF IInv, Placement, CpuOK, Runs
  <1>2. QED
    BY <1>1, LiveThread DEF Live

LEMMA RunningExists ==
    ASSUME IInv, NEW c \in Cpus, NEW t \in Tasks, Runs(c, t)
    PROVE  state[t] # "NONE"
  BY DEF IInv, Placement, CpuOK, Runs

(* Where a step of a thread leaves it.                                     *)
LEMMA WentTo ==
    ASSUME Types, NEW t \in Tasks, NEW to \in ThreadPoints, pc' = [pc EXCEPT ![t] = to]
    PROVE  /\ pc' \in [AllTasks -> ThreadPoints \cup ServantPoints]
           /\ \A u \in Tasks : pc'[u] \in ThreadPoints
           /\ pc'[t] = to /\ \A u \in AllTasks : u # t => pc'[u] = pc[u]
  BY Constants, TypesFacts

(* The CPU of a thread goes on with it, enters scheduler_switch or halts.  *)
LEMMA CpuWent ==
    ASSUME Types, NEW c \in Cpus, Runs(c, current[c]),
           \/ cpu' = cpu
           \/ cpu' = [cpu EXCEPT ![c] = "enter"]
           \/ cpu' = [cpu EXCEPT ![c] = "halted"]
    PROVE  /\ cpu' \in [Cpus -> CpuPoints]
           /\ \A d \in Cpus \ {c} : cpu'[d] = cpu[d]
           /\ (cpu'[c] = "run" /\ cpu' = cpu) \/ cpu'[c] \notin {"run", "ctx", "check", "commit"}
  <1>1. cpu \in [Cpus -> CpuPoints] /\ {"enter", "halted"} \subseteq CpuPoints /\ cpu[c] = "run"
    BY TypesFacts DEF CpuPoints, Runs
  <1>2. CASE cpu' = cpu
    BY <1>1, <1>2
  <1>3. CASE cpu' = [cpu EXCEPT ![c] = "enter"]
    BY <1>1, <1>3
  <1>4. CASE cpu' = [cpu EXCEPT ![c] = "halted"]
    BY <1>1, <1>4
  <1>5. QED
    BY <1>2, <1>3, <1>4

(* A step of a thread that leaves the dead tasks found, and the threads    *)
(* that processes count, to the cleanup tasks.                             *)
LEMMA CallEmptied ==
    ASSUME IInv, NEW t \in Tasks, UNCHANGED <<dead, process>>,
           \A u \in AllTasks \ {t} : pc'[u] = pc[u],
           \A p \in Procs : threads'[p] = threads[p]
    PROVE  Emptied'
  <1>1. \A d \in Cpus : pc'[Cleanup[d]] = pc[Cleanup[d]]
    BY Constants
  <1>2. QED
    BY <1>1, EmptyFrame DEF IInv

(* A step of a thread that touches neither its family nor other threads.   *)
LEMMA CallFrame ==
    ASSUME IInv, NEW c \in Cpus, NEW t \in Tasks, Runs(c, t),
           Types', ThreadOK(t)',
           UNCHANGED <<current, next, dead, runnable>>, UNCHANGED procVars,
           \A u \in AllTasks \ {t} : pc'[u] = pc[u],
           pc'[t] = pc[t] \/ pc'[t] \notin Holding,
           \A u \in Tasks \ {t} : state'[u] = state[u] /\ blocked'[u] = blocked[u],
           state[t] = "DEAD" => state'[t] = "DEAD",
           \A d \in Cpus \ {c} : cpu'[d] = cpu[d],
           \/ cpu'[c] \notin {"run", "ctx", "check", "commit"}
           \/ /\ cpu'[c] = "run"
              /\ \/ state'[t] = "RUNNING"
                 \/ state'[t] = "DEAD" /\ pc'[t] = "exit_yield"
                 \/ state'[t] \in {"BLOCKED", "READY"} /\ pc'[t] = "block_switch"
    PROVE  IInv'
  <1> USE Constants
  <1>1. UNCHANGED <<process, pstate, threads, parent, children, space, child>>
    BY DEF procVars
  <1>2. \A u \in Tasks : u # t => pc'[u] = pc[u]
    OBVIOUS
  <1>3. Known'
    BY <1>1, <1>2, FamilyFrame DEF IInv
  <1>a. Emptied'
    BY <1>1, CallEmptied DEF IInv
  <1>4. ASSUME NEW u \in Tasks PROVE ThreadOK(u)'
    <2>1. CASE u = t
      BY <2>1
    <2>2. CASE u # t
      <3>1. ThreadOK(u) /\ pc'[u] = pc[u] /\ state'[u] = state[u] /\ blocked'[u] = blocked[u]
        BY <1>2, <2>2 DEF IInv, Threads
      <3>2. QED
        BY <1>1, <3>1, ThreadFrame DEF Live
    <2>3. QED
      BY <2>1, <2>2
  <1>5. ThreadOK(t)' => state'[t] # "NONE"
    <2>1. state[t] # "NONE" /\ process'[t] = process[t]
      BY <1>1, RunningExists
    <2>2. QED
      BY <2>1 DEF IInv, Threads, ThreadOK
  <1>6. \A d \in Cpus : QueueOK(d)'
    <2> SUFFICES ASSUME NEW d \in Cpus PROVE QueueOK(d)'
      OBVIOUS
    <2>1. QueueOK(d) /\ runnable[d] \in Seq(Tasks) /\ runnable'[d] = runnable[d]
      BY DEF IInv, Placement, Types
    <2>2. ToSet(runnable[d]) \subseteq Tasks
      BY <2>1, SeqMembers
    <2>3. QED
      BY <2>1, <2>2, <1>5 DEF QueueOK
  <1>7. Placement'
    <2>1. \A u \in Tasks : state[u] # "NONE" => state'[u] # "NONE"
      BY <1>5
    <2>2. QED
      BY <1>6, <2>1, CallPlacement DEF IInv
  <1>8. QED
    BY <1>3, <1>a, <1>4, <1>7 DEF IInv, Threads

(* The steps of a thread that end in a switch or halt the CPU, and those   *)
(* that only move it on.                                                   *)
LEMMA MovesOn ==
    ASSUME IInv, NEW c \in Cpus, NEW t \in Tasks, Runs(c, t), NEW to \in ThreadPoints,
           \/ pc' = pc
           \/ /\ pc' = [pc EXCEPT ![t] = to] /\ to \notin Holding
              /\ to # "exit_ready" /\ (to = "exit_dequeue" => parent[process[t]] \in Procs),
           needs_cleanup' \in [Cpus -> BOOLEAN],
           UNCHANGED <<sleeping, state, runnable, current, next, dead, left, exiting, tasks, blocked>>,
           UNCHANGED procVars,
           waiting_on' \in [AllTasks -> Procs \cup {Null}],
           waiters' \in [Procs -> Seq(Tasks)],
           \/ cpu' = [cpu EXCEPT ![c] = "enter"]
           \/ cpu' = [cpu EXCEPT ![c] = "halted"]
           \/ cpu' = cpu /\ pc[t] \notin {"exit_yield", "block_switch"}
    PROVE  IInv'
  <1> USE Constants, TypesFacts
  <1>0. Types /\ state[t] # "NONE" /\ Runs(c, current[c]) /\ ThreadOK(t)
    BY RunningExists DEF IInv, Runs, Threads
  <1>1. /\ pc' \in [AllTasks -> ThreadPoints \cup ServantPoints]
        /\ \A u \in Tasks : pc'[u] \in ThreadPoints
        /\ \A u \in AllTasks : u # t => pc'[u] = pc[u]
        /\ \/ pc' = pc
           \/ /\ pc'[t] = to /\ to \notin Holding
              /\ to # "exit_ready" /\ (to = "exit_dequeue" => parent[process[t]] \in Procs)
    <2>1. CASE pc' = pc
      BY <1>0, <2>1
    <2>2. CASE pc' = [pc EXCEPT ![t] = to]
      BY <1>0, <2>2, WentTo
    <2>3. QED
      BY <2>1, <2>2
  <1>2. /\ cpu' \in [Cpus -> CpuPoints]
        /\ \A d \in Cpus \ {c} : cpu'[d] = cpu[d]
        /\ (cpu'[c] = "run" /\ cpu' = cpu) \/ cpu'[c] \notin {"run", "ctx", "check", "commit"}
    BY <1>0, CpuWent
  <1>3. Types'
    BY <1>0, <1>1, <1>2 DEF Types, TypeOK, procVars
  <1>4. ThreadOK(t)'
    BY <1>0, <1>1 DEF ThreadOK, Live, procVars
  <1>5. cpu'[c] \notin {"run", "ctx", "check", "commit"} \/ (cpu'[c] = "run" /\ state'[t] = "RUNNING")
    <2>1. CASE cpu'[c] \notin {"run", "ctx", "check", "commit"}
      BY <2>1
    <2>2. CASE cpu'[c] = "run" /\ cpu' = cpu
      <3>1. pc[t] \notin {"exit_yield", "block_switch"}
        BY <1>0, <2>2 DEF Runs
      <3>2. QED
        BY <2>2, <3>1, Running
    <2>3. QED
      BY <1>2, <2>1, <2>2
  <1>6. pc'[t] = pc[t] \/ pc'[t] \notin Holding
    BY <1>1
  <1>7. QED
    BY <1>0, <1>1, <1>2, <1>3, <1>4, <1>5, <1>6, CallFrame

(* The calls, or parts of calls, that leave other threads alone.           *)
LEMMA SimpleCallOK ==
    ASSUME IInv, NEW c \in Cpus, NEW t \in Tasks,
           \/ UserYield(c, t) \/ ForkFail(c, t) \/ ExitParent(c, t) \/ WaitEnqueue(c, t)
           \/ (ExitFlag(c, t, "exit_flag") \/ ExitYield(c, t)) /\ UNCHANGED <<waitVars, procVars>>
           \/ BlockSwitch(c, t, "wait_scan") /\ UNCHANGED <<lifeVars, procVars>>
    PROVE  IInv'
  <1> USE Constants, TypesFacts
  <1>0. Types /\ waiting_on \in [AllTasks -> Procs \cup {Null}] /\ waiters \in [Procs -> Seq(Tasks)]
        /\ needs_cleanup \in [Cpus -> BOOLEAN]
    BY DEF IInv, Types
  <1>a. \A to \in {"user", "wait_scan", "block", "exit_dequeue", "exit_dead", "gone"} :
            to \in ThreadPoints /\ to \notin Holding
    BY DEF ThreadPoints, ExitPoints, WaitPoints, Holding
  <1>b. \A p \in {"user", "exit_parent", "exit_flag", "exit_yield", "wait_enqueue", "block_switch"} : p \notin Holding
    BY DEF Holding
  <1>c. ASSUME NEW to, to \in {"user", "wait_scan", "block", "exit_dequeue", "exit_dead", "gone"},
               to = "exit_dequeue" => parent[process[t]] \in Procs,
               Runs(c, t), pc' = [pc EXCEPT ![t] = to],
               pc[t] \in {"user", "exit_parent", "exit_flag", "exit_yield", "wait_enqueue", "block_switch"},
               pc[t] \in {"exit_yield", "block_switch"} => cpu' # cpu,
               cpu' \in {cpu, [cpu EXCEPT ![c] = "enter"]},
               needs_cleanup' \in [Cpus -> BOOLEAN],
               UNCHANGED <<sleeping, state, runnable, current, next, dead, left, exiting, tasks, blocked>>,
               UNCHANGED procVars,
               waiting_on' \in [AllTasks -> Procs \cup {Null}], waiters' \in [Procs -> Seq(Tasks)]
        PROVE  IInv'
    <2>1. to \in ThreadPoints /\ to \notin Holding /\ pc[t] \notin Holding /\ to # "exit_ready"
      BY <1>c, <1>a, <1>b
    <2>2. QED
      BY <1>c, <2>1, MovesOn
  <1>d. Runs(c, t) => [cpu EXCEPT ![c] = "enter"] # cpu
    BY <1>0 DEF Runs
  <1>1. CASE UserYield(c, t)
    <2>1. /\ Runs(c, t) /\ pc[t] = "user" /\ pc' = [pc EXCEPT ![t] = "user"]
          /\ cpu' = [cpu EXCEPT ![c] = "enter"]
      BY <1>1 DEF UserYield, At, CallSwitch
    <2>2. QED
      BY <1>0, <1>1, <1>c, <2>1 DEF UserYield, kept, cpuVars, lifeVars, waitVars
  <1>2. CASE ForkFail(c, t)
    <2>1. Runs(c, t) /\ pc[t] = "user" /\ UNCHANGED <<pc, cpu>>
      BY <1>2 DEF ForkFail, At
    <2>2. QED
      BY <1>0, <1>2, <1>a, <2>1, MovesOn DEF ForkFail, kept, cpuVars, lifeVars, waitVars
  <1>3. CASE ExitParent(c, t)
    <2>1. /\ Runs(c, t) /\ pc[t] = "exit_parent"
          /\ UNCHANGED <<kept, state, waiting_on, runnable, exiting, lifeVars, waitVars, procVars>>
      BY <1>3 DEF ExitParent, At
    <2>2. CASE cpu' = [cpu EXCEPT ![c] = "halted"] /\ UNCHANGED pc
      BY <1>0, <1>a, <2>1, <2>2, MovesOn DEF kept, cpuVars, lifeVars, waitVars
    <2>3. CASE UNCHANGED <<cpu, pc>>
      BY <1>0, <1>a, <2>1, <2>3, MovesOn DEF kept, cpuVars, lifeVars, waitVars
    <2>4. CASE parent[process[t]] \in Procs /\ Go(t, "exit_dequeue") /\ UNCHANGED cpu
      <3>1. pc' = [pc EXCEPT ![t] = "exit_dequeue"]
        BY <2>4 DEF Go
      <3>2. QED
        BY <1>0, <1>c, <2>1, <2>4, <3>1 DEF kept, cpuVars, lifeVars, waitVars
    <2>5. QED
      BY <1>3, <2>2, <2>3, <2>4 DEF ExitParent, Panic
  <1>4. CASE WaitEnqueue(c, t)
    <2>1. /\ Runs(c, t) /\ pc[t] = "wait_enqueue" /\ Enqueue(process[t], t)
          /\ pc' = [pc EXCEPT ![t] = "block"]
          /\ UNCHANGED <<kept, state, runnable, exiting, cpu, faults, lifeVars, blocked, procVars>>
      BY <1>4 DEF WaitEnqueue, At, Go
    <2>2. process[t] \in Procs
      BY <2>1, Running
    <2>3. waiters[process[t]] \in Seq(Tasks) /\ Append(waiters[process[t]], t) \in Seq(Tasks)
      BY <1>0, <2>2, AppendQueue
    <2>4. waiters' \in [Procs -> Seq(Tasks)] /\ waiting_on' \in [AllTasks -> Procs \cup {Null}]
      BY <1>0, <2>1, <2>2, <2>3 DEF Enqueue
    <2>5. QED
      BY <1>0, <1>c, <2>1, <2>4 DEF kept, cpuVars, lifeVars
  <1>5. CASE ExitFlag(c, t, "exit_flag") /\ UNCHANGED <<waitVars, procVars>>
    <2>1. /\ Runs(c, t) /\ pc[t] = "exit_flag" /\ pc' = [pc EXCEPT ![t] = "exit_dead"]
          /\ needs_cleanup' \in [Cpus -> BOOLEAN]
      BY <1>0, <1>5 DEF ExitFlag, At, Go
    <2>2. QED
      BY <1>0, <1>5, <1>c, <2>1 DEF ExitFlag, taskVars, queueVars, lifeVars, waitVars
  <1>6. CASE ExitYield(c, t) /\ UNCHANGED <<waitVars, procVars>>
    <2>1. /\ Runs(c, t) /\ pc[t] = "exit_yield" /\ pc' = [pc EXCEPT ![t] = "gone"]
          /\ cpu' = [cpu EXCEPT ![c] = "enter"] /\ cpu' # cpu
      BY <1>6, <1>d DEF ExitYield, At, CallSwitch
    <2>2. QED
      BY <1>0, <1>6, <1>c, <2>1 DEF ExitYield, taskVars, queueVars, cpuVars, lifeVars, waitVars
  <1>7. CASE BlockSwitch(c, t, "wait_scan") /\ UNCHANGED <<lifeVars, procVars>>
    <2>1. /\ Runs(c, t) /\ pc[t] = "block_switch" /\ pc' = [pc EXCEPT ![t] = "wait_scan"]
          /\ cpu' = [cpu EXCEPT ![c] = "enter"] /\ cpu' # cpu
      BY <1>7, <1>d DEF BlockSwitch, At, CallSwitch
    <2>2. QED
      BY <1>0, <1>7, <1>c, <2>1 DEF BlockSwitch, taskVars, queueVars, cpuVars, lifeVars, waitVars
  <1>8. QED
    BY <1>1, <1>2, <1>3, <1>4, <1>5, <1>6, <1>7

(* task_exit marks the task dead.                                          *)
LEMMA ExitDeadOK ==
    ASSUME IInv, NEW c \in Cpus, NEW t \in Tasks, ExitDead(c, t), UNCHANGED <<waitVars, procVars>>
    PROVE  IInv'
  <1> USE Constants, TypesFacts
  <1>0. Types /\ ThreadOK(t)
    BY DEF IInv, Threads
  <1>1. /\ Runs(c, t) /\ pc[t] = "exit_dead" /\ state' = [state EXCEPT ![t] = "DEAD"]
        /\ pc' = [pc EXCEPT ![t] = "exit_yield"]
        /\ UNCHANGED <<waiting_on, sleeping, runnable, current, next, left, needs_cleanup, exiting, cpu, lifeVars>>
    BY DEF ExitDead, At, Go, queueVars, cpuVars
  <1>2. state[t] = "RUNNING"
    BY <1>1, Running
  <1>3. /\ pc' \in [AllTasks -> ThreadPoints \cup ServantPoints]
        /\ \A u \in Tasks : pc'[u] \in ThreadPoints
        /\ pc'[t] = "exit_yield" /\ \A u \in AllTasks : u # t => pc'[u] = pc[u]
    BY <1>0, <1>1, WentTo DEF ThreadPoints, ExitPoints
  <1>4. /\ state' \in [AllTasks -> {"NONE", "READY", "RUNNING", "BLOCKED", "DEAD"}]
        /\ state'[t] = "DEAD" /\ \A u \in AllTasks : u # t => state'[u] = state[u]
    BY <1>0, <1>1
  <1>5. Types'
    BY <1>0, <1>1, <1>3, <1>4 DEF Types, TypeOK, lifeVars, waitVars, procVars
  <1>6. ThreadOK(t)'
    BY <1>0, <1>2, <1>3, <1>4 DEF ThreadOK, Live, procVars
  <1>7. pc[t] \notin Holding /\ pc'[t] \notin Holding
    BY <1>1, <1>3 DEF Holding
  <1>8. cpu'[c] = "run"
    BY <1>1 DEF Runs
  <1>9. QED
    BY <1>0, <1>1, <1>2, <1>3, <1>4, <1>5, <1>6, <1>7, <1>8, CallFrame DEF lifeVars, waitVars

(* scheduler_block_current.                                                *)
LEMMA BlockCurrentOK ==
    ASSUME IInv, NEW c \in Cpus, NEW t \in Tasks, BlockCurrent(c, t), UNCHANGED <<lifeVars, procVars>>
    PROVE  IInv'
  <1> USE Constants, TypesFacts
  <1>0. Types /\ ThreadOK(t)
    BY DEF IInv, Threads
  <1>1. /\ Runs(c, t) /\ pc[t] = "block"
        /\ UNCHANGED <<waiting_on, sleeping, runnable, current, next, left, needs_cleanup, exiting, waitVars>>
    BY DEF BlockCurrent, At, queueVars, cpuVars
  <1>2. state[t] = "RUNNING"
    BY <1>1, Running
  <1>3. CASE cpu' = [cpu EXCEPT ![c] = "halted"] /\ UNCHANGED <<state, pc>>
    BY <1>0, <1>1, <1>3, MovesOn DEF lifeVars, waitVars, Types, ThreadPoints
  <1>4. CASE /\ state' = [state EXCEPT ![t] = "BLOCKED"] /\ pc' = [pc EXCEPT ![t] = "block_switch"]
             /\ UNCHANGED cpu
    <2>3. /\ pc' \in [AllTasks -> ThreadPoints \cup ServantPoints]
          /\ \A u \in Tasks : pc'[u] \in ThreadPoints
          /\ pc'[t] = "block_switch" /\ \A u \in AllTasks : u # t => pc'[u] = pc[u]
      BY <1>0, <1>4, WentTo DEF ThreadPoints, WaitPoints
    <2>4. /\ state' \in [AllTasks -> {"NONE", "READY", "RUNNING", "BLOCKED", "DEAD"}]
          /\ state'[t] = "BLOCKED" /\ \A u \in AllTasks : u # t => state'[u] = state[u]
      BY <1>0, <1>4
    <2>5. Types'
      BY <1>0, <1>1, <1>4, <2>3, <2>4 DEF Types, TypeOK, lifeVars, waitVars, procVars
    <2>6. ThreadOK(t)'
      BY <1>0, <1>2, <2>3, <2>4 DEF ThreadOK, Live, procVars
    <2>7. pc[t] \notin Holding /\ pc'[t] \notin Holding
      BY <1>1, <2>3 DEF Holding
    <2>8. cpu'[c] = "run"
      BY <1>1, <1>4 DEF Runs
    <2>9. QED
      BY <1>0, <1>1, <1>2, <1>4, <2>3, <2>4, <2>5, <2>6, <2>7, <2>8, CallFrame DEF lifeVars, waitVars
  <1>5. QED
    BY <1>3, <1>4 DEF BlockCurrent, Panic, Go

(* scheduler_wake_all takes a waiter out of the queue of the parent, ...   *)
LEMMA ExitDequeueOK ==
    ASSUME IInv, NEW c \in Cpus, NEW t \in Tasks, ExitDequeue(c, t)
    PROVE  IInv'
  <1> USE Constants, TypesFacts
  <1> DEFINE p == parent[process[t]]
             first == IF waiters[p] = <<>> THEN Null ELSE Head(waiters[p])
             to == IF waiters[p] = <<>> THEN "exit_flag" ELSE "exit_ready"
  <1>0. Types /\ ThreadOK(t) /\ blocked \in [Tasks -> Tasks \cup {Null}] /\ waiters \in [Procs -> Seq(Tasks)]
    BY DEF IInv, Threads, Types
  <1>1. /\ Runs(c, t) /\ pc[t] = "exit_dequeue" /\ pc' = [pc EXCEPT ![t] = to]
        /\ UNCHANGED <<sleeping, current, next, left, needs_cleanup, state, runnable, exiting, cpu, lifeVars, procVars>>
    BY DEF ExitDequeue, At, Go, kept, cpuVars
  <1>2. state[t] = "RUNNING" /\ p \in Procs
    BY <1>0, <1>1, Running DEF ThreadOK
  <1>3. waiters[p] \in Seq(Tasks)
    BY <1>0, <1>2
  <1>4. waiters[p] # <<>> => first \in Tasks /\ Tail(waiters[p]) \in Seq(Tasks)
    BY <1>3, TailQueue
  <1>5. /\ blocked' = [blocked EXCEPT ![t] = first]
        /\ waiters' = [waiters EXCEPT ![p] = IF first = Null THEN @ ELSE Tail(@)]
        /\ waiting_on' = IF first = Null THEN waiting_on ELSE [waiting_on EXCEPT ![first] = Null]
    BY DEF ExitDequeue, Dequeue
  <1>6. first \in Tasks \cup {Null} /\ (first # Null => waiters[p] # <<>>) /\ to \in ThreadPoints \ Holding
        /\ (to = "exit_ready" => first \in Tasks) /\ to \notin {"exit_dequeue"}
    BY <1>4 DEF ThreadPoints, ExitPoints, Holding
  <1> HIDE DEF first, to, p
  <1>7. /\ blocked' \in [Tasks -> Tasks \cup {Null}] /\ blocked'[t] = first
        /\ \A u \in Tasks \ {t} : blocked'[u] = blocked[u]
    BY <1>0, <1>5, <1>6
  <1>8. waiters' \in [Procs -> Seq(Tasks)]
    BY <1>0, <1>2, <1>3, <1>4, <1>5, <1>6
  <1>9. waiting_on' \in [AllTasks -> Procs \cup {Null}]
    BY <1>0, <1>5, <1>6
  <1>10. /\ pc' \in [AllTasks -> ThreadPoints \cup ServantPoints]
         /\ \A u \in Tasks : pc'[u] \in ThreadPoints
         /\ pc'[t] = to /\ \A u \in AllTasks : u # t => pc'[u] = pc[u]
    BY <1>0, <1>1, <1>6, WentTo
  <1>11. Types'
    BY <1>0, <1>1, <1>7, <1>8, <1>9, <1>10 DEF Types, TypeOK, lifeVars, procVars
  <1>12. ThreadOK(t)'
    BY <1>0, <1>1, <1>2, <1>6, <1>7, <1>10 DEF ThreadOK, Live, procVars, p
  <1>13. pc[t] \notin Holding /\ pc'[t] \notin Holding /\ cpu'[c] = "run"
    BY <1>1, <1>6, <1>10 DEF Holding, Runs
  <1>14. QED
    BY <1>0, <1>1, <1>2, <1>7, <1>10, <1>11, <1>12, <1>13, CallFrame DEF lifeVars

(* runqueue_enqueue on the CPU of the thread.                              *)
LEMMA Enqueued ==
    ASSUME Types, Placement, NEW u \in Tasks, RunqueueEnqueue(Home[u], u),
           state'[u] # "NONE", \A v \in Tasks : state[v] # "NONE" => state'[v] # "NONE"
    PROVE  runnable' \in [Cpus -> Seq(Tasks)] /\ \A d \in Cpus : QueueOK(d)'
  <1> USE Constants, TypesFacts
  <1> DEFINE h == Home[u]
  <1>1. h \in Cpus /\ runnable[h] \in Seq(Tasks) /\ runnable \in [Cpus -> Seq(Tasks)]
    OBVIOUS
  <1>2. /\ Append(runnable[h], u) \in Seq(Tasks)
        /\ \A x : x \in ToSet(Append(runnable[h], u)) <=> x \in ToSet(runnable[h]) \/ x = u
    BY <1>1, AppendQueue
  <1>3. runnable' = [runnable EXCEPT ![h] = Append(runnable[h], u)]
    BY <1>1 DEF RunqueueEnqueue
  <1>4. /\ runnable' \in [Cpus -> Seq(Tasks)]
        /\ \A d \in Cpus : runnable'[d] = IF d = h THEN Append(runnable[h], u) ELSE runnable[d]
    BY <1>1, <1>2, <1>3
  <1>5. ASSUME NEW d \in Cpus PROVE QueueOK(d)'
    <2>1. QueueOK(d) /\ ToSet(runnable[d]) \subseteq Tasks
      BY <1>1, SeqMembers DEF Placement
    <2>2. CASE d = h
      BY <2>1, <2>2, <1>2, <1>4 DEF QueueOK
    <2>3. CASE d # h
      BY <2>1, <2>3, <1>4 DEF QueueOK
    <2>4. QED
      BY <2>2, <2>3
  <1>6. QED
    BY <1>4, <1>5

(* ... and queues it to run.                                               *)
LEMMA ExitReadyOK ==
    ASSUME IInv, NEW c \in Cpus, NEW t \in Tasks, ExitReady(c, t)
    PROVE  IInv'
  <1> USE Constants, TypesFacts
  <1> DEFINE w == blocked[t]
  <1>0. Types /\ ThreadOK(t) /\ blocked \in [Tasks -> Tasks \cup {Null}]
    BY DEF IInv, Threads, Types
  <1>1. /\ Runs(c, t) /\ pc[t] = "exit_ready" /\ pc' = [pc EXCEPT ![t] = "exit_dequeue"]
        /\ blocked' = [blocked EXCEPT ![t] = Null]
        /\ UNCHANGED <<sleeping, current, next, left, needs_cleanup, waiting_on, exiting, lifeVars, waiters, procVars>>
    BY DEF ExitReady, At, Go, kept, cpuVars
  <1>2. state[t] = "RUNNING" /\ w \in Tasks /\ parent[process[t]] \in Procs
    BY <1>0, <1>1, Running DEF ThreadOK
  <1> HIDE DEF w
  <1>3. /\ blocked' \in [Tasks -> Tasks \cup {Null}] /\ \A u \in Tasks \ {t} : blocked'[u] = blocked[u]
    BY <1>0, <1>1
  <1>4. /\ pc' \in [AllTasks -> ThreadPoints \cup ServantPoints]
        /\ \A u \in Tasks : pc'[u] \in ThreadPoints
        /\ pc'[t] = "exit_dequeue" /\ \A u \in AllTasks : u # t => pc'[u] = pc[u]
    BY <1>0, <1>1, WentTo DEF ThreadPoints, ExitPoints
  <1>5. pc[t] \notin Holding /\ pc'[t] \notin Holding
    BY <1>1, <1>4 DEF Holding
  <1>6. ThreadOK(t)' \/ state'[t] # state[t]
    BY <1>0, <1>1, <1>2, <1>4 DEF ThreadOK, Live, procVars
  <1>7. CASE cpu' = [cpu EXCEPT ![c] = "halted"] /\ UNCHANGED <<state, runnable>>
    <2>1. /\ cpu' \in [Cpus -> CpuPoints] /\ cpu'[c] = "halted" /\ \A d \in Cpus \ {c} : cpu'[d] = cpu[d]
      BY <1>0, <1>7 DEF CpuPoints
    <2>2. Types'
      BY <1>0, <1>1, <1>3, <1>4, <1>7, <2>1 DEF Types, TypeOK, lifeVars, procVars
    <2>3. QED
      BY <1>0, <1>1, <1>3, <1>4, <1>5, <1>6, <1>7, <2>1, <2>2, CallFrame DEF lifeVars
  <1>8. CASE /\ state[w] = "BLOCKED" /\ state' = [state EXCEPT ![w] = "READY"]
             /\ RunqueueEnqueue(Home[w], w) /\ UNCHANGED cpu
    <2>1. /\ state' \in [AllTasks -> {"NONE", "READY", "RUNNING", "BLOCKED", "DEAD"}]
          /\ state'[w] = "READY" /\ \A u \in AllTasks : u # w => state'[u] = state[u]
      BY <1>0, <1>2, <1>8
    <2>2. w # t /\ state'[t] = "RUNNING"
      BY <1>2, <1>8, <2>1
    <2>3. runnable' \in [Cpus -> Seq(Tasks)] /\ \A d \in Cpus : QueueOK(d)'
      BY <1>2, <1>8, <2>1, Enqueued DEF IInv
    <2>4. Types'
      BY <1>0, <1>1, <1>3, <1>4, <1>8, <2>1, <2>3 DEF Types, TypeOK, lifeVars, procVars
    <2>5. Placement'
      <3>1. \A u \in Tasks \ {t} : \/ state'[u] = state[u]
                                   \/ state[u] = "BLOCKED" /\ state'[u] = "READY"
        BY <1>8, <2>1
      <3>2. cpu'[c] = "run" /\ UNCHANGED <<current, next, dead>>
        BY <1>1, <1>8 DEF Runs, lifeVars
      <3>3. \A u \in Tasks : state[u] # "NONE" => state'[u] # "NONE"
        BY <1>2, <2>2, <3>1
      <3>4. QED
        BY <1>0, <1>1, <1>2, <1>4, <1>8, <2>2, <2>3, <3>1, <3>2, <3>3, CallPlacement DEF IInv
    <2>6. ASSUME NEW u \in Tasks PROVE ThreadOK(u)'
      <3>1. CASE u = t
        BY <3>1, <1>2, <1>6, <2>2
      <3>2. CASE u # t
        <4>1. ThreadOK(u) /\ pc'[u] = pc[u] /\ blocked'[u] = blocked[u]
          BY <1>3, <1>4, <3>2 DEF IInv, Threads
        <4>2. (state'[u] = "NONE" <=> state[u] = "NONE") /\ (Live(u)' => Live(u))
          BY <1>8, <2>1 DEF Live
        <4>3. QED
          BY <1>1, <4>1, <4>2, ThreadFrame DEF procVars
      <3>3. QED
        BY <3>1, <3>2
    <2>7. Known'
      BY <1>1, <1>4, <1>5, FamilyFrame DEF IInv, procVars
    <2>8. Emptied'
      BY <1>1, <1>4, CallEmptied DEF lifeVars, procVars
    <2>9. QED
      BY <2>4, <2>5, <2>6, <2>7, <2>8 DEF IInv, Threads
  <1>9. QED
    BY <1>7, <1>8 DEF ExitReady, Wake, Panic, w

-----------------------------------------------------------------------------
(* The calls that create threads                                           *)

(* A thread u of process q is created and queued by thread t, which stays  *)
(* where it is or has created q too.                                       *)
LEMMA Created ==
    ASSUME IInv, NEW c \in Cpus, NEW t \in Tasks, Runs(c, t), pc[t] = "user",
           NEW u \in Tasks, state[u] = "NONE", NEW q \in Procs,
           EnqueueNew(u),
           process' = [process EXCEPT ![u] = q],
           threads' \in [Procs -> SUBSET Tasks], u \in threads'[q],
           \A p \in Procs, v \in Tasks : v \in threads[p] /\ v # u /\ state[v] # "NONE" /\ process[v] = p
                                           => v \in threads'[p],
           space' \subseteq Procs, space \subseteq space', q \in space',
           pstate' \in [Procs -> {"NONE", "RUNNING", "ZOMBIE", "FREED"}],
           \A p \in Procs : pstate'[p] = pstate[p] \/ pstate[p] = "NONE",
           pstate'[q] \in {"RUNNING", "ZOMBIE"},
           tasks' = Append(tasks, u),
           NEW to \in {"user", "fork_add"}, pc' = [pc EXCEPT ![t] = to],
           child' \in [Tasks -> Procs \cup {Null}],
           exiting' \subseteq Tasks,
           UNCHANGED <<sleeping, waiting_on, current, next, left, needs_cleanup, cpu, dead, waiters, blocked>>,
           UNCHANGED <<parent, children>>
    PROVE  Types' /\ Placement' /\ Threads'
  <1> USE Constants, TypesFacts
  <1>0. Types /\ ThreadOK(t) /\ tasks \in Seq(Tasks) /\ process \in [Tasks -> Procs \cup {Null}]
    BY DEF IInv, Threads, Types, TypeOK
  <1>1. state[t] = "RUNNING"
    BY Running
  <1>2. /\ state' \in [AllTasks -> {"NONE", "READY", "RUNNING", "BLOCKED", "DEAD"}]
        /\ state'[u] = "READY" /\ \A v \in AllTasks : v # u => state'[v] = state[v]
    BY <1>0 DEF EnqueueNew
  <1>3. runnable' \in [Cpus -> Seq(Tasks)] /\ \A d \in Cpus : QueueOK(d)'
    BY <1>2, Enqueued DEF IInv, EnqueueNew
  <1>4. to \in ThreadPoints
    BY DEF ThreadPoints
  <1>5. /\ pc' \in [AllTasks -> ThreadPoints \cup ServantPoints]
        /\ \A v \in Tasks : pc'[v] \in ThreadPoints
        /\ pc'[t] = to /\ \A v \in AllTasks : v # t => pc'[v] = pc[v]
    BY <1>0, <1>4, WentTo
  <1>6. tasks' \in Seq(Tasks)
    BY <1>0, AppendQueue
  <1>7. /\ process' \in [Tasks -> Procs \cup {Null}] /\ process'[u] = q
        /\ \A v \in Tasks \ {u} : process'[v] = process[v]
    BY <1>0
  <1>8. Types'
    BY <1>0, <1>2, <1>3, <1>5, <1>6, <1>7 DEF Types, TypeOK
  <1>9. Placement'
    <2>1. state'[t] = "RUNNING" /\ cpu'[c] = "run"
      BY <1>1, <1>2 DEF Runs
    <2>2. \A v \in Tasks \ {t} : state'[v] = state[v] \/ state[v] = "NONE"
      BY <1>2
    <2>3. QED
      <3>1. /\ Types /\ Placement /\ UNCHANGED <<current, next, dead>>
            /\ \A d \in Cpus : QueueOK(d)'
            /\ \A v \in AllTasks \ {t} : pc'[v] = pc[v]
            /\ \A d \in Cpus \ {c} : cpu'[d] = cpu[d]
            /\ state[t] # "DEAD"
            /\ \A v \in Tasks : state[v] # "NONE" => state'[v] # "NONE"
        BY <1>0, <1>1, <1>2, <1>3, <1>5 DEF IInv
      <3>2. \A v \in Tasks \ {t} : \/ state'[v] = state[v]
                                   \/ state[v] = "NONE"
                                   \/ state[v] = "BLOCKED" /\ state'[v] = "READY"
        BY <2>2
      <3>3. QED
        BY <2>1, <3>1, <3>2, CallPlacement, SMTT(30)
  <1>10. ASSUME NEW v \in Tasks PROVE ThreadOK(v)'
    <2>0. ThreadOK(v)
      BY DEF IInv, Threads
    <2>1. CASE v = u
      <3>1. u # t /\ pc'[u] = "user"
        BY <1>1, <1>5, <2>0, <2>1 DEF ThreadOK
      <3>2. QED
        BY <2>1, <3>1, <1>2, <1>7 DEF ThreadOK, Live
    <2>2. CASE v # u
      <3>1. state'[v] = state[v] /\ process'[v] = process[v] /\ blocked'[v] = blocked[v] /\ parent' = parent
        BY <1>2, <1>7, <2>2
      <3>2. pc'[v] = pc[v] \/ (v = t /\ state[v] = "RUNNING" /\ pc'[v] \in {"user", "fork_add"})
        BY <1>1, <1>5
      <3>3. Live(v) => /\ process[v] \in Procs /\ v \in threads[process[v]] /\ process[v] \in space
                       /\ pstate[process[v]] \in {"RUNNING", "ZOMBIE"}
        BY LiveThread
      <3>4. Live(v) => /\ v \in threads'[process[v]] /\ process[v] \in space'
                       /\ pstate'[process[v]] \in {"RUNNING", "ZOMBIE"}
        BY <2>2, <3>3 DEF Live
      <3>5. process[v] \in Procs => pstate'[process[v]] # "NONE"
        BY <2>0 DEF ThreadOK
      <3>6. QED
        BY <2>0, <3>1, <3>2, <3>4, <3>5 DEF ThreadOK, Live
    <2>3. QED
      BY <2>1, <2>2
  <1>11. QED
    BY <1>8, <1>9, <1>10 DEF Threads

LEMMA AddThreadOK ==
    ASSUME IInv, NEW c \in Cpus, NEW t \in Tasks, NEW u \in Tasks, AddThread(c, t, u)
    PROVE  IInv'
  <1> USE Constants, TypesFacts
  <1> DEFINE q == process[t]
  <1>0. Types /\ threads \in [Procs -> SUBSET Tasks] /\ space \subseteq Procs /\ pc \in [AllTasks -> ThreadPoints \cup ServantPoints]
        /\ pstate \in [Procs -> {"NONE", "RUNNING", "ZOMBIE", "FREED"}] /\ child \in [Tasks -> Procs \cup {Null}]
        /\ exiting \subseteq Tasks
    BY DEF IInv, Types, TypeOK
  <1>1. /\ Runs(c, t) /\ pc[t] = "user" /\ state[u] = "NONE" /\ EnqueueNew(u) /\ tasks' = Append(tasks, u)
        /\ process' = [process EXCEPT ![u] = q] /\ threads' = [threads EXCEPT ![q] = @ \cup {u}]
        /\ exiting' = IF t \in exiting THEN exiting \cup {u} ELSE exiting
        /\ UNCHANGED <<sleeping, current, next, left, needs_cleanup, waiting_on, cpu, pc, dead, waiters, blocked,
                       pstate, parent, children, space, child>>
    BY DEF AddThread, At, kept, cpuVars, waitVars
  <1>2. q \in Procs /\ q \in space /\ pstate[q] \in {"RUNNING", "ZOMBIE"}
    BY <1>1, Running
  <1>3. pc' = [pc EXCEPT ![t] = "user"]
    BY <1>0, <1>1
  <1>4. /\ threads' \in [Procs -> SUBSET Tasks] /\ u \in threads'[q]
        /\ \A p \in Procs, v \in Tasks : v \in threads[p] => v \in threads'[p]
    BY <1>0, <1>1, <1>2
  <1>5. exiting' \subseteq Tasks
    BY <1>0, <1>1
  <1>6. PICK to : to = "user"
    OBVIOUS
  <1> HIDE DEF q
  <1>7. Types' /\ Placement' /\ Threads'
    BY <1>0, <1>1, <1>2, <1>3, <1>4, <1>5, <1>6, Created
  <1>8. Known'
    BY <1>1, FamilyFrame DEF IInv
  <1>9. Emptied'
    <2>1. \A p \in Procs : p # q => threads'[p] = threads[p]
      BY <1>0, <1>1
    <2>2. t \in threads[q]
      BY <1>1, Running DEF q
    <2>3. \A v \in Tasks : state[v] # "NONE" => process'[v] = process[v]
      BY <1>0, <1>1 DEF Types, TypeOK
    <2>4. QED
      BY <1>1, <2>1, <2>2, <2>3, EmptyFrame DEF IInv
  <1>10. QED
    BY <1>7, <1>8, <1>9 DEF IInv

(* proc_manager_create_exec_from: nobody knows the new process but fork.   *)
LEMMA ForkCreateOK ==
    ASSUME IInv, NEW c \in Cpus, NEW t \in Tasks, NEW q \in Procs, NEW u \in Tasks, ForkCreate(c, t, q, u)
    PROVE  IInv'
  <1> USE Constants, TypesFacts
  <1>0. /\ Types /\ threads \in [Procs -> SUBSET Tasks] /\ space \subseteq Procs
        /\ pstate \in [Procs -> {"NONE", "RUNNING", "ZOMBIE", "FREED"}] /\ child \in [Tasks -> Procs \cup {Null}]
        /\ exiting \subseteq Tasks /\ process \in [Tasks -> Procs \cup {Null}] /\ children \in [Procs -> Seq(Procs)]
    BY DEF IInv, Types, TypeOK
  <1>1. /\ Runs(c, t) /\ pc[t] = "user" /\ state[u] = "NONE" /\ pstate[q] = "NONE"
        /\ pstate' = [pstate EXCEPT ![q] = "RUNNING"] /\ process' = [process EXCEPT ![u] = q]
        /\ threads' = [threads EXCEPT ![q] = {u}] /\ space' = space \cup {q} /\ tasks' = Append(tasks, u)
        /\ EnqueueNew(u) /\ child' = [child EXCEPT ![t] = q] /\ pc' = [pc EXCEPT ![t] = "fork_add"]
        /\ UNCHANGED <<sleeping, current, next, left, needs_cleanup, waiting_on, exiting, cpu, dead, waiters, blocked>>
        /\ UNCHANGED <<parent, children>>
    BY DEF ForkCreate, At, Go, kept, cpuVars, waitVars
  <1>2. /\ pstate' \in [Procs -> {"NONE", "RUNNING", "ZOMBIE", "FREED"}] /\ pstate'[q] = "RUNNING"
        /\ \A p \in Procs : p # q => pstate'[p] = pstate[p]
    BY <1>0, <1>1
  <1>3. /\ child' \in [Tasks -> Procs \cup {Null}] /\ child'[t] = q
        /\ \A v \in Tasks : v # t => child'[v] = child[v]
    BY <1>0, <1>1
  <1>4. \A v \in Tasks : process[v] = q => state[v] = "NONE"
    BY <1>1 DEF IInv, Threads, ThreadOK
  <1>5. /\ threads' \in [Procs -> SUBSET Tasks] /\ u \in threads'[q]
        /\ \A p \in Procs, v \in Tasks : v \in threads[p] /\ v # u /\ state[v] # "NONE" /\ process[v] = p
                                           => v \in threads'[p]
    BY <1>0, <1>1, <1>4
  <1>6. Types' /\ Placement' /\ Threads'
    <2>1. PICK to : to = "fork_add"
      OBVIOUS
    <2>2. space' \subseteq Procs /\ space \subseteq space' /\ q \in space'
      BY <1>0, <1>1
    <2>3. to \in {"user", "fork_add"} /\ pc' = [pc EXCEPT ![t] = to] /\ exiting' \subseteq Tasks
      BY <1>0, <1>1, <2>1
    <2>4. /\ \A p \in Procs : pstate'[p] = pstate[p] \/ pstate[p] = "NONE"
          /\ pstate'[q] \in {"RUNNING", "ZOMBIE"}
      BY <1>1, <1>2
    <2>5. /\ Runs(c, t) /\ pc[t] = "user" /\ state[u] = "NONE" /\ EnqueueNew(u)
          /\ process' = [process EXCEPT ![u] = q] /\ tasks' = Append(tasks, u)
          /\ UNCHANGED <<sleeping, waiting_on, current, next, left, needs_cleanup, cpu, dead, waiters, blocked>>
          /\ UNCHANGED <<parent, children>>
      BY <1>1
    <2>6. pstate' \in [Procs -> {"NONE", "RUNNING", "ZOMBIE", "FREED"}] /\ child' \in [Tasks -> Procs \cup {Null}]
      BY <1>2, <1>3
    <2> HIDE Constants, TypesFacts
    <2>7. QED
      BY <1>5, <2>2, <2>3, <2>4, <2>5, <2>6, Created, Zenon
  <1>7. pc'[t] = "fork_add" /\ \A v \in Tasks : v # t => pc'[v] = pc[v]
    BY <1>0, <1>1, WentTo DEF ThreadPoints
  <1>8. u # t /\ pc[u] = "user" /\ process'[u] = q /\ \A v \in Tasks : v # u => process'[v] = process[v]
    <2>1. state[t] # "NONE"
      BY <1>1, RunningExists
    <2>2. pc[u] = "user"
      BY <1>1 DEF IInv, Threads, ThreadOK
    <2>3. QED
      BY <1>0, <1>1, <2>1, <2>2
  <1>9. Known'
    <2>1. \A p \in Procs : pstate[p] # "NONE" => pstate'[p] # "NONE"
      BY <1>1, <1>2
    <2>2. \A v \in Tasks : pc'[v] \in Holding =>
              \/ pc[v] \in Holding /\ child'[v] = child[v]
              \/ child'[v] \in Procs /\ pstate'[child'[v]] # "NONE"
      BY <1>2, <1>3, <1>7
    <2>3. QED
      BY <1>1, <2>1, <2>2, KnownFrame DEF IInv
  <1>10. Emptied'
    <2>1. \A v \in Tasks : state[v] # "NONE" => process'[v] = process[v]
      BY <1>1, <1>8
    <2>2. \A p \in Procs : pstate[p] # "NONE" => threads'[p] = threads[p]
      BY <1>0, <1>1
    <2>3. \A d \in Cpus : pc'[Cleanup[d]] = pc[Cleanup[d]]
      BY <1>0, <1>1, WentTo DEF ThreadPoints
    <2>4. QED
      BY <1>1, <2>1, <2>2, <2>3, EmptyFrame DEF IInv
  <1>11. QED
    BY <1>6, <1>9, <1>10 DEF IInv

-----------------------------------------------------------------------------
(* The calls that work on the family                                       *)

(* A thread works on the family, on the state of its process, or frees a   *)
(* process that no thread of it needs any more.                            *)
LEMMA FamilyStep ==
    ASSUME IInv, NEW c \in Cpus, NEW t \in Tasks, Runs(c, t), pc[t] \notin {"exit_yield", "block_switch"},
           NEW to \in ThreadPoints \ {"exit_dequeue", "exit_ready"}, pc' = [pc EXCEPT ![t] = to],
           cpu' = cpu \/ cpu' = [cpu EXCEPT ![c] = "enter"],
           UNCHANGED <<sleeping, waiting_on, state, runnable, current, next, left, needs_cleanup>>,
           UNCHANGED <<lifeVars, waitVars, process, threads>>,
           exiting' \subseteq Tasks, space' \subseteq Procs,
           children' \in [Procs -> Seq(Procs)],
           child' \in [Tasks -> Procs \cup {Null}], \A u \in Tasks \ {t} : child'[u] = child[u],
           parent' \in [Procs -> Procs \cup {Wild}],
           pstate' \in [Procs -> {"NONE", "RUNNING", "ZOMBIE", "FREED"}],
           \A p \in Procs : parent'[p] = parent[p] \/ parent'[p] \in Procs,
           \A p \in Procs : pstate[p] # "NONE" => pstate'[p] # "NONE",
           \A u \in Tasks : Live(u) =>
              process[u] \in space' /\ pstate'[process[u]] \in {"RUNNING", "ZOMBIE"},
           \A p \in Procs : \A q \in ToSet(children'[p]) :
              q \in ToSet(children[p]) \/ pstate'[q] # "NONE",
           to \in Holding => child'[t] \in Procs /\ pstate'[child'[t]] # "NONE"
    PROVE  IInv'
  <1> USE Constants, TypesFacts
  <1>0. Types /\ Runs(c, current[c]) /\ process \in [Tasks -> Procs \cup {Null}]
    BY DEF IInv, Runs, Types, TypeOK
  <1>1. state[t] = "RUNNING"
    BY Running
  <1>2. /\ pc' \in [AllTasks -> ThreadPoints \cup ServantPoints]
        /\ \A u \in Tasks : pc'[u] \in ThreadPoints
        /\ pc'[t] = to /\ \A u \in AllTasks : u # t => pc'[u] = pc[u]
    BY <1>0, WentTo
  <1>3. /\ cpu' \in [Cpus -> CpuPoints]
        /\ \A d \in Cpus \ {c} : cpu'[d] = cpu[d]
        /\ cpu'[c] = "run" \/ cpu'[c] \notin {"run", "ctx", "check", "commit"}
    BY <1>0, CpuWent
  <1>4. \A p \in Procs : children'[p] \in Seq(Procs)
    OBVIOUS
  <1>5. Types'
    BY <1>0, <1>2, <1>3, <1>4 DEF Types, TypeOK, lifeVars, waitVars
  <1>6. Placement'
    <2>1. \A d \in Cpus : QueueOK(d)'
      BY DEF IInv, Placement, QueueOK
    <2>2. QED
      BY <1>0, <1>1, <1>2, <1>3, <2>1, CallPlacement DEF IInv, lifeVars
  <1>7. ASSUME NEW u \in Tasks PROVE ThreadOK(u)'
    <2>1. ThreadOK(u) /\ blocked' = blocked
      BY DEF IInv, Threads, waitVars
    <2>2. u = t \/ pc'[u] = pc[u]
      BY <1>2
    <2>3. parent[process[u]] \in Procs /\ process[u] \in Procs => parent'[process[u]] \in Procs
      OBVIOUS
    <2>4. pc[u] \in {"exit_dequeue", "exit_ready"} => process[u] \in Procs
      BY <1>0, <2>1 DEF ThreadOK
    <2>5. UNCHANGED <<state, process, threads>>
      OBVIOUS
    <2>6. Live(u) => process[u] \in space' /\ pstate'[process[u]] \in {"RUNNING", "ZOMBIE"}
      OBVIOUS
    <2>7. QED
      BY <1>1, <1>2, <2>1, <2>2, <2>3, <2>4, <2>5, <2>6 DEF ThreadOK, Live
  <1>8. Known'
    BY <1>2, KnownFrame DEF IInv
  <1>9. Emptied'
    BY <1>2, CallEmptied DEF lifeVars
  <1>10. QED
    BY <1>5, <1>6, <1>7, <1>8, <1>9 DEF IInv, Threads

(* The steps of FamilyStep that leave processes as they are, and change a  *)
(* list, a parent or the local variable of a call.                         *)
LEMMA ListStep ==
    ASSUME IInv, NEW c \in Cpus, NEW t \in Tasks, Runs(c, t), pc[t] \notin {"exit_yield", "block_switch"},
           NEW to \in ThreadPoints \ {"exit_dequeue", "exit_ready"}, pc' = [pc EXCEPT ![t] = to],
           cpu' = cpu \/ cpu' = [cpu EXCEPT ![c] = "enter"],
           UNCHANGED <<kept, state, waiting_on, runnable, exiting, lifeVars, waitVars,
                       process, threads, space, pstate>>,
           children' \in [Procs -> Seq(Procs)],
           child' \in [Tasks -> Procs \cup {Null}], \A u \in Tasks \ {t} : child'[u] = child[u],
           parent' \in [Procs -> Procs \cup {Wild}],
           \A p \in Procs : parent'[p] = parent[p] \/ parent'[p] \in Procs,
           \A p \in Procs : \A q \in ToSet(children'[p]) :
              q \in ToSet(children[p]) \/ pstate[q] # "NONE",
           to \in Holding => child'[t] \in Procs /\ pstate[child'[t]] # "NONE"
    PROVE  IInv'
  <1>1. UNCHANGED <<sleeping, waiting_on, state, runnable, current, next, left, needs_cleanup>>
    BY DEF kept, cpuVars
  <1>2. /\ exiting' \subseteq Tasks /\ space' \subseteq Procs
        /\ pstate' \in [Procs -> {"NONE", "RUNNING", "ZOMBIE", "FREED"}]
    BY DEF IInv, Types, TypeOK
  <1>3. \A u \in Tasks : Live(u) =>
          process[u] \in space' /\ pstate'[process[u]] \in {"RUNNING", "ZOMBIE"}
    BY LiveThread
  <1>4. QED
    BY <1>1, <1>2, <1>3, FamilyStep

(* The process a call works on, and the lists it works on.                 *)
LEMMA Held ==
    ASSUME IInv, NEW t \in Tasks
    PROVE  /\ children \in [Procs -> Seq(Procs)] /\ child \in [Tasks -> Procs \cup {Null}]
           /\ parent \in [Procs -> Procs \cup {Wild}]
           /\ pstate \in [Procs -> {"NONE", "RUNNING", "ZOMBIE", "FREED"}]
           /\ \A p \in Procs : \A q \in ToSet(children[p]) : q \in Procs /\ pstate[q] # "NONE"
           /\ pc[t] \in Holding => child[t] \in Procs /\ pstate[child[t]] # "NONE"
  <1>1. /\ children \in [Procs -> Seq(Procs)] /\ child \in [Tasks -> Procs \cup {Null}]
        /\ parent \in [Procs -> Procs \cup {Wild}]
        /\ pstate \in [Procs -> {"NONE", "RUNNING", "ZOMBIE", "FREED"}]
    BY DEF IInv, Types, TypeOK
  <1>2. QED
    BY <1>1, ProcMembers DEF IInv, Known, HolderOK

(* Points of a call that are not those of the end of a thread.             *)
LEMMA CallPoints ==
    /\ {"user", "fork_add", "fork_parent", "wait_scan", "wait_look", "wait_remove", "wait_copy",
        "wait_destroy", "wait_enqueue", "exit_state", "exit_parent"}
            \subseteq ThreadPoints \ {"exit_dequeue", "exit_ready", "exit_yield", "block_switch"}
    /\ Holding \subseteq ThreadPoints \ {"exit_dequeue", "exit_ready", "exit_yield", "block_switch"}
    /\ {"user", "wait_enqueue", "exit_state", "exit_parent"} \cap Holding = {}
  BY DEF ThreadPoints, ExitPoints, WaitPoints, Holding

(* process_add_child.                                                      *)
LEMMA ForkAddOK ==
    ASSUME IInv, NEW c \in Cpus, NEW t \in Tasks, ForkAdd(c, t)
    PROVE  IInv'
  <1> DEFINE p == process[t]
             q == child[t]
  <1>1. /\ Runs(c, t) /\ pc[t] = "fork_add" /\ pc' = [pc EXCEPT ![t] = "fork_parent"]
        /\ children' = [children EXCEPT ![p] = Append(@, q)]
        /\ UNCHANGED <<kept, state, waiting_on, runnable, exiting, cpu, lifeVars, waitVars,
                       process, pstate, threads, parent, space, child>>
    BY DEF ForkAdd, At, Go
  <1>2. p \in Procs
    BY <1>1, Running
  <1>3. q \in Procs /\ pstate[q] # "NONE" /\ "fork_parent" \in Holding
    BY <1>1, Held DEF Holding
  <1> HIDE DEF p, q
  <1>4. children[p] \in Seq(Procs)
    BY <1>2, Held
  <1>5. /\ Append(children[p], q) \in Seq(Procs)
        /\ \A x : x \in ToSet(Append(children[p], q)) <=> x \in ToSet(children[p]) \/ x = q
    BY <1>3, <1>4, AppendQueue
  <1>6. /\ children' \in [Procs -> Seq(Procs)]
        /\ \A r \in Procs : \A x \in ToSet(children'[r]) : x \in ToSet(children[r]) \/ pstate[x] # "NONE"
    BY <1>1, <1>2, <1>3, <1>5, Held
  <1>7. child'[t] \in Procs /\ pstate[child'[t]] # "NONE"
    BY <1>1, <1>3 DEF q
  <1>8. PICK to : to = "fork_parent"
    OBVIOUS
  <1>9. QED
    BY <1>1, <1>6, <1>7, <1>8, Held, CallPoints, ListStep

(* process_set_parent, with which fork ends.                               *)
LEMMA ForkParentOK ==
    ASSUME IInv, NEW c \in Cpus, NEW t \in Tasks, ForkParent(c, t)
    PROVE  IInv'
  <1>1. /\ Runs(c, t) /\ pc[t] = "fork_parent" /\ pc' = [pc EXCEPT ![t] = "user"]
        /\ cpu' = [cpu EXCEPT ![c] = "enter"]
        /\ parent' = [parent EXCEPT ![child[t]] = process[t]]
        /\ child' = [child EXCEPT ![t] = Null]
        /\ UNCHANGED <<kept, state, waiting_on, runnable, exiting, lifeVars, waitVars,
                       process, pstate, threads, children, space>>
    BY DEF ForkParent, At, CallSwitch
  <1>2. process[t] \in Procs
    BY <1>1, Running
  <1>3. /\ parent' \in [Procs -> Procs \cup {Wild}]
        /\ \A p \in Procs : parent'[p] = parent[p] \/ parent'[p] \in Procs
    BY <1>1, <1>2, Held
  <1>4. /\ child' \in [Tasks -> Procs \cup {Null}] /\ \A u \in Tasks \ {t} : child'[u] = child[u]
        /\ children' \in [Procs -> Seq(Procs)]
        /\ \A p \in Procs : \A q \in ToSet(children'[p]) : q \in ToSet(children[p])
    BY <1>1, Held
  <1>5. PICK to : to = "user"
    OBVIOUS
  <1>6. QED
    BY <1>1, <1>3, <1>4, <1>5, CallPoints, ListStep

(* The process is exiting, ...                                             *)
LEMMA ExitBeginOK ==
    ASSUME IInv, NEW c \in Cpus, NEW t \in Tasks, ExitBegin(c, t)
    PROVE  IInv'
  <1>1. /\ Runs(c, t) /\ pc[t] = "user" /\ pc' = [pc EXCEPT ![t] = "exit_state"]
        /\ exiting' = exiting \cup {u \in Tasks : process[u] = process[t]}
        /\ UNCHANGED <<sleeping, waiting_on, state, runnable, current, next, left, needs_cleanup, cpu>>
        /\ UNCHANGED <<lifeVars, waitVars, process, threads, parent, children, space, child, pstate>>
    BY DEF ExitBegin, At, Go, kept, cpuVars, procVars
  <1>2. exiting' \subseteq Tasks /\ space' \subseteq Procs
    BY <1>1 DEF IInv, Types, TypeOK
  <1>3. \A u \in Tasks : Live(u) =>
          process[u] \in space' /\ pstate'[process[u]] \in {"RUNNING", "ZOMBIE"}
    BY <1>1, LiveThread
  <1>4. PICK to : to = "exit_state"
    OBVIOUS
  <1>5. QED
    BY <1>1, <1>2, <1>3, <1>4, Held, CallPoints, FamilyStep

(* ... and a zombie.                                                       *)
LEMMA ExitZombieOK ==
    ASSUME IInv, NEW c \in Cpus, NEW t \in Tasks, ExitZombie(c, t)
    PROVE  IInv'
  <1> DEFINE p == process[t]
  <1>1. /\ Runs(c, t) /\ pc[t] = "exit_state" /\ pc' = [pc EXCEPT ![t] = "exit_parent"]
        /\ pstate' = [pstate EXCEPT ![p] = "ZOMBIE"]
        /\ UNCHANGED <<sleeping, waiting_on, state, runnable, current, next, left, needs_cleanup, cpu>>
        /\ UNCHANGED <<lifeVars, waitVars, process, threads, parent, children, space, child, exiting>>
    BY DEF ExitZombie, At, Go, kept, cpuVars
  <1>2. p \in Procs
    BY <1>1, Running
  <1> HIDE DEF p
  <1>3. /\ pstate' \in [Procs -> {"NONE", "RUNNING", "ZOMBIE", "FREED"}]
        /\ \A r \in Procs : pstate'[r] = pstate[r] \/ pstate'[r] = "ZOMBIE"
    BY <1>1, <1>2, Held
  <1>4. exiting' \subseteq Tasks /\ space' \subseteq Procs
    BY <1>1 DEF IInv, Types, TypeOK
  <1>5. \A u \in Tasks : Live(u) =>
          process[u] \in space' /\ pstate'[process[u]] \in {"RUNNING", "ZOMBIE"}
    BY <1>1, <1>3, LiveThread
  <1>6. PICK to : to = "exit_parent"
    OBVIOUS
  <1>7. QED
    BY <1>1, <1>3, <1>4, <1>5, <1>6, Held, CallPoints, FamilyStep

(* The scan of the children begins.                                        *)
LEMMA WaitScanOK ==
    ASSUME IInv, NEW c \in Cpus, NEW t \in Tasks, WaitScan(c, t)
    PROVE  IInv'
  <1> DEFINE list == children[process[t]]
             q == IF list = <<>> THEN Null ELSE Head(list)
             to == IF list = <<>> THEN "user" ELSE "wait_look"
  <1>1. /\ Runs(c, t) /\ pc[t] \in {"user", "wait_scan"} /\ pc' = [pc EXCEPT ![t] = to]
        /\ child' = [child EXCEPT ![t] = q]
        /\ UNCHANGED <<kept, state, waiting_on, runnable, exiting, cpu, lifeVars, waitVars,
                       process, pstate, threads, parent, children, space>>
    BY DEF WaitScan, At, Go
  <1>2. process[t] \in Procs
    BY <1>1, Running
  <1>3. list \in Seq(Procs) /\ \A x \in ToSet(list) : x \in Procs /\ pstate[x] # "NONE"
    BY <1>2, Held
  <1>4. list # <<>> => q \in Procs /\ pstate[q] # "NONE"
    BY <1>3, TailQueue
  <1>5. to \in {"user", "wait_look"} /\ (to \in Holding => q \in Procs /\ pstate[q] # "NONE")
        /\ q \in Procs \cup {Null}
    BY <1>4, CallPoints
  <1> HIDE DEF q, to
  <1>6. /\ child' \in [Tasks -> Procs \cup {Null}] /\ \A u \in Tasks \ {t} : child'[u] = child[u]
        /\ child'[t] = q
    BY <1>1, <1>5, Held
  <1>7. QED
    BY <1>1, <1>5, <1>6, Held, CallPoints, ListStep

(* The link of a child leads to a child.                                   *)
LEMMA NextIsChild ==
    ASSUME NEW list \in Seq(Procs), NEW q
    PROVE  NextChild(list, q) = Null \/ NextChild(list, q) \in ToSet(list)
  <1>1. DOMAIN list = 1..Len(list) /\ Len(list) \in Nat
    BY LenProperties
  <1>2. PICK i : i = CHOOSE k \in DOMAIN list : list[k] = q
    OBVIOUS
  <1>3. ASSUME Contains(list, q), i < Len(list) PROVE list[i + 1] \in ToSet(list)
    <2>1. i \in 1..Len(list)
      BY <1>1, <1>2, <1>3 DEF Contains
    <2>2. i + 1 \in DOMAIN list
      BY <1>1, <1>3, <2>1
    <2>3. QED
      BY <2>2 DEF ToSet
  <1>4. QED
    BY <1>2, <1>3 DEF NextChild

(* The scan looks at a child.                                              *)
LEMMA WaitLookOK ==
    ASSUME IInv, NEW c \in Cpus, NEW t \in Tasks, WaitLook(c, t)
    PROVE  IInv'
  <1> DEFINE list == children[process[t]]
             q == child[t]
             after == NextChild(list, q)
             to == IF after = Null THEN "wait_enqueue" ELSE "wait_look"
  <1>1. /\ Runs(c, t) /\ pc[t] = "wait_look"
        /\ UNCHANGED <<kept, state, waiting_on, runnable, exiting, cpu, lifeVars, waitVars,
                       process, pstate, threads, parent, children, space>>
    BY DEF WaitLook, At
  <1>2. process[t] \in Procs /\ q \in Procs /\ pstate[q] # "NONE"
    BY <1>1, Running, Held DEF Holding
  <1>3. list \in Seq(Procs) /\ \A x \in ToSet(list) : x \in Procs /\ pstate[x] # "NONE"
    BY <1>2, Held
  <1>4. after # Null => after \in Procs /\ pstate[after] # "NONE"
    BY <1>3, NextIsChild
  <1>5. to \in {"wait_enqueue", "wait_look"} /\ (to \in Holding => after \in Procs /\ pstate[after] # "NONE")
        /\ after \in Procs \cup {Null}
    BY <1>4, CallPoints
  <1>6. \/ UNCHANGED <<pc, child>>
        \/ pc' = [pc EXCEPT ![t] = "wait_remove"] /\ UNCHANGED child
        \/ pc' = [pc EXCEPT ![t] = to] /\ child' = [child EXCEPT ![t] = after]
    BY DEF WaitLook, Go
  <1> HIDE DEF after, to
  <1>7. CASE UNCHANGED <<pc, child>>
    <2>1. pc' = [pc EXCEPT ![t] = "wait_look"]
      BY <1>1, <1>7, Constants, TypesFacts DEF IInv
    <2>2. PICK at : at = "wait_look"
      OBVIOUS
    <2>3. QED
      BY <1>1, <1>2, <1>7, <2>1, <2>2, Held, CallPoints, ListStep
  <1>8. CASE pc' = [pc EXCEPT ![t] = "wait_remove"] /\ UNCHANGED child
    <2>1. PICK at : at = "wait_remove"
      OBVIOUS
    <2>2. QED
      BY <1>1, <1>2, <1>8, <2>1, Held, CallPoints, ListStep
  <1>9. CASE pc' = [pc EXCEPT ![t] = to] /\ child' = [child EXCEPT ![t] = after]
    <2>1. /\ child' \in [Tasks -> Procs \cup {Null}] /\ \A u \in Tasks \ {t} : child'[u] = child[u]
          /\ child'[t] = after
      BY <1>5, <1>9, Held
    <2>2. QED
      BY <1>1, <1>5, <1>9, <2>1, Held, CallPoints, ListStep
  <1>10. QED
    BY <1>6, <1>7, <1>8, <1>9

(* process_remove_child.                                                   *)
LEMMA WaitRemoveOK ==
    ASSUME IInv, NEW c \in Cpus, NEW t \in Tasks, WaitRemove(c, t)
    PROVE  IInv'
  <1> DEFINE p == process[t]
             q == child[t]
  <1>1. /\ Runs(c, t) /\ pc[t] = "wait_remove"
        /\ UNCHANGED <<kept, state, waiting_on, runnable, exiting, cpu, lifeVars, waitVars,
                       process, pstate, threads, parent, space, child>>
    BY DEF WaitRemove, At
  <1>2. p \in Procs /\ q \in Procs /\ pstate[q] # "NONE"
    BY <1>1, Running, Held DEF Holding
  <1>3. \/ UNCHANGED <<pc, children>>
        \/ pc' = [pc EXCEPT ![t] = "wait_copy"] /\ children' = [children EXCEPT ![p] = Unlink(@, q)]
    BY DEF WaitRemove, Go
  <1>4. child'[t] \in Procs /\ pstate[child'[t]] # "NONE"
    BY <1>1, <1>2
  <1> HIDE DEF p, q
  <1>5. CASE UNCHANGED <<pc, children>>
    <2>1. pc' = [pc EXCEPT ![t] = "wait_remove"]
      BY <1>1, <1>5, Constants, TypesFacts DEF IInv
    <2>2. PICK at : at = "wait_remove"
      OBVIOUS
    <2>3. QED
      BY <1>1, <1>4, <1>5, <2>1, <2>2, Held, CallPoints, ListStep
  <1>6. CASE pc' = [pc EXCEPT ![t] = "wait_copy"] /\ children' = [children EXCEPT ![p] = Unlink(@, q)]
    <2>1. children[p] \in Seq(Procs)
      BY <1>2, Held
    <2>2. Unlink(children[p], q) \in Seq(Procs) /\ ToSet(Unlink(children[p], q)) \subseteq ToSet(children[p])
      BY <2>1, UnlinkType
    <2>3. /\ children' \in [Procs -> Seq(Procs)]
          /\ \A r \in Procs : \A x \in ToSet(children'[r]) : x \in ToSet(children[r])
      BY <1>2, <1>6, <2>2, Held
    <2>4. PICK at : at = "wait_copy"
      OBVIOUS
    <2>5. QED
      BY <1>1, <1>4, <1>6, <2>3, <2>4, Held, CallPoints, ListStep
  <1>7. QED
    BY <1>3, <1>5, <1>6

(* The status of the child is copied to the caller.                        *)
LEMMA WaitCopyOK ==
    ASSUME IInv, NEW c \in Cpus, NEW t \in Tasks, WaitCopy(c, t)
    PROVE  IInv'
  <1>1. /\ Runs(c, t) /\ pc[t] = "wait_copy"
        /\ UNCHANGED <<kept, state, waiting_on, runnable, exiting, cpu, lifeVars, waitVars,
                       process, pstate, threads, parent, children, space>>
    BY DEF WaitCopy, At
  <1>2. child[t] \in Procs /\ pstate[child[t]] # "NONE"
    BY <1>1, Held DEF Holding
  <1>3. CASE pc' = [pc EXCEPT ![t] = "wait_destroy"] /\ UNCHANGED child
    <2>1. PICK at : at = "wait_destroy"
      OBVIOUS
    <2>2. QED
      BY <1>1, <1>2, <1>3, <2>1, Held, CallPoints, ListStep
  <1>4. CASE pc' = [pc EXCEPT ![t] = "user"] /\ child' = [child EXCEPT ![t] = Null]
    <2>1. child' \in [Tasks -> Procs \cup {Null}] /\ \A u \in Tasks \ {t} : child'[u] = child[u]
      BY <1>4, Held
    <2>2. PICK at : at = "user"
      OBVIOUS
    <2>3. QED
      BY <1>1, <1>4, <2>1, <2>2, Held, CallPoints, ListStep
  <1>5. QED
    BY <1>3, <1>4 DEF WaitCopy, Go

(* proc_manager_remove_destroy.                                            *)
LEMMA WaitDestroyOK ==
    ASSUME IInv, NEW c \in Cpus, NEW t \in Tasks, WaitDestroy(c, t)
    PROVE  IInv'
  <1> DEFINE q == child[t]
  <1>0. /\ waiting_on \in [AllTasks -> Procs \cup {Null}] /\ waiters \in [Procs -> Seq(Tasks)]
        /\ needs_cleanup \in [Cpus -> BOOLEAN] /\ exiting \subseteq Tasks /\ space \subseteq Procs
    BY DEF IInv, Types, TypeOK
  <1>1. /\ Runs(c, t) /\ pc[t] = "wait_destroy"
        /\ UNCHANGED <<sleeping, waiting_on, state, runnable, exiting, current, next, left, needs_cleanup>>
        /\ UNCHANGED <<lifeVars, waitVars, process, threads, parent, children>>
    BY DEF WaitDestroy, At, kept, cpuVars
  <1>2. q \in Procs
    BY <1>1, Held DEF Holding
  <1>3. CASE cpu' \in {cpu, [cpu EXCEPT ![c] = "halted"]} /\ UNCHANGED <<pstate, space, child, pc>>
    BY <1>0, <1>1, <1>3, MovesOn DEF lifeVars, waitVars, procVars, ThreadPoints
  <1>4. CASE /\ threads[q] = {}
             /\ pstate' = [pstate EXCEPT ![q] = "FREED"] /\ space' = space \ {q}
             /\ child' = [child EXCEPT ![t] = Null] /\ pc' = [pc EXCEPT ![t] = "user"]
             /\ UNCHANGED cpu
    <2> HIDE DEF q
    <2>1. /\ pstate' \in [Procs -> {"NONE", "RUNNING", "ZOMBIE", "FREED"}]
          /\ \A r \in Procs : pstate'[r] = IF r = q THEN "FREED" ELSE pstate[r]
      BY <1>4, <1>2, Held
    <2>2. child' \in [Tasks -> Procs \cup {Null}] /\ \A u \in Tasks \ {t} : child'[u] = child[u]
      BY <1>4, Held
    <2>3. \A u \in Tasks : Live(u) =>
            process[u] \in space' /\ pstate'[process[u]] \in {"RUNNING", "ZOMBIE"}
      BY <1>4, <2>1, LiveThread
    <2>4. PICK at : at = "user"
      OBVIOUS
    <2>5. space' \subseteq Procs /\ \A p \in Procs : pstate[p] # "NONE" => pstate'[p] # "NONE"
      BY <1>0, <1>4, <2>1
    <2>6. QED
      BY <1>0, <1>1, <1>4, <2>1, <2>2, <2>3, <2>4, <2>5, Held, CallPoints, FamilyStep
  <1>5. QED
    BY <1>3, <1>4 DEF WaitDestroy, Panic, Go

-----------------------------------------------------------------------------
(* The theorems                                                            *)

LEMMA ProcessInit == Init => IInv
  <1> SUFFICES ASSUME Init PROVE IInv
    OBVIOUS
  <1> USE Constants
  <1>1. /\ state = [t \in AllTasks |-> IF t \in Tasks \ {First} THEN "NONE" ELSE "READY"]
        /\ waiting_on = [t \in AllTasks |-> Null]
        /\ sleeping = [c \in Cpus |-> <<>>]
        /\ current = [c \in Cpus |-> Null]
        /\ needs_cleanup = [c \in Cpus |-> FALSE]
        /\ next = [c \in Cpus |-> Null]
        /\ left = [c \in Cpus |-> Null]
        /\ exiting = {}
        /\ cpu = [c \in Cpus |-> "boot"]
    BY DEF Init, SchedInit
  <1>2. /\ waiters = [q \in Procs |-> <<>>] /\ blocked = [t \in Tasks |-> Null]
        /\ tasks = <<First>> /\ dead = [c \in Cpus |-> Null]
    BY DEF Init, WaitInit, ManagerInit
  <1>3. /\ process = [t \in Tasks |-> IF t = First THEN Root ELSE Null]
        /\ pstate = [p \in Procs |-> IF p = Root THEN "RUNNING" ELSE "NONE"]
        /\ threads = [p \in Procs |-> IF p = Root THEN {First} ELSE {}]
        /\ children = [p \in Procs |-> <<>>]
        /\ space = {Root}
        /\ child = [t \in Tasks |-> Null]
        /\ parent = [p \in Procs |-> Wild]
    BY DEF Init
  <1>4. pc = [t \in AllTasks |-> IF t \in Tasks THEN "user"
                                 ELSE IF \E c \in Cpus : t = Idle[c] THEN "idle" ELSE "find"]
    BY DEF Init
  <1>5. \A c \in Cpus : runnable[c] \in Seq(Tasks) /\ ToSet(runnable[c]) = {t \in {First} : Home[t] = c}
    <2> SUFFICES ASSUME NEW c \in Cpus
                 PROVE  runnable[c] \in Seq(Tasks) /\ ToSet(runnable[c]) = {t \in {First} : Home[t] = c}
      OBVIOUS
    <2>1. runnable \in [Cpus -> UNION {SetToSeqs({t \in {First} : Home[t] = d}) : d \in Cpus}]
          /\ ToSet(runnable[c]) = {t \in {First} : Home[t] = c}
      BY DEF Init, SchedInit
    <2>2. PICK d \in Cpus : runnable[c] \in SetToSeqs({t \in {First} : Home[t] = d})
      BY <2>1
    <2>3. {t \in {First} : Home[t] = d} \subseteq {First} /\ IsFiniteSet({First})
      BY FS_Singleton
    <2>4. IsFiniteSet({t \in {First} : Home[t] = d})
      BY <2>3, FS_Subset
    <2>5. runnable[c] \in Seq({t \in {First} : Home[t] = d})
      BY <2>2, <2>4, QueueOfSet
    <2>6. runnable[c] \in Seq(Tasks)
      BY <2>5, SeqMonotonic
    <2>7. QED
      BY <2>1, <2>6
  <1>6. runnable \in [Cpus -> Seq(Tasks)]
    <2>1. runnable \in [Cpus -> UNION {SetToSeqs({t \in {First} : Home[t] = d}) : d \in Cpus}]
      BY DEF Init, SchedInit
    <2>2. QED
      BY <2>1, <1>5
  <1>7. Types
    <2>1. pc \in [AllTasks -> ThreadPoints \cup ServantPoints] /\ \A t \in Tasks : pc[t] \in ThreadPoints
      BY <1>4 DEF ThreadPoints, ServantPoints
    <2>2. state \in [AllTasks -> {"NONE", "READY", "RUNNING", "BLOCKED", "DEAD"}]
      BY <1>1
    <2>3. cpu \in [Cpus -> CpuPoints]
      BY <1>1 DEF CpuPoints
    <2>4. children \in [Procs -> Seq(Procs)] /\ waiters \in [Procs -> Seq(Tasks)] /\ tasks \in Seq(Tasks)
      BY <1>2, <1>3, EmptySeq
    <2>5. TypeOK
      BY <1>1, <1>3, <2>2, <2>4 DEF TypeOK
    <2>6. QED
      BY <1>1, <1>2, <1>3, <1>6, <2>1, <2>2, <2>3, <2>4, <2>5 DEF Types
  <1>8. Placement
    <2> SUFFICES ASSUME NEW c \in Cpus PROVE CpuOK(c) /\ QueueOK(c) /\ CleanupOK(c)
      BY DEF Placement
    <2>1. CpuOK(c)
      BY <1>1 DEF CpuOK
    <2>2. QueueOK(c)
      <3> SUFFICES ASSUME NEW t \in ToSet(runnable[c]) PROVE Home[t] = c /\ state[t] # "NONE"
        BY DEF QueueOK
      <3>1. t = First /\ Home[t] = c
        BY <1>5
      <3>2. QED
        BY <1>1, <3>1
    <2>3. CleanupOK(c)
      BY <1>4 DEF CleanupOK, ReapPoints
    <2>4. QED
      BY <2>1, <2>2, <2>3
  <1>9. Threads
    BY <1>1, <1>3, <1>4 DEF Threads, ThreadOK, Live
  <1>10. Known
    <2>1. pstate[Root] # "NONE" /\ \A p \in Procs : \A q \in ToSet(children[p]) : pstate[q] # "NONE"
      BY <1>3, EmptyQueue
    <2>2. \A t \in Tasks : HolderOK(t)
      BY <1>4 DEF HolderOK, Holding
    <2>3. QED
      BY <2>1, <2>2 DEF Known
  <1>11. Emptied
    BY <1>4 DEF Emptied, EmptyOK
  <1>12. QED
    BY <1>7, <1>8, <1>9, <1>10, <1>11 DEF IInv

(* Nothing happens.                                                        *)
LEMMA Stutter == IInv /\ UNCHANGED vars => IInv'
  <1> SUFFICES ASSUME IInv, UNCHANGED vars PROVE IInv'
    OBVIOUS
  <1>1. UNCHANGED <<state, waiting_on, runnable, sleeping, current, needs_cleanup, next, left, exiting, cpu, pc>>
    BY DEF vars, schedVars, taskVars, queueVars, cpuVars
  <1>2. UNCHANGED <<tasks, dead, waiters, blocked, process, pstate, threads, parent, children, space, child>>
    BY DEF vars, lifeVars, waitVars, procVars
  <1>3. Types'
    BY <1>1, <1>2 DEF IInv, Types, TypeOK
  <1>4. Placement'
    BY <1>1, <1>2 DEF IInv, Placement, CpuOK, QueueOK, CleanupOK
  <1>5. Threads'
    BY <1>1, <1>2 DEF IInv, Threads, ThreadOK, Live
  <1>6. Known'
    BY <1>1, <1>2, FamilyFrame DEF IInv
  <1>7. Emptied'
    BY <1>1, <1>2, EmptyFrame DEF IInv
  <1>8. QED
    BY <1>3, <1>4, <1>5, <1>6, <1>7 DEF IInv

LEMMA ProcessStep == IInv /\ [Next]_vars => IInv'
  <1> SUFFICES ASSUME IInv, [Next]_vars PROVE IInv'
    OBVIOUS
  <1>1. ASSUME NEW c \in Cpus, SchedStep(c) PROVE IInv'
    BY <1>1, SchedStepOK
  <1>2. ASSUME NEW c \in Cpus, CleanupStep(c) PROVE IInv'
    BY <1>2, CleanupStepOK
  <1>3. ASSUME NEW c \in Cpus, NEW t \in Tasks, InCall(c, t) PROVE IInv'
    <2>1. CASE ForkAdd(c, t)
      BY <2>1, ForkAddOK
    <2>2. CASE ForkParent(c, t)
      BY <2>2, ForkParentOK
    <2>3. CASE ExitDequeue(c, t)
      BY <2>3, ExitDequeueOK
    <2>4. CASE ExitReady(c, t)
      BY <2>4, ExitReadyOK
    <2>5. CASE ExitDead(c, t) /\ UNCHANGED <<waitVars, procVars>>
      BY <2>5, ExitDeadOK
    <2>6. CASE WaitScan(c, t)
      BY <2>6, WaitScanOK
    <2>7. CASE WaitCopy(c, t)
      BY <2>7, WaitCopyOK
    <2>8. CASE WaitDestroy(c, t)
      BY <2>8, WaitDestroyOK
    <2>9. CASE BlockCurrent(c, t) /\ UNCHANGED <<lifeVars, procVars>>
      BY <2>9, BlockCurrentOK
    <2>10. CASE \/ ExitParent(c, t) \/ WaitEnqueue(c, t)
                \/ (ExitFlag(c, t, "exit_flag") \/ ExitYield(c, t)) /\ UNCHANGED <<waitVars, procVars>>
                \/ BlockSwitch(c, t, "wait_scan") /\ UNCHANGED <<lifeVars, procVars>>
      BY <2>10, SimpleCallOK
    <2>11. CASE ExitZombie(c, t)
      BY <2>11, ExitZombieOK
    <2>12. CASE WaitLook(c, t)
      BY <2>12, WaitLookOK
    <2>13. CASE WaitRemove(c, t)
      BY <2>13, WaitRemoveOK
    <2>14. QED
      BY <1>3, <2>1, <2>2, <2>3, <2>4, <2>5, <2>6, <2>7, <2>8, <2>9, <2>10, <2>11, <2>12, <2>13 DEF InCall
  <1>4. ASSUME NEW c \in Cpus, NEW t \in Tasks, Call(c, t) PROVE IInv'
    <2>1. CASE UserYield(c, t) \/ ForkFail(c, t)
      BY <2>1, SimpleCallOK
    <2>2. CASE ExitBegin(c, t)
      BY <2>2, ExitBeginOK
    <2>3. CASE WaitScan(c, t)
      BY <2>3, WaitScanOK
    <2>4. ASSUME NEW q \in Procs, NEW u \in Tasks, ForkCreate(c, t, q, u) PROVE IInv'
      BY <2>4, ForkCreateOK
    <2>5. ASSUME NEW u \in Tasks, AddThread(c, t, u) PROVE IInv'
      BY <2>5, AddThreadOK
    <2>6. QED
      BY <1>4, <2>1, <2>2, <2>3, <2>4, <2>5 DEF Call
  <1>5. CASE UNCHANGED vars
    BY <1>5, Stutter
  <1>6. QED
    BY <1>1, <1>2, <1>3, <1>4, <1>5 DEF Next

(* The invariant of processes, threads and family holds in every state.     *)
THEOREM ProcessIsInv == Spec => []IInv
  BY ProcessInit, ProcessStep, PTL DEF Spec

(* A thread never outlives what it runs in, for every number of CPUs and   *)
(* threads per process: fork, exit, wait4 and the cleanup tasks            *)
(* (proc_manager_remove_destroy, task_cleanup) take the process and its    *)
(* address space away only when no thread of it can run again.             *)
THEOREM ThreadsKeepTheirProcess == Spec => []ThreadsHaveProcess
  <1>1. IInv => ThreadsHaveProcess
    <2> SUFFICES ASSUME IInv PROVE ThreadsHaveProcess
      OBVIOUS
    <2>1. TypeOK
      BY DEF IInv, Types
    <2>2. SpaceWhileThreads
      BY LiveThread DEF SpaceWhileThreads, Live
    <2>3. FreedHasNoThreads
      <3> SUFFICES ASSUME NEW t \in Tasks, process[t] \in Procs, pstate[process[t]] = "FREED"
                   PROVE  state[t] = "DEAD"
        BY DEF FreedHasNoThreads
      <3>1. ~Live(t)
        BY LiveThread
      <3>2. state[t] # "NONE"
        BY Constants DEF IInv, Threads, ThreadOK
      <3>3. state[t] \in {"NONE", "READY", "RUNNING", "BLOCKED", "DEAD"}
        BY <2>1, Constants DEF TypeOK
      <3>4. QED
        BY <3>1, <3>2, <3>3 DEF Live
    <2>4. QED
      BY <2>1, <2>2, <2>3 DEF ThreadsHaveProcess
  <1>2. QED
    BY <1>1, ProcessIsInv, PTL

-----------------------------------------------------------------------------
(* The family                                                              *)

\* The points of a call that has taken a process for itself, and of a call
\* that works on a process of the list of children of its own process.
Taking == {"fork_add", "wait_copy", "wait_destroy"}
Beside == {"fork_parent", "wait_look", "wait_remove"}

\* Of a list of children: every process is in one of them, once, and knows, or
\* is about to learn, whose it is.
ListOK(p) ==
    /\ IsInjective(children[p])
    /\ \A q \in ToSet(children[p]) :
        /\ pstate[q] \in {"RUNNING", "ZOMBIE"}
        /\ \A r \in Procs : q \in ToSet(children[r]) => r = p
        /\ parent[q] = p \/ \E t \in Tasks : pc[t] = "fork_parent" /\ child[t] = q /\ process[t] = p

\* Of a call of fork or wait4: what it has taken is in no list and taken by
\* nobody else.
TakenOK(t) ==
    /\ pc[t] \in Taking =>
        /\ pstate[child[t]] \in {"RUNNING", "ZOMBIE"}
        /\ \A p \in Procs : child[t] \notin ToSet(children[p])
        /\ \A u \in Tasks : pc[u] \in Taking /\ child[u] = child[t] => u = t
    /\ pc[t] \in {"wait_copy", "wait_destroy"} =>
        pstate[child[t]] = "ZOMBIE" /\ parent[child[t]] = process[t]
    /\ pc[t] \in Beside => child[t] \in ToSet(children[process[t]])
    /\ pc[t] = "wait_remove" => pstate[child[t]] = "ZOMBIE"

\* Somebody takes care of q.
CaredFor(q) ==
    \/ \E p \in Procs : q \in ToSet(children[p])
    \/ \E t \in Tasks : pc[t] \in Taking /\ child[t] = q
    \/ MayFail /\ pstate[q] = "ZOMBIE"

\* The invariant of the family, which holds while no process has had a second
\* thread: the scan of wait4 and its removal are not one critical section.
FInv ==
    /\ \A p \in Procs : ListOK(p)
    /\ \A t \in Tasks : TakenOK(t)
    /\ \A q \in Procs \ {Root} : pstate[q] \in {"RUNNING", "ZOMBIE"} => CaredFor(q)

LEMMA FamilyPoints ==
    /\ Taking \subseteq Holding /\ Beside \subseteq Holding /\ Taking \cap Beside = {}
    /\ Holding = Taking \cup Beside
    /\ "fork_parent" \in Beside
  BY DEF Taking, Beside, Holding

(* Steps that leave the family alone, and the calls that work on it.       *)
LEMMA FInvFrame ==
    ASSUME FInv, UNCHANGED <<children, parent, child, pstate>>,
           \A t \in Tasks : /\ pc'[t] = pc[t] \/ (pc[t] \notin Holding /\ pc'[t] \notin Holding)
                            /\ pc[t] \in Holding => process'[t] = process[t]
    PROVE  FInv'
  <1> USE FamilyPoints
  <1>1. \A t \in Tasks : \A point \in Holding : pc'[t] = point <=> pc[t] = point
    OBVIOUS
  <1>2. ASSUME NEW p \in Procs PROVE ListOK(p)'
    <2>1. ListOK(p)
      BY DEF FInv
    <2>2. ASSUME NEW q, NEW t \in Tasks, pc[t] = "fork_parent", child[t] = q, process[t] = p
          PROVE  pc'[t] = "fork_parent" /\ child'[t] = q /\ process'[t] = p
      BY <2>2
    <2>3. QED
      BY <2>1, <2>2 DEF ListOK
  <1>3. ASSUME NEW t \in Tasks PROVE TakenOK(t)'
    <2>1. TakenOK(t)
      BY DEF FInv
    <2>2. \A u \in Tasks : pc'[u] \in Taking <=> pc[u] \in Taking
      OBVIOUS
    <2>3. pc'[t] \in Beside => pc[t] = pc'[t] /\ process'[t] = process[t]
      OBVIOUS
    <2>4. pc'[t] \in Taking => pc[t] = pc'[t] /\ process'[t] = process[t]
      OBVIOUS
    <2>5. QED
      BY <2>1, <2>2, <2>3, <2>4 DEF TakenOK, Taking, Beside
  <1>4. ASSUME NEW q \in Procs \ {Root}, pstate'[q] \in {"RUNNING", "ZOMBIE"} PROVE CaredFor(q)'
    <2>1. CaredFor(q)
      BY <1>4 DEF FInv
    <2>2. \A u \in Tasks : pc'[u] \in Taking <=> pc[u] \in Taking
      OBVIOUS
    <2>3. QED
      BY <2>1, <2>2 DEF CaredFor
  <1>5. QED
    BY <1>2, <1>3, <1>4 DEF FInv

(* The task of a call, and where a step of it leads.                       *)
LEMMA Moved ==
    ASSUME IInv, NEW t \in Tasks, NEW to, Go(t, to)
    PROVE  pc'[t] = to /\ \A u \in AllTasks : u # t => pc'[u] = pc[u]
  BY Constants, TypesFacts DEF IInv, Go

(* The steps of the scheduler and of the cleanup tasks.                    *)
LEMMA FamilySched ==
    ASSUME IInv, FInv, NEW c \in Cpus, SchedStep(c) \/ CleanupStep(c)
    PROVE  FInv'
  <1> USE Constants, TypesFacts
  <1>0. Types
    BY DEF IInv
  <1>1. \A t \in Tasks : t # Idle[c] /\ t # Cleanup[c]
    OBVIOUS
  <1>2. pc \in [AllTasks -> ThreadPoints \cup ServantPoints]
    BY <1>0
  <1>3. ASSUME NEW to, Go(Cleanup[c], to) PROVE \A t \in Tasks : pc'[t] = pc[t]
    BY <1>1, <1>2, <1>3 DEF Go
  <1>4. CASE SchedStep(c)
    <2>1. UNCHANGED <<children, parent, child, pstate, process>>
      BY <1>4 DEF SchedStep, procVars
    <2>2. \A t \in Tasks : pc'[t] = pc[t]
      <3>1. CASE IdleYield(c)
        BY <1>1, <1>2, <3>1 DEF IdleYield, CallSwitch
      <3>2. CASE UNCHANGED pc
        BY <3>2
      <3>3. SchedStep(c) => IdleYield(c) \/ UNCHANGED pc
        BY DEF SchedStep, SwitchOrFault, SwitchSpace, SwitchStep, TimerStep, TimerIrq, BootSwitch,
               SwitchEnter, PickCleanup, PickIdle, PickFirst, Pick, CheckLive, CheckExiting, SwitchTo,
               ContextSwitch, BootContextSwitch
      <3>4. QED
        BY <1>4, <3>1, <3>2, <3>3
    <2>3. QED
      BY <2>1, <2>2, FInvFrame
  <1>5. CASE CleanupStep(c)
    <2>1. UNCHANGED <<children, parent, child, pstate, process>>
      BY <1>5 DEF CleanupStep, Detach, CheckLast, DestroySpace, ForgetSpace, procVars
    <2>2. \A t \in Tasks : pc'[t] = pc[t]
      <3>1. CASE CleanupYield(c)
        BY <1>1, <1>2, <3>1 DEF CleanupYield, CallSwitch
      <3>2. CASE FindDead(c)
        BY <1>3, <3>2 DEF FindDead
      <3>3. CASE ClearCleanup(c)
        BY <1>3, <3>3 DEF ClearCleanup
      <3>4. CASE RemoveDead(c, "detach")
        BY <1>3, <3>4 DEF RemoveDead
      <3>5. CASE DestroyDead(c)
        BY <1>3, <3>5 DEF DestroyDead
      <3>6. CASE Detach(c)
        BY <1>3, <3>6 DEF Detach
      <3>7. CASE CheckLast(c)
        BY <1>3, <3>7 DEF CheckLast
      <3>8. CASE DestroySpace(c)
        BY <1>3, <3>8 DEF DestroySpace
      <3>9. CASE ForgetSpace(c)
        BY <1>3, <3>9 DEF ForgetSpace
      <3>10. QED
        BY <1>5, <3>1, <3>2, <3>3, <3>4, <3>5, <3>6, <3>7, <3>8, <3>9 DEF CleanupStep
    <2>3. QED
      BY <2>1, <2>2, FInvFrame
  <1>6. QED
    BY <1>4, <1>5

(* The calls, or parts of calls, that leave the family alone.              *)
LEMMA FamilySimple ==
    ASSUME IInv, FInv, NEW c \in Cpus, NEW t \in Tasks,
           \/ UserYield(c, t) \/ ForkFail(c, t) \/ ExitBegin(c, t)
           \/ ExitParent(c, t) \/ ExitDequeue(c, t) \/ ExitReady(c, t) \/ WaitEnqueue(c, t)
           \/ (ExitFlag(c, t, "exit_flag") \/ ExitDead(c, t) \/ ExitYield(c, t)) /\ UNCHANGED procVars
           \/ (BlockCurrent(c, t) \/ BlockSwitch(c, t, "wait_scan")) /\ UNCHANGED procVars
    PROVE  FInv'
  <1>1. UNCHANGED <<children, parent, child, pstate, process>>
    BY DEF UserYield, ForkFail, ExitBegin, ExitParent, ExitDequeue, ExitReady, WaitEnqueue, procVars
  <1>2. /\ pc[t] \in {"user", "exit_parent", "exit_dequeue", "exit_ready", "wait_enqueue", "exit_flag",
                      "exit_dead", "exit_yield", "block", "block_switch"}
        /\ \/ UNCHANGED pc
           \/ \E to \in {"user", "exit_state", "exit_dequeue", "exit_ready", "exit_flag", "block",
                         "exit_dead", "exit_yield", "gone", "block_switch", "wait_scan"} : Go(t, to)
    BY DEF UserYield, ForkFail, ExitBegin, ExitParent, ExitDequeue, ExitReady, WaitEnqueue, ExitFlag,
           ExitDead, ExitYield, BlockCurrent, BlockSwitch, At, CallSwitch, Go
  <1>3. \A u \in Tasks : pc'[u] = pc[u] \/ (pc[u] \notin Holding /\ pc'[u] \notin Holding)
    <2>1. CASE UNCHANGED pc
      BY <2>1
    <2>2. ASSUME NEW to \in {"user", "exit_state", "exit_dequeue", "exit_ready", "exit_flag", "block",
                             "exit_dead", "exit_yield", "gone", "block_switch", "wait_scan"}, Go(t, to)
          PROVE  \A u \in Tasks : pc'[u] = pc[u] \/ (pc[u] \notin Holding /\ pc'[u] \notin Holding)
      <3>1. pc'[t] = to /\ \A u \in Tasks : u # t => pc'[u] = pc[u]
        BY <2>2, Moved, Constants
      <3>2. QED
        BY <1>2, <3>1 DEF Holding
    <2>3. QED
      BY <1>2, <2>1, <2>2
  <1>4. QED
    BY <1>1, <1>3, FInvFrame

(* A thread is created, of a process that is new or not.                   *)
LEMMA FamilyAddThread ==
    ASSUME IInv, FInv, NEW c \in Cpus, NEW t \in Tasks, NEW u \in Tasks, AddThread(c, t, u)
    PROVE  FInv'
  <1>1. /\ state[u] = "NONE" /\ process' = [process EXCEPT ![u] = process[t]]
        /\ UNCHANGED <<children, parent, child, pstate, pc>>
    BY DEF AddThread
  <1>2. pc[u] \notin Holding /\ process \in [Tasks -> Procs \cup {Null}]
    BY <1>1 DEF IInv, Threads, ThreadOK, Types, TypeOK, Holding
  <1>3. \A v \in Tasks : pc[v] \in Holding => process'[v] = process[v]
    BY <1>1, <1>2
  <1>4. QED
    BY <1>1, <1>3, FInvFrame

(* proc_manager_create_exec_from: nobody knows the new process but fork.   *)
LEMMA FamilyForkCreate ==
    ASSUME IInv, FInv, NEW c \in Cpus, NEW t \in Tasks, NEW q \in Procs, NEW u \in Tasks,
           ForkCreate(c, t, q, u)
    PROVE  FInv'
  <1> USE FamilyPoints
  <1>1. /\ pc[t] = "user" /\ pstate[q] = "NONE" /\ state[u] = "NONE"
        /\ pstate' = [pstate EXCEPT ![q] = "RUNNING"] /\ process' = [process EXCEPT ![u] = q]
        /\ child' = [child EXCEPT ![t] = q] /\ Go(t, "fork_add")
        /\ UNCHANGED <<parent, children>>
    BY DEF ForkCreate, At
  <1>2. pstate'[q] = "RUNNING" /\ \A p \in Procs : p # q => pstate'[p] = pstate[p]
    BY <1>1, Held
  <1>3. child'[t] = q /\ \A v \in Tasks : v # t => child'[v] = child[v]
    BY <1>1, Held
  <1>4. pc'[t] = "fork_add" /\ \A v \in Tasks : v # t => pc'[v] = pc[v]
    BY <1>1, Moved, Constants
  <1>5. \A v \in Tasks : pc[v] \in Holding => /\ v # t /\ child[v] \in Procs /\ child[v] # q
                                              /\ process'[v] = process[v]
    <2>1. pc[u] \notin Holding /\ process \in [Tasks -> Procs \cup {Null}]
      BY <1>1 DEF IInv, Threads, ThreadOK, Types, TypeOK, Holding
    <2>2. QED
      BY <1>1, <2>1, Held DEF Holding
  <1>6. \A p \in Procs : \A x \in ToSet(children[p]) : x \in Procs /\ x # q
    BY <1>1, Held
  <1>7. ASSUME NEW p \in Procs PROVE ListOK(p)'
    <2>1. ListOK(p)
      BY DEF FInv
    <2>2. ASSUME NEW x, NEW v \in Tasks, pc[v] = "fork_parent", child[v] = x, process[v] = p
          PROVE  pc'[v] = "fork_parent" /\ child'[v] = x /\ process'[v] = p
      BY <2>2, <1>3, <1>4, <1>5
    <2>3. \A x \in ToSet(children[p]) : pstate'[x] = pstate[x]
      BY <1>2, <1>6
    <2>4. QED
      BY <1>1, <2>1, <2>2, <2>3 DEF ListOK
  <1>8. ASSUME NEW v \in Tasks PROVE TakenOK(v)'
    <2>1. CASE v = t
      <3>1. \A w \in Tasks : pc'[w] \in Taking /\ child'[w] = q => w = t
        BY <1>3, <1>4, <1>5
      <3>2. pc'[v] \notin Beside /\ pc'[v] \notin {"wait_copy", "wait_destroy", "wait_remove"}
        BY <1>4, <2>1 DEF Beside
      <3>3. QED
        BY <1>1, <1>2, <1>3, <1>6, <2>1, <3>1, <3>2 DEF TakenOK
    <2>2. CASE v # t
      <3>1. TakenOK(v) /\ pc'[v] = pc[v] /\ child'[v] = child[v]
        BY <1>3, <1>4, <2>2 DEF FInv
      <3>2. pc[v] \in Holding => process'[v] = process[v] /\ pstate'[child[v]] = pstate[child[v]]
        BY <1>2, <1>5
      <3>3. \A w \in Tasks : pc[v] \in Taking /\ pc'[w] \in Taking /\ child'[w] = child[v] => w = v
        BY <1>3, <1>4, <1>5, <3>1 DEF TakenOK
      <3>4. QED
        BY <1>1, <3>1, <3>2, <3>3 DEF TakenOK, Holding
    <2>3. QED
      BY <2>1, <2>2
  <1>9. ASSUME NEW x \in Procs \ {Root}, pstate'[x] \in {"RUNNING", "ZOMBIE"} PROVE CaredFor(x)'
    <2>1. CASE x = q
      BY <2>1, <1>3, <1>4 DEF CaredFor, Taking
    <2>2. CASE x # q
      <3>1. CaredFor(x) /\ pstate'[x] = pstate[x]
        BY <1>2, <1>9, <2>2 DEF FInv
      <3>2. ASSUME NEW v \in Tasks, pc[v] \in Taking, child[v] = x
            PROVE  pc'[v] \in Taking /\ child'[v] = x
        BY <3>2, <1>3, <1>4, <1>5
      <3>3. QED
        BY <1>1, <3>1, <3>2 DEF CaredFor
    <2>3. QED
      BY <2>1, <2>2
  <1>10. QED
    BY <1>7, <1>8, <1>9 DEF FInv

(* process_add_child: what fork has taken goes into the list.              *)
LEMMA FamilyForkAdd ==
    ASSUME IInv, FInv, NEW c \in Cpus, NEW t \in Tasks, ForkAdd(c, t)
    PROVE  FInv'
  <1> USE FamilyPoints
  <1> DEFINE p == process[t]
             q == child[t]
  <1>1. /\ Runs(c, t) /\ pc[t] = "fork_add" /\ Go(t, "fork_parent")
        /\ children' = [children EXCEPT ![p] = Append(@, q)]
        /\ UNCHANGED <<process, pstate, parent, child>>
    BY DEF ForkAdd, At
  <1>2. p \in Procs
    BY <1>1, Running
  <1>3. /\ q \in Procs /\ pstate[q] \in {"RUNNING", "ZOMBIE"}
        /\ \A r \in Procs : q \notin ToSet(children[r])
        /\ \A u \in Tasks : pc[u] \in Taking /\ child[u] = q => u = t
    BY <1>1, Held DEF FInv, TakenOK, Holding, Taking
  <1>4. pc'[t] = "fork_parent" /\ \A v \in Tasks : v # t => pc'[v] = pc[v]
    BY <1>1, Moved, Constants
  <1>5. child'[t] = q /\ process'[t] = p
    BY <1>1
  <1> HIDE DEF p, q
  <1>6. children[p] \in Seq(Procs) /\ IsInjective(children[p])
    BY <1>2, Held DEF FInv, ListOK
  <1>7. /\ \A x : x \in ToSet(Append(children[p], q)) <=> x \in ToSet(children[p]) \/ x = q
        /\ IsInjective(Append(children[p], q))
    BY <1>2, <1>3, <1>6, AppendQueue
  <1>8. /\ children'[p] = Append(children[p], q)
        /\ \A r \in Procs : r # p => children'[r] = children[r]
    BY <1>1, <1>2, Held
  <1>9. \A r \in Procs : \A x : x \in ToSet(children'[r]) <=> x \in ToSet(children[r]) \/ (r = p /\ x = q)
    BY <1>7, <1>8
  <1>10. ASSUME NEW r \in Procs PROVE ListOK(r)'
    <2>1. ListOK(r)
      BY DEF FInv
    <2>2. IsInjective(children'[r])
      BY <1>7, <1>8, <2>1 DEF ListOK
    <2>3. ASSUME NEW x \in ToSet(children'[r])
          PROVE  /\ pstate[x] \in {"RUNNING", "ZOMBIE"}
                 /\ \A s \in Procs : x \in ToSet(children'[s]) => s = r
                 /\ parent[x] = r \/ \E v \in Tasks : pc'[v] = "fork_parent" /\ child[v] = x /\ process[v] = r
      <3>1. CASE x = q
        <4>1. r = p
          BY <1>3, <1>9, <3>1
        <4>2. \A s \in Procs : x \in ToSet(children'[s]) => s = r
          BY <1>3, <1>9, <3>1, <4>1
        <4>3. QED
          BY <1>1, <1>3, <1>4, <1>5, <3>1, <4>1, <4>2
      <3>2. CASE x # q
        <4>1. x \in ToSet(children[r])
          BY <1>9, <3>2
        <4>2. \A s \in Procs : x \in ToSet(children'[s]) => s = r
          BY <1>9, <2>1, <3>2, <4>1 DEF ListOK
        <4>3. ASSUME NEW v \in Tasks, pc[v] = "fork_parent" PROVE pc'[v] = "fork_parent"
          BY <1>4, <4>3
        <4>4. QED
          BY <2>1, <4>1, <4>2, <4>3 DEF ListOK
      <3>3. QED
        BY <3>1, <3>2
    <2>4. QED
      BY <1>1, <2>2, <2>3 DEF ListOK
  <1>11. ASSUME NEW v \in Tasks PROVE TakenOK(v)'
    <2>1. CASE v = t
      <3>1. pc'[v] \notin Taking /\ pc'[v] \notin {"wait_copy", "wait_destroy", "wait_remove"}
        BY <1>4, <2>1
      <3>2. QED
        BY <1>2, <1>5, <1>9, <2>1, <3>1 DEF TakenOK
    <2>2. CASE v # t
      <3>1. TakenOK(v) /\ pc'[v] = pc[v]
        BY <1>4, <2>2 DEF FInv
      <3>2. pc[v] \in Taking => /\ \A r \in Procs : child[v] \notin ToSet(children'[r])
                                /\ \A w \in Tasks : pc'[w] \in Taking /\ child[w] = child[v] => w = v
        BY <1>3, <1>4, <1>9, <2>2, <3>1 DEF TakenOK
      <3>3. pc[v] \in Beside => child[v] \in ToSet(children'[process[v]])
        <4>1. pc[v] \in Beside => process[v] \in Procs
          BY Constants DEF IInv, Threads, ThreadOK, Types, TypeOK, Beside
        <4>2. QED
          BY <1>9, <3>1, <4>1 DEF TakenOK
      <3>4. QED
        BY <1>1, <3>1, <3>2, <3>3 DEF TakenOK
    <2>3. QED
      BY <2>1, <2>2
  <1>12. ASSUME NEW x \in Procs \ {Root}, pstate'[x] \in {"RUNNING", "ZOMBIE"} PROVE CaredFor(x)'
    <2>1. CASE x = q
      <3>1. x \in ToSet(children'[p])
        BY <1>2, <1>9, <2>1
      <3>2. QED
        BY <1>2, <3>1 DEF CaredFor
    <2>2. CASE x # q
      <3>1. CaredFor(x)
        BY <1>1, <1>12 DEF FInv
      <3>2. ASSUME NEW v \in Tasks, pc[v] \in Taking, child[v] = x PROVE pc'[v] \in Taking
        BY <3>2, <1>1, <1>4, <1>5, <2>2
      <3>3. QED
        BY <1>1, <1>9, <3>1, <3>2 DEF CaredFor
    <2>3. QED
      BY <2>1, <2>2
  <1>13. QED
    BY <1>10, <1>11, <1>12 DEF FInv

(* process_set_parent: the child learns its parent.                        *)
LEMMA FamilyForkParent ==
    ASSUME IInv, FInv, NEW c \in Cpus, NEW t \in Tasks, ForkParent(c, t)
    PROVE  FInv'
  <1> USE FamilyPoints
  <1> DEFINE p == process[t]
             q == child[t]
  <1>1. /\ Runs(c, t) /\ pc[t] = "fork_parent" /\ Go(t, "user")
        /\ parent' = [parent EXCEPT ![q] = p]
        /\ child' = [child EXCEPT ![t] = Null]
        /\ UNCHANGED <<process, pstate, children>>
    BY DEF ForkParent, At, CallSwitch, Go
  <1>2. p \in Procs
    BY <1>1, Running
  <1>3. q \in Procs /\ q \in ToSet(children[p])
    BY <1>1, Held DEF FInv, TakenOK, Holding
  <1>4. pc'[t] = "user" /\ \A v \in Tasks : v # t => pc'[v] = pc[v]
    BY <1>1, Moved, Constants
  <1>5. parent'[q] = p /\ \A x \in Procs : x # q => parent'[x] = parent[x]
    BY <1>1, <1>3, Held
  <1>6. \A v \in Tasks : v # t => child'[v] = child[v]
    BY <1>1, Held
  <1>a. \A v \in Tasks : v = t => child[v] = q /\ process[v] = p
    OBVIOUS
  <1> HIDE DEF p, q
  <1>7. ASSUME NEW r \in Procs PROVE ListOK(r)'
    <2>1. ListOK(r) /\ ToSet(children[r]) \subseteq Procs
      BY Held DEF FInv
    <2>2. ASSUME NEW x \in ToSet(children[r])
          PROVE  parent'[x] = r \/ \E v \in Tasks : pc'[v] = "fork_parent" /\ child'[v] = x /\ process[v] = r
      <3>1. CASE x = q
        <4>1. r = p
          BY <1>2, <1>3, <2>1, <3>1 DEF ListOK
        <4>2. QED
          BY <1>5, <3>1, <4>1
      <3>2. CASE x # q
        <4>1. ASSUME NEW v \in Tasks, child[v] = x, pc[v] = "fork_parent"
              PROVE  pc'[v] = "fork_parent" /\ child'[v] = x
          BY <1>4, <1>6, <1>a, <3>2, <4>1
        <4>2. QED
          BY <1>5, <2>1, <3>2, <4>1 DEF ListOK
      <3>3. QED
        BY <3>1, <3>2
    <2>3. QED
      BY <1>1, <2>1, <2>2 DEF ListOK
  <1>8. ASSUME NEW v \in Tasks PROVE TakenOK(v)'
    <2>1. CASE v = t
      <3>1. pc'[v] \notin Holding /\ pc'[v] \notin {"wait_copy", "wait_destroy", "wait_remove"}
        BY <1>4, <2>1 DEF Holding
      <3>2. QED
        BY <3>1 DEF TakenOK
    <2>2. CASE v # t
      <3>1. TakenOK(v) /\ pc'[v] = pc[v] /\ child'[v] = child[v]
        BY <1>4, <1>6, <2>2 DEF FInv
      <3>2. \A w \in Tasks : pc'[w] \in Taking => pc[w] \in Taking /\ child'[w] = child[w]
        BY <1>4, <1>6 DEF Taking
      <3>3. pc[v] \in Taking => parent'[child[v]] = parent[child[v]]
        <4>1. pc[v] \in Taking => child[v] # q /\ child[v] \in Procs
          BY <1>2, <1>3, <3>1, Held DEF TakenOK
        <4>2. QED
          BY <1>5, <4>1
      <3>4. {"wait_copy", "wait_destroy"} \subseteq Taking
        BY DEF Taking
      <3>5. QED
        BY <1>1, <3>1, <3>2, <3>3, <3>4 DEF TakenOK
    <2>3. QED
      BY <2>1, <2>2
  <1>9. ASSUME NEW x \in Procs \ {Root}, pstate'[x] \in {"RUNNING", "ZOMBIE"} PROVE CaredFor(x)'
    <2>1. CaredFor(x)
      BY <1>1, <1>9 DEF FInv
    <2>2. ASSUME NEW v \in Tasks, pc[v] \in Taking PROVE pc'[v] \in Taking /\ child'[v] = child[v]
      BY <2>2, <1>1, <1>4, <1>6
    <2>3. QED
      BY <1>1, <2>1, <2>2 DEF CaredFor
  <1>10. QED
    BY <1>7, <1>8, <1>9 DEF FInv

(* A process that exits becomes a zombie where it is.                      *)
LEMMA FamilyExitZombie ==
    ASSUME IInv, FInv, NEW c \in Cpus, NEW t \in Tasks, ExitZombie(c, t)
    PROVE  FInv'
  <1> USE FamilyPoints
  <1> DEFINE p == process[t]
  <1>1. /\ Runs(c, t) /\ pc[t] = "exit_state" /\ Go(t, "exit_parent")
        /\ pstate' = [pstate EXCEPT ![p] = "ZOMBIE"]
        /\ UNCHANGED <<process, parent, children, child>>
    BY DEF ExitZombie, At
  <1>2. p \in Procs /\ pstate[p] \in {"RUNNING", "ZOMBIE"}
    BY <1>1, Running
  <1>3. pstate'[p] = "ZOMBIE" /\ \A r \in Procs : r # p => pstate'[r] = pstate[r]
    BY <1>1, <1>2, Held
  <1> HIDE DEF p
  <1>4. /\ \A r \in Procs : pstate[r] \in {"RUNNING", "ZOMBIE"} => pstate'[r] \in {"RUNNING", "ZOMBIE"}
        /\ \A r \in Procs : pstate'[r] \in {"RUNNING", "ZOMBIE"} => pstate[r] \in {"RUNNING", "ZOMBIE"}
        /\ \A r \in Procs : pstate[r] = "ZOMBIE" => pstate'[r] = "ZOMBIE"
    BY <1>2, <1>3
  <1>5. \A v \in Tasks : pc'[v] = pc[v] \/ (pc[v] \notin Holding /\ pc'[v] \notin Holding)
    <2>1. pc'[t] = "exit_parent" /\ \A v \in Tasks : v # t => pc'[v] = pc[v]
      BY <1>1, Moved, Constants
    <2>2. QED
      BY <1>1, <2>1 DEF Holding
  <1>6. ASSUME NEW r \in Procs PROVE ListOK(r)'
    <2>1. ListOK(r) /\ ToSet(children[r]) \subseteq Procs
      BY Held DEF FInv
    <2>2. \A v \in Tasks : pc[v] = "fork_parent" => pc'[v] = "fork_parent"
      BY <1>5
    <2>3. QED
      BY <1>1, <1>4, <2>1, <2>2 DEF ListOK
  <1>7. ASSUME NEW v \in Tasks PROVE TakenOK(v)'
    <2>1. TakenOK(v)
      BY DEF FInv
    <2>2. \A w \in Tasks : pc'[w] \in Taking <=> pc[w] \in Taking
      BY <1>5
    <2>3. pc'[v] \in Holding => pc'[v] = pc[v] /\ child[v] \in Procs
      BY <1>5, Held
    <2>4. pc'[v] \in {"wait_copy", "wait_destroy", "wait_remove"} => pc'[v] \in Holding
      BY DEF Holding
    <2>5. QED
      BY <1>1, <1>4, <2>1, <2>2, <2>3, <2>4 DEF TakenOK
  <1>8. ASSUME NEW x \in Procs \ {Root}, pstate'[x] \in {"RUNNING", "ZOMBIE"} PROVE CaredFor(x)'
    <2>1. CaredFor(x)
      BY <1>4, <1>8 DEF FInv
    <2>2. \A w \in Tasks : pc'[w] \in Taking <=> pc[w] \in Taking
      BY <1>5
    <2>3. QED
      BY <1>1, <1>4, <2>1, <2>2 DEF CaredFor
  <1>9. QED
    BY <1>6, <1>7, <1>8 DEF FInv

(* The steps of wait4 that only move in the list of children: the scan.    *)
LEMMA FamilyScan ==
    ASSUME IInv, FInv, NEW t \in Tasks, NEW to,
           pc[t] \in {"user", "wait_scan", "wait_look"}, Go(t, to),
           to \in {"user", "wait_enqueue", "wait_look", "wait_remove"},
           UNCHANGED <<process, pstate, parent, children>>,
           \A u \in Tasks : u # t => child'[u] = child[u],
           to \in {"wait_look", "wait_remove"} => child'[t] \in ToSet(children[process[t]]),
           to = "wait_remove" => pstate[child'[t]] = "ZOMBIE"
    PROVE  FInv'
  <1> USE FamilyPoints
  <1>1. pc'[t] = to /\ \A v \in Tasks : v # t => pc'[v] = pc[v]
    BY Moved, Constants
  <1>2. pc[t] \notin Taking /\ pc[t] # "fork_parent" /\ to \notin Taking /\ to # "fork_parent"
    BY DEF Taking
  <1>3. \A v \in Tasks : pc'[v] \in Taking <=> pc[v] \in Taking
    BY <1>1, <1>2
  <1>4. ASSUME NEW r \in Procs PROVE ListOK(r)'
    <2>1. ListOK(r)
      BY DEF FInv
    <2>2. ASSUME NEW v \in Tasks, pc[v] = "fork_parent" PROVE pc'[v] = "fork_parent" /\ child'[v] = child[v]
      BY <2>2, <1>1, <1>2
    <2>3. QED
      BY <2>1, <2>2 DEF ListOK
  <1>5. ASSUME NEW v \in Tasks PROVE TakenOK(v)'
    <2>1. CASE v = t
      <3>1. pc'[v] \notin Taking /\ pc'[v] \notin {"wait_copy", "wait_destroy"}
            /\ (pc'[v] \in Beside => pc'[v] \in {"wait_look", "wait_remove"})
        BY <1>1, <1>2, <2>1 DEF Taking, Beside
      <3>2. QED
        BY <1>1, <2>1, <3>1 DEF TakenOK
    <2>2. CASE v # t
      <3>1. TakenOK(v) /\ pc'[v] = pc[v] /\ child'[v] = child[v]
        BY <1>1, <2>2 DEF FInv
      <3>2. \A w \in Tasks : pc'[w] \in Taking => child'[w] = child[w]
        BY <1>1, <1>2
      <3>3. QED
        BY <1>3, <3>1, <3>2 DEF TakenOK
    <2>3. QED
      BY <2>1, <2>2
  <1>6. ASSUME NEW x \in Procs \ {Root}, pstate'[x] \in {"RUNNING", "ZOMBIE"} PROVE CaredFor(x)'
    <2>1. CaredFor(x)
      BY <1>6 DEF FInv
    <2>2. \A w \in Tasks : pc[w] \in Taking => child'[w] = child[w]
      BY <1>2
    <2>3. QED
      BY <1>3, <2>1, <2>2 DEF CaredFor
  <1>7. QED
    BY <1>4, <1>5, <1>6 DEF FInv

LEMMA FamilyWaitScan ==
    ASSUME IInv, FInv, NEW c \in Cpus, NEW t \in Tasks, WaitScan(c, t)
    PROVE  FInv'
  <1> DEFINE list == children[process[t]]
             to == IF list = <<>> THEN "user" ELSE "wait_look"
  <1>1. /\ Runs(c, t) /\ pc[t] \in {"user", "wait_scan"} /\ Go(t, to)
        /\ child' = [child EXCEPT ![t] = IF list = <<>> THEN Null ELSE Head(list)]
        /\ UNCHANGED <<process, pstate, parent, children>>
    BY DEF WaitScan, At
  <1>2. list \in Seq(Procs)
    BY <1>1, Running, Held
  <1>3. list # <<>> => Head(list) \in ToSet(list)
    BY <1>2, TailQueue
  <1>4. /\ \A u \in Tasks : u # t => child'[u] = child[u]
        /\ list # <<>> => child'[t] \in ToSet(list)
    BY <1>1, <1>3, Held
  <1>5. to \in {"user", "wait_look"} /\ (to = "wait_look" => list # <<>>)
    OBVIOUS
  <1> HIDE DEF to
  <1>6. QED
    BY <1>1, <1>4, <1>5, FamilyScan

LEMMA FamilyWaitLook ==
    ASSUME IInv, FInv, NEW c \in Cpus, NEW t \in Tasks, WaitLook(c, t)
    PROVE  FInv'
  <1> DEFINE list == children[process[t]]
             after == NextChild(list, child[t])
             to == IF after = Null THEN "wait_enqueue" ELSE "wait_look"
  <1>1. /\ Runs(c, t) /\ pc[t] = "wait_look"
        /\ UNCHANGED <<process, pstate, parent, children>>
        /\ \/ UNCHANGED <<pc, child>>
           \/ pstate[child[t]] = "ZOMBIE" /\ Go(t, "wait_remove") /\ UNCHANGED child
           \/ Go(t, to) /\ child' = [child EXCEPT ![t] = after]
    BY DEF WaitLook, At
  <1>2. list \in Seq(Procs) /\ child[t] \in ToSet(list)
    BY <1>1, Running, Held DEF FInv, TakenOK, Beside
  <1>3. after = Null \/ after \in ToSet(list)
    BY <1>2, NextIsChild
  <1>4. CASE UNCHANGED <<pc, child>>
    BY <1>1, <1>4, FInvFrame
  <1>5. CASE pstate[child[t]] = "ZOMBIE" /\ Go(t, "wait_remove") /\ UNCHANGED child
    <2>1. PICK at : at = "wait_remove"
      OBVIOUS
    <2>2. QED
      BY <1>1, <1>2, <1>5, <2>1, FamilyScan
  <1>6. CASE Go(t, to) /\ child' = [child EXCEPT ![t] = after]
    <2>1. child'[t] = after /\ \A u \in Tasks : u # t => child'[u] = child[u]
      BY <1>6, Held
    <2>2. to \in {"wait_enqueue", "wait_look"} /\ (to = "wait_look" => after \in ToSet(list))
      BY <1>3
    <2> HIDE DEF to
    <2>3. QED
      BY <1>1, <1>6, <2>1, <2>2, FamilyScan
  <1>7. QED
    BY <1>1, <1>4, <1>5, <1>6

(* process_remove_child: no other thread of the parent is there to have    *)
(* removed the zombie first, or to be at it.                               *)
LEMMA FamilyWaitRemove ==
    ASSUME IInv, FInv, OneThreadEach, NEW c \in Cpus, NEW t \in Tasks, WaitRemove(c, t)
    PROVE  FInv'
  <1> USE FamilyPoints
  <1> DEFINE p == process[t]
             q == child[t]
  <1>1. /\ Runs(c, t) /\ pc[t] = "wait_remove" /\ UNCHANGED <<process, pstate, parent, child>>
    BY DEF WaitRemove, At
  <1>2. /\ p \in Procs /\ q \in Procs
    BY <1>1, Running, Held DEF Holding
  <1>3. pstate[q] = "ZOMBIE" /\ q \in ToSet(children[p])
    BY <1>1 DEF FInv, TakenOK, Beside
  <1>4. Go(t, "wait_copy") /\ children' = [children EXCEPT ![p] = Unlink(@, q)]
    BY <1>3 DEF WaitRemove
  <1>5. pc'[t] = "wait_copy" /\ \A v \in Tasks : v # t => pc'[v] = pc[v]
    BY <1>4, Moved, Constants
  <1>6. \A u \in Tasks : process[u] = p => u = t
    BY <1>2, Constants DEF OneThreadEach
  <1>a. \A v \in Tasks : v = t => child[v] = q /\ process[v] = p
    OBVIOUS
  <1> HIDE DEF p, q
  <1>7. children[p] \in Seq(Procs) /\ IsInjective(children[p])
    BY <1>2, Held DEF FInv, ListOK
  <1>8. /\ IsInjective(Unlink(children[p], q))
        /\ \A x : x \in ToSet(Unlink(children[p], q)) <=> x \in ToSet(children[p]) /\ x # q
    BY <1>3, <1>7, UnlinkedQueue
  <1>9. /\ children'[p] = Unlink(children[p], q)
        /\ \A r \in Procs : r # p => children'[r] = children[r]
    BY <1>2, <1>4, Held
  <1>10. \A r \in Procs : q \in ToSet(children[r]) => r = p
    BY <1>2, <1>3 DEF FInv, ListOK
  <1>11. \A r \in Procs : \A x : x \in ToSet(children'[r]) <=> x \in ToSet(children[r]) /\ x # q
    BY <1>8, <1>9, <1>10
  <1>12. parent[q] = p
    <2>1. ~\E v \in Tasks : pc[v] = "fork_parent" /\ child[v] = q /\ process[v] = p
      BY <1>1, <1>6
    <2>2. QED
      BY <1>2, <1>3, <2>1 DEF FInv, ListOK
  <1>13. ASSUME NEW r \in Procs PROVE ListOK(r)'
    <2>1. ListOK(r)
      BY DEF FInv
    <2>2. IsInjective(children'[r])
      BY <1>8, <1>9, <2>1 DEF ListOK
    <2>3. ASSUME NEW v \in Tasks, pc[v] = "fork_parent" PROVE pc'[v] = "fork_parent"
      BY <1>1, <1>5, <2>3
    <2>4. QED
      BY <1>1, <1>11, <2>1, <2>2, <2>3 DEF ListOK
  <1>14. ASSUME NEW v \in Tasks PROVE TakenOK(v)'
    <2>1. CASE v = t
      <3>1. \A w \in Tasks : pc'[w] \in Taking /\ child[w] = q => w = t
        BY <1>2, <1>3, <1>5 DEF FInv, TakenOK
      <3>2. pc'[v] \notin Beside /\ pc'[v] # "wait_remove"
        BY <1>5, <2>1 DEF Beside
      <3>3. \A r \in Procs : q \notin ToSet(children'[r])
        BY <1>11
      <3>4. QED
        BY <1>1, <1>3, <1>12, <1>a, <2>1, <3>1, <3>2, <3>3 DEF TakenOK
    <2>2. CASE v # t
      <3>1. TakenOK(v) /\ pc'[v] = pc[v]
        BY <1>5, <2>2 DEF FInv
      <3>2. pc[v] \in Beside => child[v] \in ToSet(children'[process[v]])
        <4>1. pc[v] \in Beside => process[v] \in Procs
          BY Constants DEF IInv, Threads, ThreadOK, Types, TypeOK, Beside
        <4>2. pc[v] \in Beside => child[v] # q
          BY <1>6, <1>10, <2>2, <3>1, <4>1 DEF TakenOK
        <4>3. QED
          BY <1>11, <3>1, <4>1, <4>2 DEF TakenOK
      <3>3. pc[v] \in Taking => /\ \A r \in Procs : child[v] \notin ToSet(children'[r])
                                /\ \A w \in Tasks : pc'[w] \in Taking /\ child[w] = child[v] => w = v
        <4>1. pc[v] \in Taking => child[v] # q
          BY <1>2, <1>3, <3>1 DEF TakenOK
        <4>2. QED
          BY <1>5, <1>11, <1>a, <3>1, <4>1 DEF TakenOK
      <3>4. QED
        BY <1>1, <3>1, <3>2, <3>3 DEF TakenOK
    <2>3. QED
      BY <2>1, <2>2
  <1>15. ASSUME NEW x \in Procs \ {Root}, pstate'[x] \in {"RUNNING", "ZOMBIE"} PROVE CaredFor(x)'
    <2>1. CASE x = q
      BY <1>1, <1>5, <1>a, <2>1 DEF CaredFor, Taking
    <2>2. CASE x # q
      <3>1. CaredFor(x)
        BY <1>1, <1>15 DEF FInv
      <3>2. \A v \in Tasks : pc[v] \in Taking => pc'[v] \in Taking
        BY <1>1, <1>5 DEF Taking
      <3>3. QED
        BY <1>1, <1>11, <2>2, <3>1, <3>2 DEF CaredFor
    <2>3. QED
      BY <2>1, <2>2
  <1>16. QED
    BY <1>13, <1>14, <1>15 DEF FInv

(* The status is copied, or the zombie is lost.                            *)
LEMMA FamilyWaitCopy ==
    ASSUME IInv, FInv, NEW c \in Cpus, NEW t \in Tasks, WaitCopy(c, t)
    PROVE  FInv'
  <1> USE FamilyPoints
  <1>1. /\ pc[t] = "wait_copy" /\ UNCHANGED <<process, pstate, parent, children>>
        /\ \/ Go(t, "wait_destroy") /\ UNCHANGED child
           \/ MayFail /\ Go(t, "user") /\ child' = [child EXCEPT ![t] = Null]
    BY DEF WaitCopy, At
  <1>2. pstate[child[t]] = "ZOMBIE" /\ parent[child[t]] = process[t] /\ pc[t] \in Taking
    BY <1>1 DEF FInv, TakenOK, Taking
  <1>3. CASE Go(t, "wait_destroy") /\ UNCHANGED child
    <2>1. pc'[t] = "wait_destroy" /\ \A v \in Tasks : v # t => pc'[v] = pc[v]
      BY <1>3, Moved, Constants
    <2>2. \A v \in Tasks : /\ pc'[v] \in Taking <=> pc[v] \in Taking
                           /\ pc'[v] \in Beside <=> pc[v] \in Beside
                           /\ pc'[v] = "wait_remove" <=> pc[v] = "wait_remove"
                           /\ pc'[v] = "fork_parent" <=> pc[v] = "fork_parent"
                           /\ pc'[v] \in {"wait_copy", "wait_destroy"} => pc[v] \in {"wait_copy", "wait_destroy"}
      BY <1>1, <2>1 DEF Taking, Beside
    <2>3. ASSUME NEW r \in Procs PROVE ListOK(r)'
      BY <1>1, <1>3, <2>2 DEF FInv, ListOK
    <2>4. ASSUME NEW v \in Tasks PROVE TakenOK(v)'
      BY <1>1, <1>3, <2>2 DEF FInv, TakenOK
    <2>5. ASSUME NEW x \in Procs \ {Root}, pstate'[x] \in {"RUNNING", "ZOMBIE"} PROVE CaredFor(x)'
      BY <1>1, <1>3, <2>2, <2>5 DEF FInv, CaredFor
    <2>6. QED
      BY <2>3, <2>4, <2>5 DEF FInv
  <1>4. CASE MayFail /\ Go(t, "user") /\ child' = [child EXCEPT ![t] = Null]
    <2>1. pc'[t] = "user" /\ \A v \in Tasks : v # t => pc'[v] = pc[v] /\ child'[v] = child[v]
      BY <1>4, Moved, Constants, Held
    <2>2. \A v \in Tasks : pc'[v] \in Holding => v # t
      BY <2>1 DEF Holding
    <2>3. ASSUME NEW r \in Procs PROVE ListOK(r)'
      <3>1. ListOK(r)
        BY DEF FInv
      <3>2. ASSUME NEW v \in Tasks, pc[v] = "fork_parent" PROVE pc'[v] = "fork_parent" /\ child'[v] = child[v]
        BY <1>1, <2>1, <3>2
      <3>3. QED
        BY <1>1, <3>1, <3>2 DEF ListOK
    <2>4. ASSUME NEW v \in Tasks PROVE TakenOK(v)'
      <3>1. CASE v = t
        <4>1. pc'[v] \notin Holding /\ pc'[v] \notin {"wait_copy", "wait_destroy", "wait_remove"}
          BY <2>1, <3>1 DEF Holding
        <4>2. QED
          BY <4>1 DEF TakenOK
      <3>2. CASE v # t
        <4>1. TakenOK(v) /\ pc'[v] = pc[v] /\ child'[v] = child[v]
          BY <2>1, <3>2 DEF FInv
        <4>2. \A w \in Tasks : pc'[w] \in Taking => pc[w] \in Taking /\ child'[w] = child[w]
          BY <2>1, <2>2
        <4>3. QED
          BY <1>1, <4>1, <4>2 DEF TakenOK
      <3>3. QED
        BY <3>1, <3>2
    <2>5. ASSUME NEW x \in Procs \ {Root}, pstate'[x] \in {"RUNNING", "ZOMBIE"} PROVE CaredFor(x)'
      <3>1. CASE x = child[t]
        BY <1>1, <1>2, <1>4, <3>1 DEF CaredFor
      <3>2. CASE x # child[t]
        <4>1. CaredFor(x)
          BY <1>1, <2>5 DEF FInv
        <4>2. ASSUME NEW w \in Tasks, pc[w] \in Taking, child[w] = x PROVE pc'[w] \in Taking /\ child'[w] = x
          BY <2>1, <3>2, <4>2
        <4>3. QED
          BY <1>1, <4>1, <4>2 DEF CaredFor
      <3>3. QED
        BY <3>1, <3>2
    <2>6. QED
      BY <2>3, <2>4, <2>5 DEF FInv
  <1>5. QED
    BY <1>1, <1>3, <1>4

(* proc_manager_remove_destroy: nobody else has the process that is freed. *)
LEMMA FamilyWaitDestroy ==
    ASSUME IInv, FInv, NEW c \in Cpus, NEW t \in Tasks, WaitDestroy(c, t)
    PROVE  FInv'
  <1> USE FamilyPoints
  <1> DEFINE q == child[t]
  <1>1. /\ pc[t] = "wait_destroy" /\ UNCHANGED <<process, parent, children>>
        /\ \/ UNCHANGED <<pstate, child, pc>>
           \/ /\ pstate' = [pstate EXCEPT ![q] = "FREED"]
              /\ child' = [child EXCEPT ![t] = Null] /\ Go(t, "user")
    BY DEF WaitDestroy, At
  <1>2. CASE UNCHANGED <<pstate, child, pc>>
    BY <1>1, <1>2, FInvFrame
  <1>3. CASE /\ pstate' = [pstate EXCEPT ![q] = "FREED"]
             /\ child' = [child EXCEPT ![t] = Null] /\ Go(t, "user")
    <2>1. /\ q \in Procs /\ \A r \in Procs : q \notin ToSet(children[r])
          /\ \A u \in Tasks : pc[u] \in Taking /\ child[u] = q => u = t
      BY <1>1, Held DEF FInv, TakenOK, Taking, Holding
    <2>2. pc'[t] = "user" /\ \A v \in Tasks : v # t => pc'[v] = pc[v] /\ child'[v] = child[v]
      BY <1>3, Moved, Constants, Held
    <2>3. \A v \in Tasks : pc'[v] \in Holding => v # t
      BY <2>2 DEF Holding
    <2>a. pc[t] \in Taking
      BY <1>1 DEF Taking
    <2> HIDE DEF q
    <2>4. pstate'[q] = "FREED" /\ \A r \in Procs : r # q => pstate'[r] = pstate[r]
      BY <1>3, <2>1, Held
    <2>5. ASSUME NEW r \in Procs PROVE ListOK(r)'
      <3>1. ListOK(r) /\ ToSet(children[r]) \subseteq Procs
        BY Held DEF FInv
      <3>2. ASSUME NEW v \in Tasks, pc[v] = "fork_parent" PROVE pc'[v] = "fork_parent" /\ child'[v] = child[v]
        BY <1>1, <2>2, <3>2
      <3>3. \A x \in ToSet(children[r]) : pstate'[x] = pstate[x]
        BY <2>1, <2>4, <3>1
      <3>4. QED
        BY <1>1, <3>1, <3>2, <3>3 DEF ListOK
    <2>6. ASSUME NEW v \in Tasks PROVE TakenOK(v)'
      <3>1. CASE v = t
        <4>1. pc'[v] \notin Holding /\ pc'[v] \notin {"wait_copy", "wait_destroy", "wait_remove"}
          BY <2>2, <3>1 DEF Holding
        <4>2. QED
          BY <4>1 DEF TakenOK
      <3>2. CASE v # t
        <4>1. TakenOK(v) /\ pc'[v] = pc[v] /\ child'[v] = child[v]
          BY <2>2, <3>2 DEF FInv
        <4>2. \A w \in Tasks : pc'[w] \in Taking => pc[w] \in Taking /\ child'[w] = child[w]
          BY <2>2, <2>3
        <4>3. pc[v] \in Holding => child[v] \in Procs /\ child[v] # q
          <5>1. pc[v] \in Taking => child[v] # q
            BY <2>1, <3>2
          <5>2. pc[v] \in Beside => child[v] # q
            <6>1. pc[v] \in Beside => process[v] \in Procs
              BY Constants DEF IInv, Threads, ThreadOK, Types, TypeOK, Beside
            <6>2. QED
              BY <2>1, <4>1, <6>1 DEF TakenOK
          <5>3. QED
            BY <5>1, <5>2, Held
        <4>4. pc[v] \in Holding => pstate'[child[v]] = pstate[child[v]]
          BY <2>4, <4>3
        <4>5. pc[v] \in {"wait_copy", "wait_destroy", "wait_remove"} => pc[v] \in Holding
          BY DEF Holding
        <4>6. QED
          BY <1>1, <4>1, <4>2, <4>4, <4>5 DEF TakenOK
      <3>3. QED
        BY <3>1, <3>2
    <2>7. ASSUME NEW x \in Procs \ {Root}, pstate'[x] \in {"RUNNING", "ZOMBIE"} PROVE CaredFor(x)'
      <3>1. x # q /\ pstate'[x] = pstate[x]
        BY <2>4, <2>7
      <3>2. CaredFor(x)
        BY <2>7, <3>1 DEF FInv
      <3>3. ASSUME NEW w \in Tasks, pc[w] \in Taking, child[w] = x PROVE pc'[w] \in Taking /\ child'[w] = x
        BY <2>2, <3>1, <3>3 DEF q
      <3>4. QED
        BY <1>1, <3>1, <3>2, <3>3 DEF CaredFor
    <2>8. QED
      BY <2>5, <2>6, <2>7 DEF FInv
  <1>4. QED
    BY <1>1, <1>2, <1>3

(* A thread keeps its process.                                             *)
LEMMA ProcessKept ==
    ASSUME IInv, Next, NEW t \in Tasks, process[t] # Null
    PROVE  process'[t] = process[t]
  <1>1. ASSUME UNCHANGED process PROVE process'[t] = process[t]
    BY <1>1
  <1>2. ASSUME NEW u \in Tasks, state[u] = "NONE", NEW p, process' = [process EXCEPT ![u] = p]
        PROVE  process'[t] = process[t]
    BY <1>2 DEF IInv, Types, TypeOK, Threads, ThreadOK
  <1>3. ASSUME NEW c \in Cpus, SchedStep(c) \/ CleanupStep(c) PROVE process'[t] = process[t]
    BY <1>1, <1>3 DEF SchedStep, CleanupStep, Detach, CheckLast, DestroySpace, ForgetSpace, procVars
  <1>4. ASSUME NEW c \in Cpus, NEW u \in Tasks, InCall(c, u) PROVE process'[t] = process[t]
    BY <1>1, <1>4 DEF InCall, ForkAdd, ForkParent, ExitZombie, ExitParent, ExitDequeue, ExitReady, WaitScan,
                      WaitLook, WaitRemove, WaitCopy, WaitDestroy, WaitEnqueue, procVars
  <1>5. ASSUME NEW c \in Cpus, NEW u \in Tasks, Call(c, u) PROVE process'[t] = process[t]
    <2>1. CASE UserYield(c, u) \/ ExitBegin(c, u) \/ ForkFail(c, u) \/ WaitScan(c, u)
      BY <1>1, <2>1 DEF UserYield, ExitBegin, ForkFail, WaitScan, procVars
    <2>2. CASE \E q \in Procs, v \in Tasks : ForkCreate(c, u, q, v)
      BY <1>2, <2>2 DEF ForkCreate
    <2>3. CASE \E v \in Tasks : AddThread(c, u, v)
      BY <1>2, <2>3 DEF AddThread
    <2>4. QED
      BY <1>5, <2>1, <2>2, <2>3 DEF Call
  <1>6. QED
    BY <1>3, <1>4, <1>5 DEF Next

LEMMA FamilyInit == Init => FInv
  <1> SUFFICES ASSUME Init PROVE FInv
    OBVIOUS
  <1>1. /\ \A p \in Procs : children[p] = <<>>
        /\ \A q \in Procs \ {Root} : pstate[q] = "NONE"
        /\ \A t \in Tasks : pc[t] = "user"
    BY Constants DEF Init
  <1>2. QED
    BY <1>1, EmptyQueue DEF FInv, ListOK, TakenOK, Taking, Beside

(* The inductive step of the family, as long as no process gets a second   *)
(* thread.                                                                 *)
LEMMA FamilyIsKept ==
    ASSUME IInv, OneThreadEach => FInv, [Next]_vars, OneThreadEach'
    PROVE  FInv'
  <1>1. CASE UNCHANGED vars
    <2>1. UNCHANGED <<children, parent, child, pstate, process, pc>>
      BY <1>1 DEF vars, procVars, schedVars
    <2>2. OneThreadEach
      BY <2>1 DEF OneThreadEach
    <2>3. QED
      BY <2>1, <2>2, FInvFrame
  <1>2. CASE Next
    <2>1. OneThreadEach
      BY <1>2, ProcessKept DEF OneThreadEach
    <2>2. FInv
      BY <2>1
    <2>3. ASSUME NEW c \in Cpus, SchedStep(c) \/ CleanupStep(c) PROVE FInv'
      BY <2>2, <2>3, FamilySched
    <2>4. ASSUME NEW c \in Cpus, NEW t \in Tasks, InCall(c, t) PROVE FInv'
      <3>1. CASE ForkAdd(c, t) \/ ForkParent(c, t) \/ ExitZombie(c, t)
        BY <2>2, <3>1, FamilyForkAdd, FamilyForkParent, FamilyExitZombie
      <3>2. CASE WaitScan(c, t) \/ WaitLook(c, t) \/ WaitRemove(c, t)
        BY <2>1, <2>2, <3>2, FamilyWaitScan, FamilyWaitLook, FamilyWaitRemove
      <3>3. CASE WaitCopy(c, t) \/ WaitDestroy(c, t)
        BY <2>2, <3>3, FamilyWaitCopy, FamilyWaitDestroy
      <3>4. CASE \/ ExitParent(c, t) \/ ExitDequeue(c, t) \/ ExitReady(c, t) \/ WaitEnqueue(c, t)
                 \/ (ExitFlag(c, t, "exit_flag") \/ ExitDead(c, t) \/ ExitYield(c, t)) /\ UNCHANGED procVars
                 \/ (BlockCurrent(c, t) \/ BlockSwitch(c, t, "wait_scan")) /\ UNCHANGED procVars
        BY <2>2, <3>4, FamilySimple
      <3>5. QED
        BY <2>4, <3>1, <3>2, <3>3, <3>4 DEF InCall
    <2>5. ASSUME NEW c \in Cpus, NEW t \in Tasks, Call(c, t) PROVE FInv'
      <3>1. CASE UserYield(c, t) \/ ForkFail(c, t) \/ ExitBegin(c, t)
        BY <2>2, <3>1, FamilySimple
      <3>2. CASE WaitScan(c, t)
        BY <2>2, <3>2, FamilyWaitScan
      <3>3. CASE \E q \in Procs, u \in Tasks : ForkCreate(c, t, q, u)
        BY <2>2, <3>3, FamilyForkCreate
      <3>4. CASE \E u \in Tasks : AddThread(c, t, u)
        BY <2>2, <3>4, FamilyAddThread
      <3>5. QED
        BY <2>5, <3>1, <3>2, <3>3, <3>4 DEF Call
    <2>6. QED
      BY <1>2, <2>3, <2>4, <2>5 DEF Next
  <1>3. QED
    BY <1>1, <1>2

LEMMA FamilyIsInv == Spec => [](IInv /\ (OneThreadEach => FInv))
  <1>1. Init => (OneThreadEach => FInv)
    BY FamilyInit
  <1>2. IInv /\ (OneThreadEach => FInv) /\ [Next]_vars => (OneThreadEach => FInv)'
    BY FamilyIsKept
  <1>3. QED
    BY <1>1, <1>2, ProcessIsInv, PTL DEF Spec

(* Every child that was created and not freed is in one list of children,  *)
(* once, or in the hands of one call, and is lost only when its status     *)
(* cannot be copied, whatever other CPUs do while a thread forks, exits or *)
(* waits: process_add_child, process_remove_child and the scan of          *)
(* sys_process.c, which takes no lock, agree as long as no process has had *)
(* a second thread.                                                        *)
THEOREM FamilyStaysConsistent == Spec => []FamilyConsistent
  <1>1. IInv /\ (OneThreadEach => FInv) => FamilyConsistent
    <2> SUFFICES ASSUME IInv, FInv, NEW q \in Procs \ {Root}
                 PROVE  IF pstate[q] \in {"RUNNING", "ZOMBIE"} THEN IsListed(q) \/ IsHeld(q) \/ IsLost(q)
                        ELSE Lists(q) = {}
      BY DEF FamilyConsistent
    <2>1. ASSUME NEW p \in Procs PROVE Contains(children[p], q) <=> q \in ToSet(children[p])
      <3>1. children[p] \in Seq(Procs)
        BY DEF IInv, Types
      <3>2. QED
        BY <3>1, ContainsIsMembership
    <2>2. Hands(q) = {t \in Tasks : child[t] = q /\ pc[t] \in Taking}
      BY DEF Hands, Taking
    <2>3. CASE pstate[q] \notin {"RUNNING", "ZOMBIE"}
      <3>1. Lists(q) = {}
        BY <2>1, <2>3 DEF FInv, ListOK, Lists
      <3>2. QED
        BY <2>3, <3>1
    <2>4. ASSUME NEW p \in Procs, q \in ToSet(children[p]) PROVE IsListed(q)
      <3>1. /\ IsInjective(children[p]) /\ \A r \in Procs : q \in ToSet(children[r]) => r = p
            /\ parent[q] = p \/ \E t \in Tasks : pc[t] = "fork_parent" /\ child[t] = q /\ process[t] = p
        BY <2>4 DEF FInv, ListOK
      <3>2. Lists(q) = {p}
        BY <2>1, <2>4, <3>1 DEF Lists
      <3>3. Hands(q) = {}
        BY <2>2, <2>4 DEF FInv, TakenOK
      <3>4. QED
        BY <3>1, <3>2, <3>3 DEF IsListed
    <2>5. ASSUME NEW t \in Tasks, pc[t] \in Taking, child[t] = q PROVE IsHeld(q)
      <3>1. Lists(q) = {}
        BY <2>1, <2>5 DEF FInv, TakenOK, Lists
      <3>2. Hands(q) = {t}
        BY <2>2, <2>5 DEF FInv, TakenOK
      <3>3. pc[t] = "fork_add" \/ (pstate[q] = "ZOMBIE" /\ parent[q] = process[t])
        BY <2>5 DEF FInv, TakenOK, Taking
      <3>4. QED
        BY <3>1, <3>2, <3>3 DEF IsHeld
    <2>6. ASSUME \A p \in Procs : q \notin ToSet(children[p]),
                 \A t \in Tasks : ~(pc[t] \in Taking /\ child[t] = q),
                 pstate[q] \in {"RUNNING", "ZOMBIE"}
          PROVE  IsLost(q)
      <3>1. Lists(q) = {} /\ Hands(q) = {}
        BY <2>1, <2>2, <2>6 DEF Lists
      <3>2. MayFail /\ pstate[q] = "ZOMBIE"
        BY <2>6 DEF FInv, CaredFor
      <3>3. QED
        BY <3>1, <3>2 DEF IsLost
    <2>7. QED
      BY <2>3, <2>4, <2>5, <2>6
  <1>2. QED
    BY <1>1, FamilyIsInv, PTL

-----------------------------------------------------------------------------
(* One CPU                                                                 *)

\* The CPU, where there is one only; one process that forks, nothing fails.
CPU == Home[First]
OneCpuOnly == Cpus = {CPU} /\ Forkers \subseteq {Root} /\ ~MayFail

Reaper == Cleanup[CPU]

\* Interrupts are masked in a system call: only its own thread is executed.
CallerRuns(t) == pc[t] \notin {"user", "wait_scan", "gone"} => current[CPU] = t /\ cpu[CPU] = "run"

\* What the state of a thread says of the place it is at.
StateAt(t) ==
    /\ state[t] = "RUNNING" => current[CPU] = t /\ cpu[CPU] \in {"run", "enter", "ctx"}
    /\ state[t] = "BLOCKED" => pc[t] \in {"block_switch", "wait_scan"}
    /\ state[t] = "DEAD" <=> pc[t] \in {"exit_yield", "gone"}

\* A thread that waits is blocked or about to block, and one that is blocked
\* waits or is in the hands of the child that wakes it.
WaitAt(t) ==
    /\ waiting_on[t] # Null => state[t] = "BLOCKED" \/ pc[t] = "block"
    /\ pc[t] = "block" => waiting_on[t] # Null
    /\ state[t] = "BLOCKED" /\ waiting_on[t] = Null => \E u \in Tasks : pc[u] = "exit_ready" /\ blocked[u] = t
    /\ pc[t] = "exit_ready" => state[blocked[t]] = "BLOCKED" /\ waiting_on[blocked[t]] = Null

\* Who exits is not the root, and is the only thread of a zombie.
CallAt(t) ==
    /\ t \in exiting => pc[t] \in ExitPoints
    /\ pc[t] \in ExitPoints => process[t] # Root
    /\ process[t] \in Procs /\ pstate[process[t]] = "ZOMBIE" => pc[t] \in ExitPoints
    /\ pc[t] \in {"fork_add", "fork_parent"} => process[t] = Root

Callers == \A t \in Tasks : CallerRuns(t) /\ StateAt(t) /\ WaitAt(t) /\ CallAt(t)

\* The CPU meets no assertion of the switch, and the spaces it switches
\* between exist.
Switching ==
    /\ cpu[CPU] \notin {"halted", "loop"}
    /\ cpu[CPU] = "ctx" /\ current[CPU] = Idle[CPU] => runnable[CPU] = <<>>
    /\ cpu[CPU] = "commit" /\ next[CPU] = Idle[CPU] => runnable[CPU] = <<>>
    /\ cpu[CPU] \in {"check", "commit"} => (next[CPU] = Reaper <=> needs_cleanup[CPU])
    /\ current[CPU] \in Tasks => process[current[CPU]] \in space
    /\ cpu[CPU] = "ctx" /\ left[CPU] \in Tasks => process[left[CPU]] \in space
    /\ \A s \in {Idle[CPU], Reaper} : waiting_on[s] = Null /\ state[s] \in {"READY", "RUNNING"}

Queued ==
    /\ IsInjective(runnable[CPU])
    /\ \A t \in ToSet(runnable[CPU]) : state[t] = "READY"
    /\ cpu[CPU] \in {"check", "commit"} /\ next[CPU] \in Tasks =>
          state[next[CPU]] = "READY" /\ next[CPU] \notin ToSet(runnable[CPU])
    /\ cpu[CPU] = "check" => next[CPU] \in Tasks
    /\ \A p \in Procs : IsInjective(waiters[p]) /\ ToSet(waiters[p]) = {t \in Tasks : waiting_on[t] = p}

\* Every process but the root is a child of the root, which stays.
Kin ==
    /\ pstate[Root] = "RUNNING"
    /\ \A p \in Procs \ {Root} : pstate[p] # "NONE" =>
          parent[p] = Root \/ \E t \in Tasks : pc[t] \in {"fork_add", "fork_parent"} /\ child[t] = p
    /\ \A p \in Procs : \A t \in threads[p] : process[t] = p
    /\ \A p \in Procs : pstate[p] = "FREED" => threads[p] = {}

\* A dead thread that its process still counts: the cleanup task is asked for
\* and nobody else runs before it.
Corpse(t) == state[t] = "DEAD" /\ t \in threads[process[t]]
Awaited(t) ==
    /\ needs_cleanup[CPU] /\ pc[Reaper] # "clear"
    /\ current[CPU] = Reaper \/ (current[CPU] = t /\ cpu[CPU] \in {"run", "enter", "pick", "check", "commit"})
    /\ t \in ToSet(tasks) \/ (dead[CPU] = t /\ pc[Reaper] = "detach")

\* The list of tasks has those that were created and not yet reaped.
Listed ==
    /\ IsInjective(tasks)
    /\ \A t \in ToSet(tasks) : /\ state[t] # "NONE" /\ t \notin freed
                               /\ t \in threads[process[t]] /\ process[t] \in space
    /\ \A t \in Tasks : state[t] \notin {"NONE", "DEAD"} => t \in ToSet(tasks)
    /\ \A t \in freed : t \in Tasks /\ state[t] = "DEAD"

Reaping ==
    /\ pc[Reaper] \in {"find", "clear", "rest"} \cup ReapPoints
    /\ pc[Reaper] \in ReapPoints \cup {"clear"} =>
          current[CPU] = Reaper /\ needs_cleanup[CPU] /\ cpu[CPU] \in {"run", "enter", "pick", "check", "commit"}
    /\ pc[Reaper] = "find" /\ current[CPU] = Reaper /\ cpu[CPU] \in {"run", "ctx"} => needs_cleanup[CPU]
    /\ \A t \in Tasks : Corpse(t) => Awaited(t)
    /\ \A t \in Tasks : pc[t] = "exit_dead" => needs_cleanup[CPU]
    /\ pc[Reaper] \in ReapPoints =>
          /\ dead[CPU] \notin freed /\ pstate[process[dead[CPU]]] # "FREED"
          /\ pc[Reaper] = "remove" <=> dead[CPU] \in ToSet(tasks)
          /\ pc[Reaper] = "detach" => dead[CPU] \in threads[process[dead[CPU]]]
          /\ pc[Reaper] \in {"remove", "detach", "space", "space_free"} => process[dead[CPU]] \in space

Solo == faults = {} /\ Callers /\ Switching /\ Queued /\ Kin /\ Listed /\ Reaping

(* A step of a call is one of the thread that is executed; no other thread *)
(* is inside a call.                                                       *)
LEMMA OnlyCaller ==
    ASSUME OneCpuOnly, Solo, NEW t \in Tasks, Runs(CPU, t), NEW u \in Tasks, u # t
    PROVE  /\ pc[u] \in {"user", "wait_scan", "gone"}
           /\ state[u] # "RUNNING" /\ ~Corpse(u)
  BY Constants DEF OneCpuOnly, Solo, Callers, CallerRuns, StateAt, Runs, Reaping, Awaited, Reaper

(* Steps of a call that change nothing but where the thread is.             *)
LEMMA SoloUserYield ==
    ASSUME OneCpuOnly, IInv, IInv', Solo, NEW t \in Tasks, UserYield(CPU, t)
    PROVE  Solo'
  <1> USE Constants, TypesFacts DEF OneCpuOnly, UserYield, Go, At, Runs, CallSwitch, kept, cpuVars,
                                  taskVars, queueVars, lifeVars, waitVars, procVars, Solo
  <1>0. Types /\ Types'
    BY DEF IInv
  <1>1. faults' = {}
    OBVIOUS
  <1>2. Callers'
    BY <1>0 DEF Callers, CallerRuns, StateAt, WaitAt, CallAt, ExitPoints
  <1>3. Switching'
    BY <1>0 DEF Switching, Reaper
  <1>4. Queued'
    BY <1>0 DEF Queued
  <1>5. Kin'
    BY <1>0 DEF Kin
  <1>6. Listed'
    BY <1>0 DEF Listed
  <1>7. Reaping'
    BY <1>0 DEF Reaping, Corpse, Awaited, Reaper
  <1>8. QED
    BY <1>1, <1>2, <1>3, <1>4, <1>5, <1>6, <1>7

LEMMA SoloForkAdd ==
    ASSUME OneCpuOnly, IInv, IInv', Solo, NEW t \in Tasks, ForkAdd(CPU, t)
    PROVE  Solo'
  <1> USE Constants, TypesFacts DEF OneCpuOnly, ForkAdd, Go, At, Runs, CallSwitch, kept, cpuVars,
                                  taskVars, queueVars, lifeVars, waitVars, procVars, Solo
  <1>0. Types /\ Types'
    BY DEF IInv
  <1>1. faults' = {}
    OBVIOUS
  <1>2. Callers'
    BY <1>0 DEF Callers, CallerRuns, StateAt, WaitAt, CallAt, ExitPoints
  <1>3. Switching'
    BY <1>0 DEF Switching, Reaper
  <1>4. Queued'
    BY <1>0 DEF Queued
  <1>5. Kin'
    BY <1>0 DEF Kin
  <1>6. Listed'
    BY <1>0 DEF Listed
  <1>7. Reaping'
    BY <1>0 DEF Reaping, Corpse, Awaited, Reaper
  <1>8. QED
    BY <1>1, <1>2, <1>3, <1>4, <1>5, <1>6, <1>7

LEMMA SoloExitFlag ==
    ASSUME OneCpuOnly, IInv, IInv', Solo, NEW t \in Tasks, ExitFlag(CPU, t, "exit_flag"),
           UNCHANGED <<waitVars, procVars>>
    PROVE  Solo'
  <1> USE Constants, TypesFacts DEF OneCpuOnly, ExitFlag, Go, At, Runs, CallSwitch, kept, cpuVars,
                                  taskVars, queueVars, lifeVars, waitVars, procVars, Solo
  <1>0. Types /\ Types'
    BY DEF IInv
  <1>1. faults' = {}
    OBVIOUS
  <1>2. Callers'
    BY <1>0 DEF Callers, CallerRuns, StateAt, WaitAt, CallAt, ExitPoints
  <1>3. Switching'
    BY <1>0 DEF Switching, Reaper
  <1>4. Queued'
    BY <1>0 DEF Queued
  <1>5. Kin'
    BY <1>0 DEF Kin
  <1>6. Listed'
    BY <1>0 DEF Listed
  <1>7. Reaping'
    BY <1>0 DEF Reaping, Corpse, Awaited, Reaper
  <1>8. QED
    BY <1>1, <1>2, <1>3, <1>4, <1>5, <1>6, <1>7

LEMMA SoloExitYield ==
    ASSUME OneCpuOnly, IInv, IInv', Solo, NEW t \in Tasks, ExitYield(CPU, t),
           UNCHANGED <<waitVars, procVars>>
    PROVE  Solo'
  <1> USE Constants, TypesFacts DEF OneCpuOnly, ExitYield, Go, At, Runs, CallSwitch, kept, cpuVars,
                                  taskVars, queueVars, lifeVars, waitVars, procVars, Solo
  <1>0. Types /\ Types'
    BY DEF IInv
  <1>1. faults' = {}
    OBVIOUS
  <1>2. Callers'
    BY <1>0 DEF Callers, CallerRuns, StateAt, WaitAt, CallAt, ExitPoints
  <1>3. Switching'
    BY <1>0 DEF Switching, Reaper
  <1>4. Queued'
    BY <1>0 DEF Queued
  <1>5. Kin'
    BY <1>0 DEF Kin
  <1>6. Listed'
    BY <1>0 DEF Listed
  <1>7. Reaping'
    BY <1>0 DEF Reaping, Corpse, Awaited, Reaper
  <1>8. QED
    BY <1>1, <1>2, <1>3, <1>4, <1>5, <1>6, <1>7

LEMMA SoloBlockSwitch ==
    ASSUME OneCpuOnly, IInv, IInv', Solo, NEW t \in Tasks, BlockSwitch(CPU, t, "wait_scan"),
           UNCHANGED <<lifeVars, procVars>>
    PROVE  Solo'
  <1> USE Constants, TypesFacts DEF OneCpuOnly, BlockSwitch, Go, At, Runs, CallSwitch, kept, cpuVars,
                                  taskVars, queueVars, lifeVars, waitVars, procVars, Solo
  <1>0. Types /\ Types'
    BY DEF IInv
  <1>1. faults' = {}
    OBVIOUS
  <1>2. Callers'
    BY <1>0 DEF Callers, CallerRuns, StateAt, WaitAt, CallAt, ExitPoints
  <1>3. Switching'
    BY <1>0 DEF Switching, Reaper
  <1>4. Queued'
    BY <1>0 DEF Queued
  <1>5. Kin'
    BY <1>0 DEF Kin
  <1>6. Listed'
    BY <1>0 DEF Listed
  <1>7. Reaping'
    BY <1>0 DEF Reaping, Corpse, Awaited, Reaper
  <1>8. QED
    BY <1>1, <1>2, <1>3, <1>4, <1>5, <1>6, <1>7

(* proc_manager_create_exec_from: the new process has one thread, and is   *)
(* in the hands of the root until process_set_parent.                      *)
LEMMA SoloForkCreate ==
    ASSUME OneCpuOnly, IInv, IInv', Solo, NEW t \in Tasks, NEW q \in Procs, NEW u \in Tasks,
           ForkCreate(CPU, t, q, u)
    PROVE  Solo'
  <1> USE Constants, TypesFacts DEF OneCpuOnly, Go, At, Runs, kept, cpuVars, waitVars
  <1>0. Types /\ Types' /\ CPU \in Cpus
    BY DEF IInv
  <1>a. /\ state[t] = "RUNNING" /\ process[t] = Root /\ process[t] \in space
        /\ state[u] = "NONE" /\ u # t /\ pc[u] = "user" /\ process[u] = Null /\ Home[u] = CPU
    BY <1>0, Running DEF ForkCreate, IInv, Threads, ThreadOK
  <1>b. q # Root /\ \A x \in Tasks : process[x] # q
    BY DEF ForkCreate, IInv, Threads, ThreadOK, Solo, Kin
  <1>c. /\ pc[t] = "user" /\ pc'[t] = "fork_add" /\ \A x \in AllTasks : x # t => pc'[x] = pc[x]
        /\ current[CPU] = t /\ cpu[CPU] = "run"
        /\ UNCHANGED <<current, cpu, needs_cleanup, next, left, waiting_on, exiting, faults, dead, freed>>
        /\ UNCHANGED <<waiters, blocked, parent>>
    BY <1>0 DEF ForkCreate
  <1>d. /\ state'[u] = "READY" /\ \A x \in AllTasks : x # u => state'[x] = state[x]
        /\ pstate'[q] = "RUNNING" /\ \A p \in Procs : p # q => pstate'[p] = pstate[p]
        /\ process'[u] = q /\ \A x \in Tasks : x # u => process'[x] = process[x]
        /\ threads'[q] = {u} /\ \A p \in Procs : p # q => threads'[p] = threads[p]
        /\ child'[t] = q /\ \A x \in Tasks : x # t => child'[x] = child[x]
        /\ space' = space \cup {q}
        /\ tasks' = Append(tasks, u)
        /\ runnable'[CPU] = Append(runnable[CPU], u)
    BY <1>0, <1>a DEF ForkCreate, EnqueueNew, RunqueueEnqueue, Types, TypeOK
  <1>e. \A x \in Tasks : x # t => pc[x] \in {"user", "wait_scan", "gone"} /\ ~Corpse(x)
    BY OnlyCaller DEF ForkCreate
  <1>f. waiting_on[u] = Null
    BY <1>a DEF Solo, Callers, WaitAt
  <1>1. faults' = {}
    BY <1>c DEF Solo
  <1>2. Callers'
    <2> SUFFICES ASSUME NEW x \in Tasks
                 PROVE  (CallerRuns(x) /\ StateAt(x) /\ WaitAt(x) /\ CallAt(x))'
      BY DEF Callers
    <2>1. CallerRuns(x)' /\ StateAt(x)'
      BY <1>a, <1>c, <1>d DEF Solo, Callers, CallerRuns, StateAt
    <2>2. WaitAt(x)'
      BY <1>a, <1>c, <1>d, <1>e, <1>f DEF Solo, Callers, WaitAt
    <2>3. CallAt(x)'
      <3>1. CASE x = u
        <4>1. u \notin exiting
          BY <1>a DEF Solo, Callers, CallAt, ExitPoints
        <4>2. QED
          BY <1>a, <1>c, <1>d, <3>1, <4>1 DEF ExitPoints, CallAt
      <3>2. CASE x # u
        <4>1. process'[x] = process[x] /\ process[x] # q
          BY <1>b, <1>d, <3>2
        <4>2. process'[x] \in Procs /\ pstate'[process'[x]] = "ZOMBIE" => pc'[x] \in ExitPoints
          BY <1>c, <1>d, <4>1 DEF Solo, Callers, CallAt, ExitPoints
        <4>3. QED
          BY <1>a, <1>c, <1>d, <1>e, <4>1, <4>2 DEF Solo, Callers, CallAt, ExitPoints
      <3>3. QED
        BY <3>1, <3>2
    <2>4. QED
      BY <2>1, <2>2, <2>3
  <1>3. Switching'
    <2>1. \A s \in {Idle[CPU], Reaper} : state'[s] = state[s]
      BY <1>0, <1>d DEF Reaper
    <2>2. QED
      BY <1>a, <1>c, <1>d, <2>1 DEF Solo, Switching
  <1>4. Queued'
    <2>1. runnable[CPU] \in Seq(Tasks) /\ IsInjective(runnable[CPU]) /\ u \notin ToSet(runnable[CPU])
      BY <1>0, <1>a DEF Solo, Queued
    <2>2. /\ IsInjective(runnable'[CPU])
          /\ \A x : x \in ToSet(runnable'[CPU]) <=> x \in ToSet(runnable[CPU]) \/ x = u
      BY <1>d, <2>1, AppendQueue
    <2>3. \A x \in ToSet(runnable'[CPU]) : state'[x] = "READY"
      BY <1>d, <2>1, <2>2, SeqMembers DEF Solo, Queued
    <2>4. QED
      BY <1>c, <2>2, <2>3 DEF Solo, Queued
  <1>5. Kin'
    <2>1. pstate'[Root] = "RUNNING"
      BY <1>b, <1>d DEF Solo, Kin
    <2>2. ASSUME NEW p \in Procs \ {Root}, pstate'[p] # "NONE"
          PROVE  parent'[p] = Root \/ \E x \in Tasks : pc'[x] \in {"fork_add", "fork_parent"} /\ child'[x] = p
      BY <1>c, <1>d, <1>e, <2>2 DEF Solo, Kin
    <2>3. ASSUME NEW p \in Procs, NEW x \in threads'[p] PROVE process'[x] = p
      <3>1. CASE p = q
        BY <1>d, <2>3, <3>1
      <3>2. CASE p # q
        <4>1. x \in threads[p] /\ x \in Tasks /\ process[x] = p
          BY <1>0, <1>d, <2>3, <3>2 DEF Solo, Kin, Types, TypeOK
        <4>2. QED
          BY <1>a, <1>d, <4>1
      <3>3. QED
        BY <3>1, <3>2
    <2>4. \A p \in Procs : pstate'[p] = "FREED" => threads'[p] = {}
      BY <1>d DEF Solo, Kin
    <2>5. QED
      BY <2>1, <2>2, <2>3, <2>4 DEF Kin
  <1>6. Listed'
    <2>1. tasks \in Seq(Tasks) /\ IsInjective(tasks) /\ u \notin ToSet(tasks)
      BY <1>0, <1>a DEF Types, Solo, Listed
    <2>2. /\ IsInjective(tasks')
          /\ \A x : x \in ToSet(tasks') <=> x \in ToSet(tasks) \/ x = u
      BY <1>d, <2>1, AppendQueue
    <2>3. u \notin freed
      BY <1>a DEF Solo, Listed
    <2>4. ASSUME NEW x \in ToSet(tasks)
          PROVE  state'[x] # "NONE" /\ x \in threads'[process'[x]] /\ process'[x] \in space'
      <3>1. x \in Tasks /\ x # u /\ state[x] # "NONE" /\ x \in threads[process[x]] /\ process[x] \in space
        BY <2>1, SeqMembers DEF Solo, Listed
      <3>2. process[x] \in Procs
        BY <1>0, <3>1 DEF IInv, Threads, ThreadOK, Types, TypeOK
      <3>3. QED
        BY <1>b, <1>d, <3>1, <3>2
    <2>5. ASSUME NEW x \in ToSet(tasks')
          PROVE  /\ state'[x] # "NONE" /\ x \notin freed
                 /\ x \in threads'[process'[x]] /\ process'[x] \in space'
      <3>1. CASE x = u
        BY <1>d, <2>3, <3>1
      <3>2. CASE x \in ToSet(tasks)
        BY <2>4, <3>2 DEF Solo, Listed
      <3>3. QED
        BY <2>2, <2>5, <3>1, <3>2
    <2>6. ASSUME NEW x \in Tasks, state'[x] \notin {"NONE", "DEAD"} PROVE x \in ToSet(tasks')
      BY <1>0, <1>d, <2>2, <2>6 DEF Solo, Listed
    <2>7. ASSUME NEW x \in freed PROVE x \in Tasks /\ state'[x] = "DEAD"
      BY <1>0, <1>d, <2>3 DEF Solo, Listed
    <2>8. QED
      BY <1>c, <2>2, <2>5, <2>6, <2>7 DEF Listed
  <1>7. Reaping'
    <2>1. /\ pc'[Reaper] = pc[Reaper] /\ pc[Reaper] \notin ReapPoints \cup {"clear"} /\ current[CPU] # Reaper
          /\ \A x \in Tasks : pc'[x] # "exit_dead"
      <3>1. Reaper \in AllTasks /\ Reaper # t
        BY <1>0 DEF Reaper
      <3>2. pc'[Reaper] = pc[Reaper] /\ \A x \in Tasks : pc'[x] # "exit_dead"
        BY <1>c, <1>e, <3>1
      <3>3. QED
        BY <1>c, <3>1, <3>2 DEF Solo, Reaping
    <2>2. ASSUME NEW x \in Tasks, Corpse(x)' PROVE FALSE
      <3>1. state[x] = "DEAD" /\ x # u /\ x # t
        BY <1>a, <1>d, <2>2 DEF Corpse
      <3>2. process[x] \in Procs
        BY <1>0, <3>1 DEF IInv, Threads, ThreadOK, Types, TypeOK
      <3>3. QED
        BY <1>b, <1>d, <1>e, <2>2, <3>1, <3>2 DEF Corpse
    <2>3. QED
      BY <1>c, <2>1, <2>2 DEF Solo, Reaping
  <1>8. QED
    BY <1>1, <1>2, <1>3, <1>4, <1>5, <1>6, <1>7 DEF Solo

(* process_set_parent: the child knows its parent when the call ends.      *)
LEMMA SoloForkParent ==
    ASSUME OneCpuOnly, IInv, IInv', Solo, NEW t \in Tasks, ForkParent(CPU, t)
    PROVE  Solo'
  <1> USE Constants, TypesFacts DEF OneCpuOnly, Go, At, Runs, CallSwitch, kept, cpuVars, lifeVars, waitVars
  <1>0. Types /\ Types' /\ CPU \in Cpus
    BY DEF IInv
  <1>1. faults' = {}
    BY DEF Solo, ForkParent
  <1>2. Callers'
    BY <1>0 DEF ForkParent, Solo, Callers, CallerRuns, StateAt, WaitAt, CallAt, ExitPoints
  <1>3. Switching'
    BY <1>0 DEF ForkParent, Solo, Switching, Reaper
  <1>4. Queued'
    BY <1>0 DEF ForkParent, Solo, Queued
  <1>5. Kin'
    <2>1. child[t] \in Procs /\ process[t] = Root
      BY Held DEF ForkParent, Holding, Solo, Callers, CallAt
    <2>2. parent'[child[t]] = Root /\ \A p \in Procs : p # child[t] => parent'[p] = parent[p]
      BY <1>0, <2>1 DEF ForkParent, Types, TypeOK
    <2>3. \A u \in Tasks : u # t => pc'[u] = pc[u] /\ child'[u] = child[u]
      BY <1>0 DEF ForkParent, Types, TypeOK
    <2>4. ASSUME NEW p \in Procs \ {Root}, pstate'[p] # "NONE", parent'[p] # Root
          PROVE  \E u \in Tasks : pc'[u] \in {"fork_add", "fork_parent"} /\ child'[u] = p
      <3>1. p # child[t] /\ pstate[p] # "NONE" /\ parent[p] # Root
        BY <2>2, <2>4 DEF ForkParent
      <3>2. PICK u \in Tasks : pc[u] \in {"fork_add", "fork_parent"} /\ child[u] = p
        BY <3>1 DEF Solo, Kin
      <3>3. QED
        BY <2>3, <3>1, <3>2
    <2>5. UNCHANGED <<pstate, threads, process>>
      BY DEF ForkParent
    <2>6. QED
      BY <2>4, <2>5 DEF Solo, Kin
  <1>6. Listed'
    BY <1>0 DEF ForkParent, Solo, Listed
  <1>7. Reaping'
    BY <1>0 DEF ForkParent, Solo, Reaping, Corpse, Awaited, Reaper
  <1>8. QED
    BY <1>1, <1>2, <1>3, <1>4, <1>5, <1>6, <1>7 DEF Solo

(* process_exit: only the thread that calls it is marked.                  *)
LEMMA SoloExitBegin ==
    ASSUME OneCpuOnly, OneThreadEach, IInv, IInv', Solo, NEW t \in Tasks, ExitBegin(CPU, t)
    PROVE  Solo'
  <1> USE Constants, TypesFacts DEF OneCpuOnly, Go, At, Runs, kept, cpuVars, lifeVars, waitVars, procVars
  <1>0. Types /\ Types' /\ CPU \in Cpus
    BY DEF IInv
  <1>1. faults' = {}
    BY DEF Solo, ExitBegin
  <1>a. /\ process[t] \in Procs /\ process[t] # Root
        /\ \A u \in Tasks : process[u] = process[t] => u = t
    BY <1>0, Running DEF ExitBegin, OneThreadEach
  <1>b. \A u : u \in exiting' <=> u \in exiting \/ u = t
    BY <1>a DEF ExitBegin
  <1>c. /\ pc'[t] = "exit_state" /\ \A u \in AllTasks : u # t => pc'[u] = pc[u]
        /\ pc[t] = "user" /\ current[CPU] = t /\ cpu[CPU] = "run"
        /\ UNCHANGED <<current, cpu, state, waiting_on, blocked, process, pstate, child>>
    BY <1>0 DEF ExitBegin
  <1>d. \A u \in Tasks : u # t => pc[u] \in {"user", "wait_scan", "gone"}
    BY OnlyCaller DEF ExitBegin
  <1>2. Callers'
    <2> SUFFICES ASSUME NEW u \in Tasks
                 PROVE  (CallerRuns(u) /\ StateAt(u) /\ WaitAt(u) /\ CallAt(u))'
      BY DEF Callers
    <2>1. CallerRuns(u)' /\ StateAt(u)'
      BY <1>c DEF Solo, Callers, CallerRuns, StateAt
    <2>2. WaitAt(u)'
      BY <1>c, <1>d DEF Solo, Callers, WaitAt
    <2>3. CallAt(u)'
      BY <1>a, <1>b, <1>c, <1>d DEF Solo, Callers, CallAt, ExitPoints
    <2>4. QED
      BY <2>1, <2>2, <2>3
  <1>3. Switching'
    BY <1>0 DEF ExitBegin, Solo, Switching, Reaper
  <1>4. Queued'
    BY <1>0 DEF ExitBegin, Solo, Queued
  <1>5. Kin'
    <2>1. UNCHANGED <<parent, threads>>
      BY DEF ExitBegin
    <2>2. QED
      BY <1>c, <2>1 DEF Solo, Kin
  <1>6. Listed'
    BY <1>0 DEF ExitBegin, Solo, Listed
  <1>7. Reaping'
    <2>1. pc'[Reaper] = pc[Reaper] /\ pc[Reaper] \notin ReapPoints
      BY <1>0, <1>c DEF Reaper, Solo, Reaping
    <2>2. UNCHANGED <<needs_cleanup, dead, tasks, threads>>
      BY DEF ExitBegin
    <2>3. QED
      BY <1>0, <1>c, <2>1, <2>2 DEF Solo, Reaping, Corpse, Awaited, Reaper
  <1>8. QED
    BY <1>1, <1>2, <1>3, <1>4, <1>5, <1>6, <1>7 DEF Solo

(* ... and its process becomes a zombie.                                   *)
LEMMA SoloExitZombie ==
    ASSUME OneCpuOnly, OneThreadEach, IInv, IInv', Solo, NEW t \in Tasks, ExitZombie(CPU, t)
    PROVE  Solo'
  <1> USE Constants, TypesFacts DEF OneCpuOnly, Go, At, Runs, kept, cpuVars, lifeVars, waitVars
  <1>0. Types /\ Types' /\ CPU \in Cpus
    BY DEF IInv
  <1>1. faults' = {}
    BY DEF Solo, ExitZombie
  <1>a. /\ process[t] \in Procs /\ process[t] # Root /\ pstate[process[t]] # "NONE"
        /\ pstate[process[t]] # "FREED"
        /\ \A u \in Tasks : process[u] = process[t] => u = t
    BY <1>0, Running DEF ExitZombie, OneThreadEach, Solo, Callers, CallAt, ExitPoints
  <1>b. pstate'[process[t]] = "ZOMBIE" /\ \A p \in Procs : p # process[t] => pstate'[p] = pstate[p]
    BY <1>0, <1>a DEF ExitZombie, Types, TypeOK
  <1>c. /\ pc'[t] = "exit_parent" /\ \A u \in AllTasks : u # t => pc'[u] = pc[u]
        /\ pc[t] = "exit_state" /\ current[CPU] = t /\ cpu[CPU] = "run"
        /\ UNCHANGED <<current, cpu, state, waiting_on, blocked, process, child, exiting>>
    BY <1>0 DEF ExitZombie
  <1>d. \A u \in Tasks : u # t => pc[u] \in {"user", "wait_scan", "gone"}
    BY OnlyCaller DEF ExitZombie
  <1>2. Callers'
    <2> SUFFICES ASSUME NEW u \in Tasks
                 PROVE  (CallerRuns(u) /\ StateAt(u) /\ WaitAt(u) /\ CallAt(u))'
      BY DEF Callers
    <2>1. CallerRuns(u)' /\ StateAt(u)'
      BY <1>c DEF Solo, Callers, CallerRuns, StateAt
    <2>2. WaitAt(u)'
      BY <1>c, <1>d DEF Solo, Callers, WaitAt
    <2>3. CallAt(u)'
      <3>1. process'[u] \in Procs /\ pstate'[process'[u]] = "ZOMBIE" => pc'[u] \in ExitPoints
        BY <1>a, <1>b, <1>c DEF Solo, Callers, CallAt, ExitPoints
      <3>2. QED
        BY <1>a, <1>c, <1>d, <3>1 DEF Solo, Callers, CallAt, ExitPoints
    <2>4. QED
      BY <2>1, <2>2, <2>3
  <1>3. Switching'
    BY <1>0 DEF ExitZombie, Solo, Switching, Reaper
  <1>4. Queued'
    BY <1>0 DEF ExitZombie, Solo, Queued
  <1>5. Kin'
    <2>1. UNCHANGED <<parent, threads>>
      BY DEF ExitZombie
    <2>2. QED
      BY <1>a, <1>b, <1>c, <2>1 DEF Solo, Kin
  <1>6. Listed'
    BY <1>0 DEF ExitZombie, Solo, Listed
  <1>7. Reaping'
    <2>1. pc'[Reaper] = pc[Reaper] /\ pc[Reaper] \notin ReapPoints
      BY <1>0, <1>c DEF Reaper, Solo, Reaping
    <2>2. UNCHANGED <<needs_cleanup, dead, tasks, threads>>
      BY DEF ExitZombie
    <2>3. QED
      BY <1>0, <1>c, <2>1, <2>2 DEF Solo, Reaping, Corpse, Awaited, Reaper
  <1>8. QED
    BY <1>1, <1>2, <1>3, <1>4, <1>5, <1>6, <1>7 DEF Solo

(* A process that exits is a child of the root, so its parent exists.      *)
LEMMA SoloExitParent ==
    ASSUME OneCpuOnly, IInv, IInv', Solo, NEW t \in Tasks, ExitParent(CPU, t)
    PROVE  Solo'
  <1> USE Constants, TypesFacts DEF OneCpuOnly, Go, At, Runs, kept, cpuVars, lifeVars, waitVars, procVars
  <1>0. Types /\ Types' /\ CPU \in Cpus
    BY DEF IInv
  <1>a. process[t] \in Procs \ {Root} /\ pstate[process[t]] # "NONE"
    BY <1>0, Running DEF ExitParent, Solo, Callers, CallAt, ExitPoints
  <1>b. \A u \in Tasks : pc[u] \notin {"fork_add", "fork_parent"}
    <2>1. pc[t] = "exit_parent" /\ Runs(CPU, t)
      BY DEF ExitParent
    <2>2. QED
      BY <2>1, OnlyCaller
  <1>c. parent[process[t]] = Root /\ Root # Wild /\ Root # Null /\ pstate[Root] = "RUNNING"
    BY <1>a, <1>b, ProcessAssumption DEF Solo, Kin
  <1>d. /\ Go(t, "exit_dequeue") /\ At(CPU, t, "exit_parent") /\ UNCHANGED <<cpu, faults>>
        /\ UNCHANGED <<kept, state, waiting_on, runnable, exiting, lifeVars, waitVars, procVars>>
    BY <1>c DEF ExitParent
  <1>1. faults' = {}
    BY <1>d DEF Solo
  <1>2. Callers'
    BY <1>0, <1>d DEF Solo, Callers, CallerRuns, StateAt, WaitAt, CallAt, ExitPoints
  <1>3. Switching'
    BY <1>0, <1>d DEF Solo, Switching, Reaper
  <1>4. Queued'
    BY <1>0, <1>d DEF Solo, Queued
  <1>5. Kin'
    BY <1>0, <1>d DEF Solo, Kin
  <1>6. Listed'
    BY <1>0, <1>d DEF Solo, Listed
  <1>7. Reaping'
    BY <1>0, <1>d DEF Solo, Reaping, Corpse, Awaited, Reaper
  <1>8. QED
    BY <1>1, <1>2, <1>3, <1>4, <1>5, <1>6, <1>7 DEF Solo

(* scheduler_wake_all takes the next waiter, which has blocked, in hand.   *)
LEMMA SoloExitDequeue ==
    ASSUME OneCpuOnly, IInv, IInv', Solo, NEW t \in Tasks, ExitDequeue(CPU, t)
    PROVE  Solo'
  <1> DEFINE p == parent[process[t]]
             first == Head(waiters[p])
  <1> USE Constants, TypesFacts DEF OneCpuOnly, Go, At, Runs, kept, cpuVars, lifeVars, procVars
  <1>0. Types /\ Types' /\ CPU \in Cpus /\ p \in Procs /\ waiters[p] \in Seq(Tasks)
    BY DEF IInv, Types, ExitDequeue, Threads, ThreadOK
  <1>1. faults' = {}
    BY DEF Solo, ExitDequeue
  <1>a. \A u \in Tasks : u # t => pc[u] \in {"user", "wait_scan", "gone"}
    BY OnlyCaller DEF ExitDequeue
  <1>b. /\ pc[t] = "exit_dequeue" /\ \A u \in AllTasks : u # t => pc'[u] = pc[u]
        /\ current[CPU] = t /\ cpu[CPU] = "run"
        /\ UNCHANGED <<current, cpu, state, exiting, process, pstate, child>>
    BY <1>0 DEF ExitDequeue
  <1>c. \A u \in Tasks : state[u] = "BLOCKED" => waiting_on[u] # Null
    BY <1>a, <1>b DEF Solo, Callers, WaitAt
  <1>d. ASSUME waiters[p] = <<>> PROVE Callers' /\ Queued'
    <2>1. /\ pc' = [pc EXCEPT ![t] = "exit_flag"] /\ waiting_on' = waiting_on
          /\ \A q \in Procs : waiters'[q] = waiters[q]
          /\ \A u \in Tasks : u # t => blocked'[u] = blocked[u]
      BY <1>0, <1>d DEF ExitDequeue, Dequeue, Types
    <2>2. pc'[t] = "exit_flag"
      BY <1>0, <2>1
    <2>3. Callers'
      BY <1>a, <1>b, <1>c, <2>1, <2>2 DEF Solo, Callers, CallerRuns, StateAt, WaitAt, CallAt, ExitPoints
    <2>4. Queued'
      <3>1. UNCHANGED <<runnable, state>>
        BY DEF ExitDequeue
      <3>2. QED
        BY <1>b, <2>1, <3>1 DEF Solo, Queued
    <2>5. QED
      BY <2>3, <2>4
  <1>e. ASSUME waiters[p] # <<>> PROVE Callers' /\ Queued'
    <2>1. first \in Tasks /\ first \in ToSet(waiters[p])
      BY <1>0, <1>e, TailQueue
    <2>2. waiting_on[first] = p /\ first # Null
      BY <1>0, <2>1 DEF Solo, Queued
    <2>3. first # t /\ state[first] = "BLOCKED"
      <3>1. state[t] = "RUNNING"
        BY <1>0, <1>b, Running
      <3>2. waiting_on[t] = Null
        BY <1>0, <1>b, <3>1 DEF Solo, Callers, WaitAt
      <3>3. QED
        BY <1>0, <1>a, <2>1, <2>2, <3>2 DEF Solo, Callers, WaitAt
    <2>4. /\ pc' = [pc EXCEPT ![t] = "exit_ready"]
          /\ blocked' = [blocked EXCEPT ![t] = first]
          /\ waiters' = [waiters EXCEPT ![p] = Tail(@)]
          /\ waiting_on' = [waiting_on EXCEPT ![first] = Null]
      BY <1>e, <2>1, <2>2 DEF ExitDequeue, Dequeue
    <2>5. /\ pc'[t] = "exit_ready" /\ blocked'[t] = first
          /\ waiting_on'[first] = Null
          /\ \A u \in AllTasks : u # first => waiting_on'[u] = waiting_on[u]
          /\ waiters'[p] = Tail(waiters[p]) /\ \A q \in Procs : q # p => waiters'[q] = waiters[q]
      BY <1>0, <2>1, <2>4 DEF Types
    <2> HIDE DEF first, p
    <2>6. Callers'
      <3> SUFFICES ASSUME NEW u \in Tasks
                   PROVE  (CallerRuns(u) /\ StateAt(u) /\ WaitAt(u) /\ CallAt(u))'
        BY DEF Callers
      <3>1. CallerRuns(u)' /\ StateAt(u)' /\ CallAt(u)'
        BY <1>a, <1>b, <2>5 DEF Solo, Callers, CallerRuns, StateAt, CallAt, ExitPoints
      <3>2. WaitAt(u)'
        BY <1>a, <1>b, <1>c, <2>1, <2>3, <2>5 DEF Solo, Callers, WaitAt
      <3>3. QED
        BY <3>1, <3>2
    <2>7. Queued'
      <3>1. UNCHANGED <<runnable, state>>
        BY DEF ExitDequeue
      <3>2. ASSUME NEW q \in Procs
            PROVE  IsInjective(waiters'[q]) /\ ToSet(waiters'[q]) = {u \in Tasks : waiting_on'[u] = q}
        <4>1. IsInjective(waiters[q]) /\ ToSet(waiters[q]) = {u \in Tasks : waiting_on[u] = q}
          BY DEF Solo, Queued
        <4>2. CASE q = p
          <5>1. /\ IsInjective(Tail(waiters[p]))
                /\ \A x : x \in ToSet(Tail(waiters[p])) <=> x \in ToSet(waiters[p]) /\ x # first
            BY <1>0, <1>e, <4>1, <4>2, TailQueue DEF first
          <5>2. QED
            BY <1>0, <2>5, <4>1, <4>2, <5>1
        <4>3. CASE q # p
          BY <1>0, <2>1, <2>2, <2>5, <4>1, <4>3
        <4>4. QED
          BY <4>2, <4>3
      <3>3. QED
        BY <1>b, <3>1, <3>2 DEF Solo, Queued
    <2>8. QED
      BY <2>6, <2>7
  <1>3. Switching'
    <2>1. \A s \in {Idle[CPU], Reaper} : waiting_on'[s] = waiting_on[s] \/ waiting_on'[s] = Null
      BY <1>0 DEF ExitDequeue, Dequeue, Reaper
    <2>2. UNCHANGED <<next, left, space, runnable>>
      BY DEF ExitDequeue
    <2>3. QED
      BY <1>b, <2>1, <2>2 DEF Solo, Switching
  <1>5. Kin'
    <2>1. UNCHANGED <<parent, threads>> /\ \A u \in Tasks : pc'[u] = pc[u] \/ pc[u] \notin {"fork_add", "fork_parent"}
      BY <1>b DEF ExitDequeue
    <2>2. QED
      BY <1>b, <2>1 DEF Solo, Kin
  <1>6. Listed'
    BY <1>0 DEF ExitDequeue, Solo, Listed
  <1>7. Reaping'
    <2>1. pc'[Reaper] = pc[Reaper] /\ \A u \in Tasks : pc'[u] # "exit_dead"
      BY <1>0, <1>a, <1>b DEF ExitDequeue, Reaper
    <2>2. UNCHANGED <<needs_cleanup, dead, tasks, threads, freed>>
      BY DEF ExitDequeue
    <2>3. QED
      BY <1>b, <2>1, <2>2 DEF Solo, Reaping, Corpse, Awaited
  <1>8. QED
    BY <1>1, <1>d, <1>e, <1>3, <1>5, <1>6, <1>7 DEF Solo

(* scheduler_wake_blocked: the waiter in hand is blocked and in no queue.  *)
LEMMA SoloExitReady ==
    ASSUME OneCpuOnly, IInv, IInv', Solo, NEW t \in Tasks, ExitReady(CPU, t)
    PROVE  Solo'
  <1> DEFINE w == blocked[t]
  <1> USE Constants, TypesFacts DEF OneCpuOnly, Go, At, Runs, kept, cpuVars, lifeVars, procVars
  <1>0. Types /\ Types' /\ CPU \in Cpus
    BY DEF IInv
  <1>a. w \in Tasks /\ w \in AllTasks /\ state[w] = "BLOCKED" /\ waiting_on[w] = Null /\ Home[w] = CPU
    BY DEF IInv, Threads, ThreadOK, ExitReady, Solo, Callers, WaitAt
  <1>b. /\ state' = [state EXCEPT ![w] = "READY"]
        /\ runnable' = [runnable EXCEPT ![CPU] = Append(@, w)]
        /\ UNCHANGED <<cpu, faults>>
    BY <1>a DEF ExitReady, Wake, RunqueueEnqueue
  <1>c. /\ state'[w] = "READY" /\ \A u \in AllTasks : u # w => state'[u] = state[u]
        /\ runnable'[CPU] = Append(runnable[CPU], w)
    BY <1>0, <1>a, <1>b
  <1>d. /\ pc[t] = "exit_ready" /\ pc'[t] = "exit_dequeue"
        /\ \A u \in AllTasks : u # t => pc'[u] = pc[u]
        /\ \A u \in Tasks : u # t => blocked'[u] = blocked[u]
        /\ current[CPU] = t /\ cpu[CPU] = "run"
        /\ UNCHANGED <<current, waiting_on, exiting, process, pstate, child>>
    BY <1>0 DEF ExitReady, Types
  <1>e. \A u \in Tasks : u # t => pc[u] \in {"user", "wait_scan", "gone"}
    BY OnlyCaller DEF ExitReady
  <1>1. faults' = {}
    BY <1>b DEF Solo
  <1>2. Callers'
    <2> SUFFICES ASSUME NEW u \in Tasks
                 PROVE  (CallerRuns(u) /\ StateAt(u) /\ WaitAt(u) /\ CallAt(u))'
      BY DEF Callers
    <2>1. CallerRuns(u)' /\ StateAt(u)'
      BY <1>a, <1>b, <1>c, <1>d DEF Solo, Callers, CallerRuns, StateAt
    <2>2. WaitAt(u)'
      BY <1>a, <1>c, <1>d, <1>e DEF Solo, Callers, WaitAt
    <2>3. CallAt(u)'
      BY <1>d, <1>e DEF Solo, Callers, CallAt, ExitPoints
    <2>4. QED
      BY <2>1, <2>2, <2>3
  <1>3. Switching'
    <2>1. UNCHANGED <<next, left, space>>
      BY DEF ExitReady
    <2>2. \A s \in {Idle[CPU], Reaper} : state'[s] = state[s]
      BY <1>0, <1>a, <1>c DEF Reaper
    <2>3. QED
      BY <1>b, <1>d, <2>1, <2>2 DEF Solo, Switching
  <1>4. Queued'
    <2>1. runnable[CPU] \in Seq(Tasks) /\ IsInjective(runnable[CPU]) /\ w \notin ToSet(runnable[CPU])
      BY <1>0, <1>a DEF Solo, Queued
    <2>2. /\ IsInjective(runnable'[CPU])
          /\ \A x : x \in ToSet(runnable'[CPU]) <=> x \in ToSet(runnable[CPU]) \/ x = w
      BY <1>a, <1>c, <2>1, AppendQueue
    <2>3. \A u \in ToSet(runnable'[CPU]) : state'[u] = "READY"
      <3>1. \A u \in ToSet(runnable[CPU]) : u \in AllTasks /\ state[u] = "READY" /\ u # w
        BY <1>a, <2>1, SeqMembers DEF Solo, Queued
      <3>2. QED
        BY <1>c, <2>2, <3>1
    <2>4. UNCHANGED waiters
      BY DEF ExitReady
    <2>5. QED
      BY <1>b, <1>d, <2>2, <2>3, <2>4 DEF Solo, Queued
  <1>5. Kin'
    <2>1. UNCHANGED <<parent, threads>>
      BY DEF ExitReady
    <2>2. QED
      BY <1>d, <2>1 DEF Solo, Kin
  <1>6. Listed'
    <2>1. UNCHANGED <<tasks, freed, threads, space>> /\ tasks \in Seq(Tasks)
      BY <1>0 DEF ExitReady, Types
    <2>2. ASSUME NEW x \in ToSet(tasks) PROVE state'[x] # "NONE"
      BY <1>c, <2>1, SeqMembers DEF Solo, Listed
    <2>3. ASSUME NEW x \in Tasks, state'[x] \notin {"NONE", "DEAD"} PROVE x \in ToSet(tasks)
      BY <1>0, <1>a, <1>c, <2>3 DEF Solo, Listed
    <2>4. ASSUME NEW x \in freed PROVE x \in Tasks /\ state'[x] = "DEAD"
      BY <1>0, <1>a, <1>c DEF Solo, Listed
    <2>5. QED
      BY <1>d, <2>1, <2>2, <2>3, <2>4 DEF Solo, Listed
  <1>7. Reaping'
    <2>1. pc'[Reaper] = pc[Reaper] /\ \A u \in Tasks : pc'[u] # "exit_dead"
      BY <1>0, <1>d, <1>e DEF Reaper
    <2>2. UNCHANGED <<needs_cleanup, dead, tasks, threads, freed>>
      BY DEF ExitReady
    <2>3. \A u \in Tasks : Corpse(u)' => Corpse(u)
      BY <1>c, <1>d, <2>2 DEF Corpse
    <2>4. QED
      BY <1>b, <1>d, <2>1, <2>2, <2>3 DEF Solo, Reaping, Awaited
  <1>8. QED
    BY <1>1, <1>2, <1>3, <1>4, <1>5, <1>6, <1>7 DEF Solo

(* task_exit: the thread is dead, its process still counts it, and the     *)
(* cleanup task was asked for.                                             *)
LEMMA SoloExitDead ==
    ASSUME OneCpuOnly, IInv, IInv', Solo, NEW t \in Tasks, ExitDead(CPU, t), UNCHANGED <<waitVars, procVars>>
    PROVE  Solo'
  <1> USE Constants, TypesFacts DEF OneCpuOnly, Go, At, Runs, taskVars, queueVars, cpuVars, lifeVars, waitVars, procVars
  <1>0. Types /\ Types' /\ CPU \in Cpus
    BY DEF IInv
  <1>a. state[t] = "RUNNING" /\ process[t] \in Procs
    BY <1>0, Running DEF ExitDead
  <1>b. /\ state'[t] = "DEAD" /\ \A u \in AllTasks : u # t => state'[u] = state[u]
        /\ pc[t] = "exit_dead" /\ pc'[t] = "exit_yield" /\ \A u \in AllTasks : u # t => pc'[u] = pc[u]
        /\ current[CPU] = t /\ cpu[CPU] = "run"
        /\ UNCHANGED <<current, cpu, needs_cleanup, runnable, waiting_on, exiting>>
        /\ UNCHANGED <<waiters, blocked, process, pstate, threads, parent, space, child, tasks, dead, freed, next, left>>
    BY <1>0 DEF ExitDead
  <1>c. waiting_on[t] = Null
    BY <1>a, <1>b DEF Solo, Callers, WaitAt
  <1>d. \A u \in Tasks : u # t => pc[u] \in {"user", "wait_scan", "gone"}
    BY OnlyCaller DEF ExitDead
  <1>1. faults' = {}
    BY DEF Solo, ExitDead
  <1>2. Callers'
    BY <1>a, <1>b, <1>c, <1>d DEF Solo, Callers, CallerRuns, StateAt, WaitAt, CallAt, ExitPoints
  <1>3. Switching'
    <2>1. \A s \in {Idle[CPU], Reaper} : state'[s] = state[s]
      BY <1>0, <1>b DEF Reaper
    <2>2. QED
      BY <1>b, <2>1 DEF Solo, Switching
  <1>4. Queued'
    <2>1. runnable[CPU] \in Seq(Tasks) /\ t \notin ToSet(runnable[CPU])
      BY <1>0, <1>a DEF Solo, Queued
    <2>2. QED
      BY <1>b, <2>1, SeqMembers DEF Solo, Queued
  <1>5. Kin'
    BY <1>b DEF Solo, Kin
  <1>6. Listed'
    <2>1. tasks \in Seq(Tasks)
      BY <1>0 DEF Types
    <2>2. QED
      BY <1>b, <2>1, SeqMembers DEF Solo, Listed
  <1>7. Reaping'
    <2>1. pc'[Reaper] = pc[Reaper] /\ pc[Reaper] \notin ReapPoints \cup {"clear"} /\ current[CPU] # Reaper
      BY <1>0, <1>b DEF Reaper, Solo, Reaping
    <2>2. needs_cleanup[CPU] /\ t \in ToSet(tasks)
      BY <1>a, <1>b DEF Solo, Reaping, Listed
    <2>3. Awaited(t)'
      BY <1>b, <2>1, <2>2 DEF Awaited
    <2>4. \A u \in Tasks : u # t => ~Corpse(u)'
      BY <1>b, OnlyCaller DEF ExitDead, Corpse
    <2>5. QED
      BY <1>b, <1>d, <2>1, <2>2, <2>3, <2>4 DEF Solo, Reaping
  <1>8. QED
    BY <1>1, <1>2, <1>3, <1>4, <1>5, <1>6, <1>7 DEF Solo

(* A step of the scan, or of the removal: it moves the thread, and what it *)
(* works on, and nothing else that the invariant is about.                 *)
LEMMA SoloWaitMoves ==
    ASSUME OneCpuOnly, IInv, IInv', Solo, NEW t \in Tasks, Runs(CPU, t),
           pc[t] \in {"user", "wait_scan", "wait_look", "wait_remove", "wait_copy"},
           pc'[t] \in {"user", "wait_look", "wait_remove", "wait_copy", "wait_destroy", "wait_enqueue"},
           \A u \in AllTasks : u # t => pc'[u] = pc[u],
           \A u \in Tasks : u # t => child'[u] = child[u],
           UNCHANGED <<current, cpu, needs_cleanup, next, left, state, waiting_on, runnable, exiting, faults>>,
           UNCHANGED <<tasks, dead, freed, waiters, blocked, process, pstate, threads, parent, space>>
    PROVE  Solo'
  <1> USE Constants, TypesFacts DEF OneCpuOnly, Runs
  <1>0. Types /\ Types' /\ CPU \in Cpus
    BY DEF IInv
  <1>b. state[t] = "RUNNING" /\ process[t] \in Procs /\ waiting_on[t] = Null
    BY <1>0, Running DEF Solo, Callers, WaitAt
  <1>f. \A u \in Tasks : u # t => pc[u] \in {"user", "wait_scan", "gone"}
    BY OnlyCaller
  <1>2. Callers'
    <2> SUFFICES ASSUME NEW u \in Tasks
                 PROVE  (CallerRuns(u) /\ StateAt(u) /\ WaitAt(u) /\ CallAt(u))'
      BY DEF Callers
    <2>1. CallerRuns(u)' /\ StateAt(u)'
      BY <1>b DEF Solo, Callers, CallerRuns, StateAt
    <2>2. WaitAt(u)'
      BY <1>b, <1>f DEF Solo, Callers, WaitAt
    <2>3. CallAt(u)'
      BY <1>f DEF Solo, Callers, CallAt, ExitPoints
    <2>4. QED
      BY <2>1, <2>2, <2>3
  <1>3. Switching'
    BY DEF Solo, Switching
  <1>4. Queued'
    BY DEF Solo, Queued
  <1>5. Kin'
    BY DEF Solo, Kin
  <1>6. Listed'
    BY DEF Solo, Listed
  <1>7. Reaping'
    <2>1. pc'[Reaper] = pc[Reaper] /\ \A u \in Tasks : pc'[u] # "exit_dead"
      BY <1>0, <1>f DEF Reaper
    <2>2. QED
      BY <2>1 DEF Solo, Reaping, Corpse, Awaited
  <1>8. QED
    BY <1>2, <1>3, <1>4, <1>5, <1>6, <1>7 DEF Solo

(* The scan of the children, its removal and the copy find no process that *)
(* was freed.                                                              *)
LEMMA SoloWaits ==
    ASSUME OneCpuOnly, IInv, IInv', FInv, Solo, NEW t \in Tasks,
           WaitScan(CPU, t) \/ WaitLook(CPU, t) \/ WaitRemove(CPU, t) \/ WaitCopy(CPU, t)
    PROVE  Solo'
  <1> USE Constants, TypesFacts DEF OneCpuOnly, Go, At, kept, cpuVars, lifeVars, waitVars
  <1>0. Types /\ Types' /\ CPU \in Cpus /\ child \in [Tasks -> Procs \cup {Null}] /\ t \in AllTasks
    BY DEF IInv, Types, TypeOK
  <1>1. Runs(CPU, t) /\ pc[t] \in {"user", "wait_scan", "wait_look", "wait_remove", "wait_copy"}
    BY DEF WaitScan, WaitLook, WaitRemove, WaitCopy
  <1>2. UNCHANGED <<current, cpu, needs_cleanup, next, left, state, waiting_on, runnable, exiting>>
    BY DEF WaitScan, WaitLook, WaitRemove, WaitCopy
  <1>3. UNCHANGED <<tasks, dead, freed, waiters, blocked, process, pstate, threads, parent, space>>
    BY DEF WaitScan, WaitLook, WaitRemove, WaitCopy
  <1>4. pc[t] \in {"wait_look", "wait_remove"} => pstate[child[t]] # "FREED"
    <2> SUFFICES ASSUME pc[t] \in {"wait_look", "wait_remove"} PROVE pstate[child[t]] # "FREED"
      OBVIOUS
    <2>1. process[t] \in Procs
      BY <1>0, <1>1, Running
    <2>2. child[t] \in ToSet(children[process[t]])
      BY DEF FInv, TakenOK, Beside
    <2>3. QED
      BY <2>1, <2>2 DEF FInv, ListOK
  <1>5. UNCHANGED faults
    BY <1>4 DEF WaitScan, WaitLook, WaitRemove, WaitCopy
  <1>6. \E to \in {"user", "wait_look", "wait_remove", "wait_copy", "wait_destroy", "wait_enqueue"} : Go(t, to)
    BY <1>4 DEF WaitScan, WaitLook, WaitRemove, WaitCopy
  <1>7. /\ pc'[t] \in {"user", "wait_look", "wait_remove", "wait_copy", "wait_destroy", "wait_enqueue"}
        /\ \A u \in AllTasks : u # t => pc'[u] = pc[u]
    BY <1>0, <1>6
  <1>8. \A u \in Tasks : u # t => child'[u] = child[u]
    <2>1. child' = child \/ \E q : child' = [child EXCEPT ![t] = q]
      BY DEF WaitScan, WaitLook, WaitRemove, WaitCopy
    <2>2. QED
      BY <1>0, <2>1
  <1>9. QED
    BY <1>1, <1>2, <1>3, <1>5, <1>7, <1>8, SoloWaitMoves

(* proc_manager_remove_destroy: the cleanup task was there before, so the  *)
(* zombie has no threads.                                                  *)
LEMMA SoloWaitDestroy ==
    ASSUME OneCpuOnly, IInv, IInv', FInv, Solo, NEW t \in Tasks, WaitDestroy(CPU, t)
    PROVE  Solo'
  <1> DEFINE q == child[t]
  <1> USE Constants, TypesFacts DEF OneCpuOnly, Go, At, Runs, kept, cpuVars, lifeVars, waitVars
  <1>0. Types /\ Types' /\ CPU \in Cpus
    BY DEF IInv
  <1>a. q \in Procs /\ pstate[q] = "ZOMBIE"
    BY Held DEF Holding, WaitDestroy, FInv, TakenOK
  <1>b. threads[q] = {}
    <2> SUFFICES ASSUME NEW u \in threads[q] PROVE FALSE
      OBVIOUS
    <2>1. u \in Tasks /\ process[u] = q
      BY <1>0, <1>a DEF Types, TypeOK, Solo, Kin
    <2>2. pc[u] \in ExitPoints
      BY <1>a, <2>1 DEF Solo, Callers, CallAt
    <2>3. u # t
      BY <2>2 DEF WaitDestroy, ExitPoints
    <2>4. pc[u] = "gone" /\ ~Corpse(u)
      BY <2>1, <2>2, <2>3, OnlyCaller DEF WaitDestroy, ExitPoints
    <2>5. state[u] = "DEAD"
      BY <2>1, <2>4 DEF Solo, Callers, StateAt
    <2>6. QED
      BY <2>1, <2>4, <2>5 DEF Corpse
  <1>g. ~Dangling(q)
    <2>1. current[CPU] = t /\ current[CPU] # Reaper
      BY <1>0 DEF WaitDestroy, Reaper
    <2>2. pc[Reaper] \notin ReapPoints
      BY <2>1 DEF Solo, Reaping
    <2>3. QED
      BY <2>2 DEF Dangling, ReapPoints, Reaper
  <1>c. /\ pstate' = [pstate EXCEPT ![q] = "FREED"]
        /\ space' = space \ {q} /\ child' = [child EXCEPT ![t] = Null]
        /\ Go(t, "user") /\ UNCHANGED <<cpu, faults>>
    BY <1>a, <1>b, <1>g DEF WaitDestroy
  <1>d. /\ pc[t] = "wait_destroy" /\ pc'[t] = "user" /\ \A u \in AllTasks : u # t => pc'[u] = pc[u]
        /\ \A u \in Tasks : u # t => child'[u] = child[u]
        /\ pstate'[q] = "FREED" /\ \A p \in Procs : p # q => pstate'[p] = pstate[p]
        /\ current[CPU] = t /\ cpu[CPU] = "run"
        /\ UNCHANGED <<current, needs_cleanup, next, left, state, waiting_on, runnable, exiting>>
        /\ UNCHANGED <<tasks, dead, freed, waiters, blocked, process, threads, parent>>
    BY <1>0, <1>a, <1>c DEF WaitDestroy, Types, TypeOK
  <1>e. /\ \A u \in Tasks : u # t => pc[u] \in {"user", "wait_scan", "gone"}
        /\ state[t] = "RUNNING" /\ process[t] \in space
    BY <1>0, OnlyCaller, Running DEF WaitDestroy
  <1>f. process[t] # q
    BY <1>a, <1>d DEF Solo, Callers, CallAt, ExitPoints
  <1> HIDE DEF q
  <1>1. faults' = {}
    BY <1>c DEF Solo
  <1>2. Callers'
    <2> SUFFICES ASSUME NEW u \in Tasks
                 PROVE  (CallerRuns(u) /\ StateAt(u) /\ WaitAt(u) /\ CallAt(u))'
      BY DEF Callers
    <2>1. CallerRuns(u)' /\ StateAt(u)'
      BY <1>c, <1>d, <1>e DEF Solo, Callers, CallerRuns, StateAt
    <2>2. WaitAt(u)'
      BY <1>d, <1>e DEF Solo, Callers, WaitAt
    <2>3. CallAt(u)'
      BY <1>a, <1>d, <1>e DEF Solo, Callers, CallAt, ExitPoints
    <2>4. QED
      BY <2>1, <2>2, <2>3
  <1>3. Switching'
    BY <1>c, <1>d, <1>e, <1>f DEF Solo, Switching
  <1>4. Queued'
    BY <1>c, <1>d DEF Solo, Queued
  <1>5. Kin'
    BY <1>a, <1>b, <1>d DEF Solo, Kin
  <1>6. Listed'
    <2>1. ASSUME NEW x \in ToSet(tasks) PROVE process[x] \in space'
      <3>1. x \in threads[process[x]] /\ process[x] \in space
        BY DEF Solo, Listed
      <3>2. QED
        BY <1>b, <1>c, <3>1
    <2>2. QED
      BY <1>d, <2>1 DEF Solo, Listed
  <1>7. Reaping'
    <2>1. pc'[Reaper] = pc[Reaper] /\ pc[Reaper] \notin ReapPoints /\ \A u \in Tasks : pc'[u] # "exit_dead"
      BY <1>0, <1>d, <1>e DEF Reaper, Solo, Reaping
    <2>2. QED
      BY <1>c, <1>d, <2>1 DEF Solo, Reaping, Corpse, Awaited
  <1>8. QED
    BY <1>1, <1>2, <1>3, <1>4, <1>5, <1>6, <1>7 DEF Solo

(* waitqueue_enqueue: the thread waits in the queue of its process, once.  *)
LEMMA SoloWaitEnqueue ==
    ASSUME OneCpuOnly, IInv, IInv', Solo, NEW t \in Tasks, WaitEnqueue(CPU, t)
    PROVE  Solo'
  <1> DEFINE p == process[t]
  <1> USE Constants, TypesFacts DEF OneCpuOnly, Go, At, Runs, kept, cpuVars, lifeVars, procVars
  <1>0. Types /\ Types' /\ CPU \in Cpus
    BY DEF IInv
  <1>a. p \in Procs /\ state[t] = "RUNNING" /\ p # Null
    BY <1>0, Running DEF WaitEnqueue
  <1>b. /\ pc[t] = "wait_enqueue" /\ pc'[t] = "block" /\ \A u \in AllTasks : u # t => pc'[u] = pc[u]
        /\ waiting_on'[t] = p /\ \A u \in AllTasks : u # t => waiting_on'[u] = waiting_on[u]
        /\ waiters'[p] = Append(waiters[p], t) /\ \A q \in Procs : q # p => waiters'[q] = waiters[q]
        /\ current[CPU] = t /\ cpu[CPU] = "run"
        /\ UNCHANGED <<current, cpu, needs_cleanup, next, left, state, runnable, exiting, faults, blocked>>
        /\ UNCHANGED <<tasks, dead, freed, process, pstate, threads, parent, space, child>>
    BY <1>0, <1>a DEF WaitEnqueue, Enqueue, Types
  <1>c. waiting_on[t] = Null
    BY <1>a, <1>b DEF Solo, Callers, WaitAt
  <1>d. \A u \in Tasks : u # t => pc[u] \in {"user", "wait_scan", "gone"}
    BY OnlyCaller DEF WaitEnqueue
  <1> HIDE DEF p
  <1>1. faults' = {}
    BY <1>b DEF Solo
  <1>2. Callers'
    <2> SUFFICES ASSUME NEW u \in Tasks
                 PROVE  (CallerRuns(u) /\ StateAt(u) /\ WaitAt(u) /\ CallAt(u))'
      BY DEF Callers
    <2>1. CallerRuns(u)' /\ StateAt(u)'
      BY <1>a, <1>b DEF Solo, Callers, CallerRuns, StateAt
    <2>2. WaitAt(u)'
      BY <1>a, <1>b, <1>d DEF Solo, Callers, WaitAt
    <2>3. CallAt(u)'
      BY <1>b, <1>d DEF Solo, Callers, CallAt, ExitPoints
    <2>4. QED
      BY <2>1, <2>2, <2>3
  <1>3. Switching'
    <2>1. \A s \in {Idle[CPU], Reaper} : waiting_on'[s] = waiting_on[s]
      BY <1>0, <1>b DEF Reaper
    <2>2. QED
      BY <1>b, <2>1 DEF Solo, Switching
  <1>4. Queued'
    <2>1. waiters[p] \in Seq(Tasks) /\ IsInjective(waiters[p]) /\ t \notin ToSet(waiters[p])
      BY <1>0, <1>a, <1>c DEF Solo, Queued, Types
    <2>2. /\ IsInjective(waiters'[p])
          /\ \A x : x \in ToSet(waiters'[p]) <=> x \in ToSet(waiters[p]) \/ x = t
      BY <1>b, <2>1, AppendQueue
    <2>3. ASSUME NEW q \in Procs
          PROVE  IsInjective(waiters'[q]) /\ ToSet(waiters'[q]) = {u \in Tasks : waiting_on'[u] = q}
      <3>1. IsInjective(waiters[q]) /\ ToSet(waiters[q]) = {u \in Tasks : waiting_on[u] = q}
        BY DEF Solo, Queued
      <3>2. CASE q = p
        <4>1. \A u \in Tasks : waiting_on'[u] = p <=> waiting_on[u] = p \/ u = t
          BY <1>b
        <4>2. \A x : x \in ToSet(waiters[p]) <=> x \in Tasks /\ waiting_on[x] = p
          BY <3>1, <3>2
        <4>3. \A x : x \in ToSet(waiters'[p]) <=> x \in Tasks /\ waiting_on'[x] = p
          BY <2>2, <4>1, <4>2
        <4>4. QED
          BY <2>2, <3>2, <4>3
      <3>3. CASE q # p
        BY <1>b, <1>c, <3>1, <3>3
      <3>4. QED
        BY <3>2, <3>3
    <2>4. QED
      BY <1>b, <2>3 DEF Solo, Queued
  <1>5. Kin'
    BY <1>b DEF Solo, Kin
  <1>6. Listed'
    BY <1>b DEF Solo, Listed
  <1>7. Reaping'
    <2>a. Reaper \in AllTasks /\ Reaper # t
      BY <1>0 DEF Reaper
    <2>1. pc'[Reaper] = pc[Reaper] /\ \A u \in Tasks : pc'[u] # "exit_dead"
      BY <1>b, <1>d, <2>a
    <2>2. QED
      BY <1>b, <2>1 DEF Solo, Reaping, Corpse, Awaited
  <1>8. QED
    BY <1>1, <1>2, <1>3, <1>4, <1>5, <1>6, <1>7 DEF Solo

(* scheduler_block_current: the caller runs and waits in a queue.          *)
LEMMA SoloBlockCurrent ==
    ASSUME OneCpuOnly, IInv, IInv', Solo, NEW t \in Tasks, BlockCurrent(CPU, t), UNCHANGED <<lifeVars, procVars>>
    PROVE  Solo'
  <1> USE Constants, TypesFacts DEF OneCpuOnly, Go, At, Runs, queueVars, cpuVars, lifeVars, waitVars, procVars
  <1>0. Types /\ Types' /\ CPU \in Cpus
    BY DEF IInv
  <1>a. state[t] = "RUNNING" /\ waiting_on[t] # Null
    BY <1>0, Running DEF BlockCurrent, Solo, Callers, WaitAt
  <1>b. state' = [state EXCEPT ![t] = "BLOCKED"] /\ Go(t, "block_switch") /\ UNCHANGED <<cpu, faults>>
    BY <1>a DEF BlockCurrent
  <1>c. /\ state'[t] = "BLOCKED" /\ \A u \in AllTasks : u # t => state'[u] = state[u]
        /\ pc[t] = "block" /\ pc'[t] = "block_switch" /\ \A u \in AllTasks : u # t => pc'[u] = pc[u]
        /\ current[CPU] = t /\ cpu[CPU] = "run"
        /\ UNCHANGED <<current, needs_cleanup, next, left, waiting_on, runnable, exiting, waiters, blocked>>
        /\ UNCHANGED <<tasks, dead, freed, process, pstate, threads, parent, space, child>>
    BY <1>0, <1>b DEF BlockCurrent
  <1>d. \A u \in Tasks : u # t => pc[u] \in {"user", "wait_scan", "gone"}
    BY OnlyCaller DEF BlockCurrent
  <1>1. faults' = {}
    BY <1>b DEF Solo
  <1>2. Callers'
    BY <1>a, <1>b, <1>c, <1>d DEF Solo, Callers, CallerRuns, StateAt, WaitAt, CallAt, ExitPoints
  <1>3. Switching'
    <2>1. \A s \in {Idle[CPU], Reaper} : state'[s] = state[s]
      BY <1>0, <1>c DEF Reaper
    <2>2. QED
      BY <1>b, <1>c, <2>1 DEF Solo, Switching
  <1>4. Queued'
    <2>1. runnable[CPU] \in Seq(Tasks) /\ t \notin ToSet(runnable[CPU])
      BY <1>0, <1>a DEF Solo, Queued
    <2>2. QED
      BY <1>b, <1>c, <2>1, SeqMembers DEF Solo, Queued
  <1>5. Kin'
    BY <1>c DEF Solo, Kin
  <1>6. Listed'
    <2>1. tasks \in Seq(Tasks) /\ t \in ToSet(tasks)
      BY <1>0, <1>a DEF Types, Solo, Listed
    <2>2. QED
      BY <1>a, <1>c, <2>1, SeqMembers DEF Solo, Listed
  <1>7. Reaping'
    <2>a. Reaper \in AllTasks /\ Reaper # t
      BY <1>0 DEF Reaper
    <2>1. pc'[Reaper] = pc[Reaper] /\ \A u \in Tasks : pc'[u] # "exit_dead"
      BY <1>c, <1>d, <2>a
    <2>2. \A u \in Tasks : Corpse(u)' => Corpse(u)
      BY <1>c DEF Corpse
    <2>3. QED
      BY <1>b, <1>c, <2>1, <2>2 DEF Solo, Reaping, Awaited
  <1>8. QED
    BY <1>1, <1>2, <1>3, <1>4, <1>5, <1>6, <1>7 DEF Solo

(* scheduler_switch finds the thread it leaves as its assertions say.      *)
LEMMA SoloSwitchEnter ==
    ASSUME OneCpuOnly, IInv, IInv', Solo, SwitchEnter(CPU), UNCHANGED <<lifeVars, waitVars, procVars>>
    PROVE  Solo'
  <1> DEFINE p == current[CPU]
  <1> USE Constants, TypesFacts DEF OneCpuOnly, cpuVars, lifeVars, waitVars, procVars
  <1>0. Types /\ Types' /\ CPU \in Cpus
    BY DEF IInv
  <1>a. cpu[CPU] = "enter" /\ \A u \in Tasks : pc[u] \in {"user", "wait_scan", "gone"}
    BY DEF SwitchEnter, Solo, Callers, CallerRuns
  <1>b. \A u \in Tasks : waiting_on[u] # Null <=> state[u] = "BLOCKED"
    BY <1>a DEF Solo, Callers, WaitAt
  <1>c. LeaveFault(p) = "none"
    <2>1. p = Null \/ p \in Tasks \/ p \in {Idle[CPU], Reaper}
      BY <1>0, SchedAssumption DEF Reaper
    <2>2. CASE p = Null
      BY <2>2 DEF LeaveFault
    <2>3. CASE p \in Tasks
      <3>1. /\ ~(state[p] = "BLOCKED" /\ waiting_on[p] = Null)
            /\ ~(state[p] = "READY" /\ waiting_on[p] # Null)
            /\ ~(state[p] = "RUNNING" /\ waiting_on[p] # Null)
        BY <1>b, <2>3
      <3>2. QED
        BY <2>3, <3>1 DEF LeaveFault
    <2>4. CASE p \in {Idle[CPU], Reaper}
      <3>1. waiting_on[p] = Null /\ state[p] # "BLOCKED" /\ p \notin Tasks
        BY <1>0, <2>4 DEF Solo, Switching, Reaper
      <3>2. QED
        BY <3>1 DEF LeaveFault
    <2>5. QED
      BY <2>1, <2>2, <2>3, <2>4
  <1>d. /\ cpu'[CPU] = "pick" /\ UNCHANGED faults
        /\ UNCHANGED <<current, needs_cleanup, next, left, waiting_on, exiting, pc, waiters, blocked>>
        /\ UNCHANGED <<tasks, dead, freed, process, pstate, threads, parent, space, child>>
    BY <1>0, <1>c DEF SwitchEnter
  <1>e. CASE p \in Tasks /\ state[p] = "RUNNING"
    <2>1. /\ state'[p] = "READY" /\ \A u \in AllTasks : u # p => state'[u] = state[u]
          /\ runnable'[CPU] = Append(runnable[CPU], p)
      BY <1>0, <1>c, <1>e DEF SwitchEnter
    <2> HIDE DEF p
    <2>2. p \in Tasks /\ state[p] = "RUNNING" /\ \A u \in Tasks : u # p => state[u] # "RUNNING"
      BY <1>e DEF Solo, Callers, StateAt, p
    <2>3. Callers'
      BY <1>a, <1>b, <1>d, <2>1, <2>2 DEF Solo, Callers, CallerRuns, StateAt, WaitAt, CallAt
    <2>4. Switching'
      <3>1. \A s \in {Idle[CPU], Reaper} : state'[s] = state[s]
        BY <1>0, <2>1, <2>2 DEF Reaper
      <3>2. QED
        BY <1>d, <3>1 DEF Solo, Switching
    <2>5. Queued'
      <3>1. runnable[CPU] \in Seq(Tasks) /\ IsInjective(runnable[CPU]) /\ p \notin ToSet(runnable[CPU])
        BY <1>0, <2>2 DEF Solo, Queued
      <3>2. /\ IsInjective(runnable'[CPU])
            /\ \A x : x \in ToSet(runnable'[CPU]) <=> x \in ToSet(runnable[CPU]) \/ x = p
        BY <2>1, <2>2, <3>1, AppendQueue
      <3>3. \A x \in ToSet(runnable'[CPU]) : state'[x] = "READY"
        BY <2>1, <3>1, <3>2, SeqMembers DEF Solo, Queued
      <3>4. QED
        BY <1>d, <3>2, <3>3 DEF Solo, Queued
    <2>6. Kin'
      BY <1>d DEF Solo, Kin
    <2>7. Listed'
      <3>1. tasks \in Seq(Tasks) /\ p \in ToSet(tasks)
        BY <1>0, <2>2 DEF Types, Solo, Listed
      <3>2. QED
        BY <1>d, <2>1, <2>2, <3>1, SeqMembers DEF Solo, Listed
    <2>8. Reaping'
      <3>1. \A u \in Tasks : Corpse(u)' => Corpse(u)
        BY <1>d, <2>1, <2>2 DEF Corpse
      <3>2. QED
        BY <1>a, <1>d, <3>1 DEF Solo, Reaping, Awaited
    <2>9. QED
      BY <1>d, <2>3, <2>4, <2>5, <2>6, <2>7, <2>8 DEF Solo
  <1>f. CASE ~(p \in Tasks /\ state[p] = "RUNNING")
    <2>1. UNCHANGED <<state, runnable>>
      BY <1>c, <1>f DEF SwitchEnter
    <2>2. \A u \in Tasks : state[u] # "RUNNING"
      BY <1>f DEF Solo, Callers, StateAt
    <2>3. Callers'
      BY <1>a, <1>d, <2>1, <2>2 DEF Solo, Callers, CallerRuns, StateAt, WaitAt, CallAt
    <2>4. Switching' /\ Queued' /\ Kin' /\ Listed'
      BY <1>d, <2>1 DEF Solo, Switching, Queued, Kin, Listed
    <2>5. Reaping'
      BY <1>a, <1>d, <2>1 DEF Solo, Reaping, Corpse, Awaited
    <2>6. QED
      BY <1>d, <2>3, <2>4, <2>5 DEF Solo
  <1>8. QED
    BY <1>e, <1>f

(* While the policy picks, no thread runs or is inside a call.             *)
LEMMA NobodyRuns ==
    ASSUME OneCpuOnly, Solo, cpu[CPU] \in {"pick", "check", "commit"}
    PROVE  \A u \in Tasks : /\ pc[u] \in {"user", "wait_scan", "gone"}
                            /\ state[u] # "RUNNING"
                            /\ waiting_on[u] # Null <=> state[u] = "BLOCKED"
  <1>1. \A u \in Tasks : pc[u] \in {"user", "wait_scan", "gone"} /\ state[u] # "RUNNING"
    BY DEF Solo, Callers, CallerRuns, StateAt
  <1>2. QED
    BY <1>1 DEF Solo, Callers, WaitAt

(* What a step of the policy leaves as it is.                              *)
LEMMA PickFrame ==
    ASSUME OneCpuOnly, IInv, Solo, UNCHANGED <<lifeVars, waitVars, procVars>>,
           cpu[CPU] \in {"pick", "check"}, cpu'[CPU] \in {"check", "commit"},
           UNCHANGED <<state, waiting_on, current, needs_cleanup, exiting, pc, faults>>,
           Switching', Queued'
    PROVE  Solo'
  <1> USE DEF lifeVars, waitVars, procVars
  <1>1. Callers'
    BY NobodyRuns DEF Solo, Callers, CallerRuns, StateAt, WaitAt, CallAt
  <1>2. Kin' /\ Listed'
    BY DEF Solo, Kin, Listed
  <1>3. Reaping'
    <2>1. \A u \in Tasks : Corpse(u)' => Corpse(u)
      BY DEF Corpse
    <2>2. \A u \in Tasks : Awaited(u) => Awaited(u)'
      BY DEF Awaited
    <2>3. QED
      BY <2>1, <2>2 DEF Solo, Reaping
  <1>4. QED
    BY <1>1, <1>2, <1>3 DEF Solo

(* The cleanup task goes first, then the first of the run queue, then the  *)
(* idle task.                                                              *)
LEMMA SoloPick ==
    ASSUME OneCpuOnly, IInv, IInv', Solo, UNCHANGED <<lifeVars, waitVars, procVars>>,
           PickCleanup(CPU) \/ PickIdle(CPU) \/ PickFirst(CPU)
    PROVE  Solo'
  <1> USE Constants, TypesFacts
  <1>0. /\ Types /\ Types' /\ CPU \in Cpus /\ Reaper = Cleanup[CPU] /\ Reaper # Idle[CPU]
        /\ Reaper \notin Tasks /\ Idle[CPU] \notin Tasks /\ runnable[CPU] \in Seq(Tasks)
    BY DEF IInv, Reaper, OneCpuOnly
  <1>1. cpu[CPU] = "pick" /\ ~(Picking(CPU) /\ needs_cleanup[CPU])
    BY DEF PickCleanup, PickIdle, PickFirst, Picking, Solo, Switching
  <1>2. /\ UNCHANGED <<state, waiting_on, current, needs_cleanup, exiting, pc, faults>>
        /\ waiters' = waiters /\ process' = process /\ space' = space
    BY DEF PickCleanup, PickIdle, PickFirst, Pick, taskVars, waitVars, procVars
  <1>3. ASSUME NEW n, NEW queue, NEW to \in {"check", "commit"}, Pick(CPU, n, queue, to),
               n = Reaper <=> needs_cleanup[CPU],
               to = "commit" /\ n = Idle[CPU] => queue = <<>>, to = "check" => n \in Tasks,
               IsInjective(queue), \A u \in ToSet(queue) : u \in ToSet(runnable[CPU]),
               n \in Tasks => state[n] = "READY" /\ n \notin ToSet(queue)
        PROVE  Solo'
    <2>1. next'[CPU] = n /\ runnable'[CPU] = queue /\ cpu'[CPU] = to
      BY <1>0, <1>3 DEF Pick
    <2>2. Switching'
      BY <1>2, <1>3, <2>1 DEF Solo, Switching
    <2>3. Queued'
      BY <1>2, <1>3, <2>1 DEF Solo, Queued
    <2>4. QED
      BY <1>1, <1>2, <1>3, <2>1, <2>2, <2>3, PickFrame
  <1>4. IsInjective(runnable[CPU]) /\ \A u \in ToSet(runnable[CPU]) : state[u] = "READY"
    BY DEF Solo, Queued
  <1>5. CASE PickCleanup(CPU)
    <2>1. Pick(CPU, Reaper, runnable[CPU], "commit") /\ needs_cleanup[CPU]
      BY <1>0, <1>5 DEF PickCleanup
    <2>2. QED
      BY <1>0, <1>3, <1>4, <2>1
  <1>6. CASE PickIdle(CPU)
    <2>1. Pick(CPU, Idle[CPU], runnable[CPU], "commit") /\ ~needs_cleanup[CPU] /\ runnable[CPU] = <<>>
      BY <1>1, <1>6 DEF PickIdle
    <2>2. QED
      BY <1>0, <1>3, <1>4, <2>1
  <1>7. CASE PickFirst(CPU)
    <2>1. /\ Pick(CPU, Head(runnable[CPU]), Tail(runnable[CPU]), "check")
          /\ ~needs_cleanup[CPU] /\ runnable[CPU] # <<>>
      BY <1>1, <1>7 DEF PickFirst
    <2>2. /\ Head(runnable[CPU]) \in Tasks /\ Head(runnable[CPU]) \in ToSet(runnable[CPU])
          /\ IsInjective(Tail(runnable[CPU]))
          /\ \A x : x \in ToSet(Tail(runnable[CPU])) <=> x \in ToSet(runnable[CPU]) /\ x # Head(runnable[CPU])
      BY <1>0, <1>4, <2>1, TailQueue
    <2>3. QED
      BY <1>0, <1>3, <1>4, <2>1, <2>2
  <1>8. QED
    BY <1>5, <1>6, <1>7

(* The thread that was picked does not exit, ...                           *)
LEMMA NeverExiting ==
    ASSUME OneCpuOnly, IInv, Solo, CheckExiting(CPU)
    PROVE  FALSE
  <1> DEFINE n == next[CPU]
  <1>0. cpu[CPU] = "check" /\ n \in exiting /\ n \in Tasks
    BY DEF IInv, Types, CheckExiting
  <1>1. state[n] = "READY"
    BY <1>0 DEF Solo, Queued
  <1>2. pc[n] = "gone"
    BY <1>0, NobodyRuns DEF Solo, Callers, CallAt, ExitPoints
  <1>3. QED
    BY <1>0, <1>1, <1>2 DEF Solo, Callers, StateAt

(* ... and is to be switched to.                                           *)
LEMMA SoloCheckLive ==
    ASSUME OneCpuOnly, IInv, IInv', Solo, CheckLive(CPU), UNCHANGED <<lifeVars, waitVars, procVars>>
    PROVE  Solo'
  <1> USE Constants, TypesFacts DEF OneCpuOnly, taskVars, queueVars, cpuVars
  <1>0. Types /\ CPU \in Cpus /\ next[CPU] # Idle[CPU] /\ cpu[CPU] = "check"
    <2>1. Types /\ CPU \in Cpus /\ cpu[CPU] = "check"
      BY DEF IInv, CheckLive
    <2>2. next[CPU] # Idle[CPU]
      BY <2>1 DEF Solo, Queued
    <2>3. QED
      BY <2>1, <2>2
  <1>1. /\ cpu'[CPU] = "commit"
        /\ UNCHANGED <<state, waiting_on, current, needs_cleanup, exiting, pc, faults>>
        /\ UNCHANGED <<next, left, runnable>>
    BY <1>0 DEF CheckLive
  <1>2. UNCHANGED <<waiters, process, space>>
    BY DEF waitVars, procVars
  <1>3. Switching'
    BY <1>0, <1>1, <1>2 DEF Solo, Switching
  <1>4. Queued'
    BY <1>0, <1>1, <1>2 DEF Solo, Queued
  <1>5. QED
    BY <1>0, <1>1, <1>3, <1>4, PickFrame

(* Another task is picked when no cleanup is asked for, so nobody is dead  *)
(* and still counted.                                                      *)
LEMMA NoCorpses ==
    ASSUME OneCpuOnly, Solo, ~needs_cleanup[CPU]
    PROVE  /\ pc[Reaper] \notin ReapPoints \cup {"clear"}
           /\ \A u \in Tasks : ~Corpse(u) /\ pc[u] # "exit_dead"
  BY DEF Solo, Reaping, Awaited

(* The task that was picked is as the assertions of scheduler_switch say.  *)
LEMMA SoloSwitchTo ==
    ASSUME OneCpuOnly, IInv, IInv', Solo, SwitchTo(CPU), UNCHANGED <<lifeVars, waitVars, procVars>>
    PROVE  Solo'
  <1> DEFINE n == next[CPU]
  <1> USE Constants, TypesFacts DEF OneCpuOnly, lifeVars, waitVars, procVars
  <1>0. /\ Types /\ Types' /\ CPU \in Cpus /\ runnable[CPU] \in Seq(Tasks) /\ tasks \in Seq(Tasks)
        /\ Reaper \in AllTasks \ Tasks /\ Idle[CPU] \in AllTasks \ Tasks /\ Reaper # Idle[CPU]
    BY DEF IInv, Reaper, Types
  <1>a. cpu[CPU] = "commit" /\ n \in AllTasks /\ Home[n] = CPU
    <2>1. cpu[CPU] = "commit" /\ CpuOK(CPU)
      BY <1>0 DEF SwitchTo, IInv, Placement
    <2>2. n \in AllTasks \cup {Null}
      BY <1>0
    <2>3. QED
      BY <2>1, <2>2 DEF CpuOK
  <1>b. n \in Tasks \/ n = Reaper \/ n = Idle[CPU]
    BY <1>0, <1>a, SchedAssumption DEF Reaper
  <1>c. n \in Tasks => state[n] = "READY" /\ n \notin ToSet(runnable[CPU]) /\ process[n] \in space
    BY <1>a, LiveThread DEF Solo, Queued, Live
  <1>d. waiting_on[n] = Null
    BY <1>a, <1>b, <1>c, NobodyRuns DEF Solo, Switching
  <1>e. /\ state' = [state EXCEPT ![n] = "RUNNING"]
        /\ current' = [current EXCEPT ![CPU] = n]
        /\ left' = [left EXCEPT ![CPU] = IF current[CPU] = n THEN Null ELSE current[CPU]]
        /\ cpu' = [cpu EXCEPT ![CPU] = IF current[CPU] = n THEN "run" ELSE "ctx"]
        /\ UNCHANGED faults
    BY <1>c, <1>d DEF SwitchTo
  <1>f. /\ state'[n] = "RUNNING" /\ \A u \in AllTasks : u # n => state'[u] = state[u]
        /\ current'[CPU] = n
        /\ left'[CPU] \in {Null, current[CPU]}
        /\ cpu'[CPU] = IF current[CPU] = n THEN "run" ELSE "ctx"
    BY <1>0, <1>a, <1>e
  <1>g. /\ UNCHANGED <<needs_cleanup, waiting_on, exiting, pc, runnable, waiters, blocked>>
        /\ UNCHANGED <<tasks, dead, freed, process, pstate, threads, parent, space, child>>
    BY DEF SwitchTo, queueVars
  <1>h. (n = Reaper <=> needs_cleanup[CPU]) /\ (n = Idle[CPU] => runnable[CPU] = <<>>)
    BY <1>a DEF Solo, Switching
  <1> HIDE DEF n
  <1>1. faults' = {}
    BY <1>e DEF Solo
  <1>2. Callers'
    <2> SUFFICES ASSUME NEW u \in Tasks
                 PROVE  (CallerRuns(u) /\ StateAt(u) /\ WaitAt(u) /\ CallAt(u))'
      BY DEF Callers
    <2>a. /\ pc[u] \in {"user", "wait_scan", "gone"} /\ state[u] # "RUNNING"
          /\ \A v \in Tasks : pc[v] # "exit_ready"
          /\ u # n => state'[u] = state[u]
      BY <1>0, <1>a, <1>f, NobodyRuns
    <2>1. CallerRuns(u)' /\ CallAt(u)'
      BY <1>g, <2>a DEF Solo, Callers, CallerRuns, CallAt
    <2>2. StateAt(u)'
      BY <1>c, <1>f, <1>g, <2>a DEF Solo, Callers, StateAt
    <2>3. WaitAt(u)'
      BY <1>d, <1>f, <1>g, <2>a DEF Solo, Callers, WaitAt
    <2>4. QED
      BY <2>1, <2>2, <2>3
  <1>3. Switching'
    <2>1. \A s \in {Idle[CPU], Reaper} : state'[s] \in {state[s], "RUNNING"}
      BY <1>0, <1>f
    <2>2. QED
      BY <1>c, <1>f, <1>g, <1>h, <2>1 DEF Solo, Switching
  <1>4. Queued'
    <2>1. \A u \in ToSet(runnable[CPU]) : state'[u] = "READY"
      <3>1. \A u \in ToSet(runnable[CPU]) : u \in Tasks /\ u \in AllTasks /\ state[u] = "READY"
        BY <1>0, SeqMembers DEF Solo, Queued
      <3>2. QED
        BY <1>c, <1>f, <3>1
    <2>2. QED
      BY <1>f, <1>g, <2>1 DEF Solo, Queued
  <1>5. Kin'
    BY <1>g DEF Solo, Kin
  <1>6. Listed'
    <2>1. ASSUME NEW u \in Tasks
          PROVE  /\ state'[u] = "NONE" <=> state[u] = "NONE"
                 /\ state'[u] = "DEAD" <=> state[u] = "DEAD"
      BY <1>0, <1>c, <1>f
    <2>2. ToSet(tasks) \subseteq Tasks
      BY <1>0, SeqMembers
    <2>3. QED
      BY <1>g, <2>1, <2>2 DEF Solo, Listed
  <1>7. Reaping'
    <2>1. \A u \in Tasks : (Corpse(u)' => Corpse(u)) /\ pc'[u] # "exit_dead"
      BY <1>0, <1>a, <1>c, <1>f, <1>g, NobodyRuns DEF Corpse
    <2>2. CASE n = Reaper
      <3>1. \A u \in Tasks : Awaited(u) => Awaited(u)'
        BY <1>f, <1>g, <2>2 DEF Awaited
      <3>2. needs_cleanup[CPU]
        BY <1>h, <2>2
      <3>3. QED
        BY <1>f, <1>g, <2>1, <2>2, <3>1, <3>2 DEF Solo, Reaping
    <2>3. CASE n # Reaper
      <3>1. ~needs_cleanup[CPU]
        BY <1>h, <2>3
      <3>2. QED
        BY <1>f, <1>g, <2>1, <2>3, <3>1, NoCorpses DEF Solo, Reaping
    <2>4. QED
      BY <2>2, <2>3
  <1>8. QED
    BY <1>1, <1>2, <1>3, <1>4, <1>5, <1>6, <1>7 DEF Solo

(* A step that only moves the CPU from one point to another, at which no   *)
(* thread is inside a call.                                                *)
LEMMA SoloCpuMoves ==
    ASSUME OneCpuOnly, IInv, IInv', Solo, NEW to,
           cpu'[CPU] = to, to \in {"boot", "run", "enter"},
           \A u \in Tasks : pc[u] \in {"user", "wait_scan", "gone"} /\ pc'[u] = pc[u],
           \A u \in Tasks : state[u] = "RUNNING" => to # "boot",
           current[CPU] # Null => to # "boot",
           pc[Reaper] \in ReapPoints \cup {"clear"} => to # "boot",
           to = "run" => cpu[CPU] = "ctx",
           pc'[Reaper] = pc[Reaper],
           UNCHANGED <<lifeVars, waitVars, procVars>>,
           UNCHANGED <<state, waiting_on, runnable, current, needs_cleanup, exiting, faults>>
    PROVE  Solo'
  <1> USE Constants, TypesFacts DEF OneCpuOnly, lifeVars, waitVars, procVars
  <1>1. Callers'
    BY DEF Solo, Callers, CallerRuns, StateAt, WaitAt, CallAt
  <1>2. Switching'
    BY DEF Solo, Switching
  <1>3. Queued' /\ Kin' /\ Listed'
    BY DEF Solo, Queued, Kin, Listed
  <1>4. Reaping'
    <2>1. \A u \in Tasks : Corpse(u)' => Corpse(u)
      BY DEF Corpse
    <2>2. Reaper # Null /\ Null \notin Tasks
      BY DEF Reaper
    <2>3. \A u \in Tasks : Awaited(u) => Awaited(u)'
      BY <2>2 DEF Awaited
    <2>4. QED
      BY <2>1, <2>3 DEF Solo, Reaping
  <1>5. QED
    BY <1>1, <1>2, <1>3, <1>4 DEF Solo

(* The steps of the scheduler that change no queue.                        *)
LEMMA SoloSchedMoves ==
    ASSUME OneCpuOnly, IInv, IInv', Solo, UNCHANGED <<lifeVars, waitVars, procVars>>,
           \/ ContextSwitch(CPU) \/ BootContextSwitch(CPU)
           \/ TimerStep(CPU) \/ BootSwitch(CPU) \/ IdleYield(CPU)
    PROVE  Solo'
  <1> USE Constants, TypesFacts DEF OneCpuOnly, taskVars, queueVars, cpuVars
  <1>0. Types /\ Types' /\ CPU \in Cpus /\ Reaper \in AllTasks \ Tasks /\ Reaper # Idle[CPU]
    BY DEF IInv, Reaper
  <1>1. ASSUME cpu[CPU] # "run" \/ current[CPU] \notin Tasks
        PROVE  \A u \in Tasks : pc[u] \in {"user", "wait_scan", "gone"}
    BY <1>1 DEF Solo, Callers, CallerRuns
  <1>2. CASE ContextSwitch(CPU)
    <2>1. /\ cpu[CPU] = "ctx" /\ cpu'[CPU] = "run"
          /\ UNCHANGED <<state, waiting_on, runnable, current, needs_cleanup, exiting, faults, pc>>
      BY <1>0, <1>2 DEF ContextSwitch
    <2>2. QED
      BY <1>1, <2>1, SoloCpuMoves
  <1>3. CASE BootContextSwitch(CPU)
    <2>1. ~(current[CPU] = Idle[CPU] /\ runnable[CPU] # <<>>)
      BY <1>3 DEF BootContextSwitch, Solo, Switching
    <2>2. /\ cpu[CPU] = "ctx" /\ cpu'[CPU] = "run"
          /\ UNCHANGED <<state, waiting_on, runnable, current, needs_cleanup, exiting, faults, pc>>
      BY <1>0, <1>3, <2>1 DEF BootContextSwitch
    <2>3. QED
      BY <1>1, <2>2, SoloCpuMoves
  <1>4. CASE TimerStep(CPU)
    <2>1. /\ UNCHANGED <<state, waiting_on, runnable, current, needs_cleanup, exiting, faults, pc>>
          /\ cpu'[CPU] = IF current[CPU] = Null THEN "boot" ELSE "enter"
      BY <1>0, <1>4, NobodyIsDue DEF TimerStep
    <2>2. \A u \in Tasks : pc[u] \in {"user", "wait_scan", "gone"}
      <3>1. CASE cpu[CPU] # "run" \/ current[CPU] \notin Tasks
        BY <1>1, <3>1
      <3>2. CASE cpu[CPU] = "run" /\ current[CPU] \in Tasks
        <4>1. pc[current[CPU]] = "user"
          BY <1>4, <3>2 DEF TimerStep, Masked
        <4>2. QED
          BY <4>1 DEF Solo, Callers, CallerRuns
      <3>3. QED
        BY <3>1, <3>2
    <2>3. \A u \in Tasks : state[u] = "RUNNING" => current[CPU] # Null
      BY DEF Solo, Callers, StateAt
    <2>4. pc[Reaper] \in ReapPoints \cup {"clear"} => current[CPU] # Null
      BY <1>0 DEF Solo, Reaping
    <2>5. CASE current[CPU] = Null
      BY <2>1, <2>2, <2>3, <2>4, <2>5, SoloCpuMoves
    <2>6. CASE current[CPU] # Null
      BY <2>1, <2>2, <2>6, SoloCpuMoves
    <2>7. QED
      BY <2>5, <2>6
  <1>5. CASE BootSwitch(CPU)
    <2>1. /\ cpu[CPU] = "boot" /\ cpu'[CPU] = "enter"
          /\ UNCHANGED <<state, waiting_on, runnable, current, needs_cleanup, exiting, faults, pc>>
      BY <1>0, <1>5 DEF BootSwitch
    <2>2. QED
      BY <1>1, <2>1, SoloCpuMoves
  <1>6. CASE IdleYield(CPU)
    <2>1. /\ current[CPU] \notin Tasks /\ cpu'[CPU] = "enter"
          /\ \A u \in AllTasks : u # Idle[CPU] => pc'[u] = pc[u]
          /\ UNCHANGED <<state, waiting_on, runnable, current, needs_cleanup, exiting, faults>>
      BY <1>0, <1>6 DEF IdleYield, Runs, CallSwitch
    <2>2. \A u \in Tasks : pc'[u] = pc[u]
      BY <1>0, <2>1
    <2>3. pc'[Reaper] = pc[Reaper]
      BY <1>0, <2>1
    <2>4. QED
      BY <1>1, <2>1, <2>2, <2>3, SoloCpuMoves
  <1>7. QED
    BY <1>2, <1>3, <1>4, <1>5, <1>6

(* The CPU never switches to an address space that is gone.                *)
LEMMA NeverSpaceGone ==
    ASSUME OneCpuOnly, Solo
    PROVE  ~SpaceGone(CPU)
  BY DEF SpaceGone, Solo, Switching

(* The cleanup task is executed: no thread is inside a call, and one that  *)
(* is dead and still counted is on the list, or in its hands.              *)
LEMMA ReaperRuns ==
    ASSUME OneCpuOnly, IInv, Solo, Runs(CPU, Reaper)
    PROVE  /\ CPU \in Cpus /\ Reaper \in AllTasks \ Tasks /\ Reaper # Idle[CPU]
           /\ \A u \in Tasks : pc[u] \in {"user", "wait_scan", "gone"} /\ state[u] # "RUNNING"
           /\ pc[Reaper] # "rest" => needs_cleanup[CPU]
           /\ pc[Reaper] \in ReapPoints =>
                dead[CPU] \in Tasks /\ state[dead[CPU]] = "DEAD" /\ process[dead[CPU]] \in Procs
  <1>1. CPU \in Cpus /\ Reaper \in AllTasks \ Tasks /\ Reaper # Idle[CPU]
    BY Constants DEF OneCpuOnly, Reaper
  <1>2. \A u \in Tasks : pc[u] \in {"user", "wait_scan", "gone"} /\ state[u] # "RUNNING"
    BY <1>1 DEF Solo, Callers, CallerRuns, StateAt, Runs
  <1>3. pc[Reaper] # "rest" => needs_cleanup[CPU]
    BY DEF Solo, Reaping, Runs
  <1>4. ASSUME pc[Reaper] \in ReapPoints
        PROVE  dead[CPU] \in Tasks /\ state[dead[CPU]] = "DEAD" /\ process[dead[CPU]] \in Procs
    <2>1. dead[CPU] \in Tasks /\ state[dead[CPU]] = "DEAD"
      BY <1>1, <1>4 DEF IInv, Placement, CleanupOK, Reaper
    <2>2. QED
      BY <2>1 DEF IInv, Types, TypeOK, Threads, ThreadOK
  <1>5. QED
    BY <1>1, <1>2, <1>3, <1>4

(* What a step of the cleanup task leaves as it is.                        *)
LEMMA ReaperFrame ==
    ASSUME OneCpuOnly, IInv, Solo, Runs(CPU, Reaper), Types',
           cpu'[CPU] \in {"run", "enter"},
           \A u \in AllTasks : u # Reaper => pc'[u] = pc[u],
           \A p \in Procs : threads'[p] \subseteq threads[p],
           UNCHANGED <<state, waiting_on, runnable, current, exiting>>,
           UNCHANGED <<waiters, blocked, process, pstate, parent, child>>
    PROVE  Callers' /\ Switching' /\ Queued' /\ Kin'
  <1>0. \A u \in Tasks : pc'[u] = pc[u] /\ pc[u] \in {"user", "wait_scan", "gone"} /\ state[u] # "RUNNING"
    BY ReaperRuns, Constants
  <1>1. Callers'
    BY <1>0 DEF Solo, Callers, CallerRuns, StateAt, WaitAt, CallAt
  <1>2. Switching'
    BY ReaperRuns DEF Solo, Switching, Runs
  <1>3. Queued'
    BY DEF Solo, Queued
  <1>4. Kin'
    BY <1>0 DEF Solo, Kin
  <1>5. QED
    BY <1>1, <1>2, <1>3, <1>4

(* task_manager_find_dead_task: if it finds nobody, nobody is left.        *)
LEMMA SoloFindDead ==
    ASSUME OneCpuOnly, IInv, IInv', Solo, FindDead(CPU), UNCHANGED <<waitVars, procVars>>
    PROVE  Solo'
  <1> DEFINE corpses == {i \in DOMAIN tasks : state[tasks[i]] = "DEAD"}
  <1> USE Constants, TypesFacts DEF At, taskVars, queueVars, cpuVars, waitVars, procVars
  <1>0. Types /\ Types' /\ Runs(CPU, Reaper) /\ pc[Reaper] = "find" /\ tasks \in Seq(Tasks)
    BY DEF IInv, Types, FindDead, Reaper
  <1>a. /\ UNCHANGED <<state, waiting_on, runnable, current, needs_cleanup, next, left, exiting, cpu, faults>>
        /\ UNCHANGED <<tasks, freed, waiters, blocked, process, pstate, threads, parent, space, child>>
        /\ \A u \in AllTasks : u # Reaper => pc'[u] = pc[u]
    BY <1>0, ReaperRuns DEF FindDead, Go, Reaper
  <1>1. Callers' /\ Switching' /\ Queued' /\ Kin'
    BY <1>0, <1>a, ReaperFrame DEF Runs
  <1>2. Listed'
    BY <1>a DEF Solo, Listed
  <1>3. \A u \in Tasks : pc'[u] # "exit_dead" /\ (Corpse(u)' => Corpse(u))
    BY <1>0, <1>a, ReaperRuns DEF Corpse
  <1>4. \A u \in Tasks : Corpse(u) => u \in ToSet(tasks)
    BY <1>0 DEF Solo, Reaping, Awaited
  <1>5. Reaping'
    <2>1. CASE corpses = {}
      <3>1. pc'[Reaper] = "clear"
        BY <1>0, <2>1, ReaperRuns DEF FindDead, Go, Reaper
      <3>2. \A u \in Tasks : ~Corpse(u)
        BY <1>4, <2>1 DEF ToSet, Corpse
      <3>3. QED
        BY <1>0, <1>a, <1>3, <3>1, <3>2, ReaperRuns DEF Solo, Reaping, ReapPoints, Runs
    <2>2. CASE corpses # {}
      <3>1. pc'[Reaper] = "remove" /\ dead'[CPU] = tasks[Min(corpses)]
        BY <1>0, <2>2, ReaperRuns DEF FindDead, Go, Reaper, Types
      <3>2. /\ dead'[CPU] \in Tasks /\ state[dead'[CPU]] = "DEAD"
            /\ dead'[CPU] \in ToSet(tasks)
        <4> DEFINE found == tasks[Min(corpses)]
        <4>1. found \in Tasks /\ state[found] = "DEAD" /\ found \in ToSet(tasks)
          BY <1>0, <2>2, FoundIsDead
        <4>2. QED
          BY <3>1, <4>1
      <3>3. /\ dead'[CPU] \notin freed /\ process[dead'[CPU]] \in space
            /\ process[dead'[CPU]] \in Procs /\ dead'[CPU] \in threads[process[dead'[CPU]]]
        BY <1>0, <3>2 DEF Solo, Listed, IInv, Threads, ThreadOK, Types, TypeOK
      <3>4. pstate[process[dead'[CPU]]] # "FREED"
        BY <3>3 DEF Solo, Kin
      <3>5. \A u \in Tasks : Corpse(u) => Awaited(u)'
        BY <1>0, <1>a, <1>4, <3>1, ReaperRuns DEF Awaited, Runs
      <3>6. QED
        BY <1>0, <1>a, <1>3, <3>1, <3>2, <3>3, <3>4, <3>5, ReaperRuns DEF Solo, Reaping, ReapPoints, Runs
    <2>3. QED
      BY <2>1, <2>2
  <1>6. QED
    BY <1>a, <1>1, <1>2, <1>5 DEF Solo

(* The request is cleared when nobody is dead and still counted.           *)
LEMMA SoloClearCleanup ==
    ASSUME OneCpuOnly, IInv, IInv', Solo, UNCHANGED <<waitVars, procVars>>,
           ClearCleanup(CPU) \/ CleanupYield(CPU)
    PROVE  Solo'
  <1> USE Constants, TypesFacts DEF At, taskVars, queueVars, cpuVars, lifeVars, waitVars, procVars
  <1>0. Types /\ Types' /\ Runs(CPU, Reaper) /\ pc[Reaper] \in {"clear", "rest"} /\ CPU \in Cpus
    BY Constants DEF IInv, ClearCleanup, CleanupYield, Reaper, OneCpuOnly
  <1>a. /\ UNCHANGED <<state, waiting_on, runnable, current, exiting, faults>>
        /\ UNCHANGED <<tasks, freed, dead, waiters, blocked, process, pstate, threads, parent, space, child>>
        /\ \A u \in AllTasks : u # Reaper => pc'[u] = pc[u]
    BY <1>0, ReaperRuns DEF ClearCleanup, CleanupYield, CallSwitch, Go, Reaper
  <1>b. cpu'[CPU] \in {"run", "enter"}
    BY <1>0 DEF ClearCleanup, CleanupYield, CallSwitch, Runs
  <1>1. Callers' /\ Switching' /\ Queued' /\ Kin'
    BY <1>0, <1>a, <1>b, ReaperFrame
  <1>2. Listed'
    BY <1>a DEF Solo, Listed
  <1>3. \A u \in Tasks : pc'[u] # "exit_dead" /\ (Corpse(u)' => Corpse(u))
    BY <1>0, <1>a, ReaperRuns DEF Corpse
  <1>4. Reaping'
    <2>1. CASE ClearCleanup(CPU)
      <3>1. pc[Reaper] = "clear" /\ pc'[Reaper] = "rest"
        BY <1>0, <2>1, ReaperRuns DEF ClearCleanup, Go, Reaper
      <3>2. \A u \in Tasks : ~Corpse(u)
        BY <3>1 DEF Solo, Reaping, Awaited
      <3>3. QED
        BY <1>3, <3>1, <3>2 DEF Reaping, ReapPoints
    <2>2. CASE CleanupYield(CPU)
      <3>1. pc[Reaper] = "rest" /\ pc'[Reaper] = "find" /\ cpu'[CPU] = "enter" /\ UNCHANGED needs_cleanup
        BY <1>0, <2>2, ReaperRuns DEF CleanupYield, CallSwitch, Reaper
      <3>2. \A u \in Tasks : Corpse(u) => Awaited(u)'
        BY <1>0, <1>a, <3>1 DEF Solo, Reaping, Awaited, Runs
      <3>3. QED
        BY <1>3, <3>1, <3>2 DEF Reaping, ReapPoints
    <2>3. QED
      BY <2>1, <2>2
  <1>5. QED
    BY <1>a, <1>1, <1>2, <1>4 DEF Solo

(* The dead thread is in no queue, and leaves the list of tasks once.      *)
LEMMA SoloRemoveDead ==
    ASSUME OneCpuOnly, IInv, IInv', Solo, RemoveDead(CPU, "detach"), UNCHANGED <<waitVars, procVars>>
    PROVE  Solo'
  <1> DEFINE d == dead[CPU]
  <1> USE Constants, TypesFacts DEF At, taskVars, queueVars, cpuVars, waitVars, procVars
  <1>0. Types /\ Types' /\ Runs(CPU, Reaper) /\ pc[Reaper] = "remove" /\ CPU \in Cpus /\ tasks \in Seq(Tasks)
    BY DEF IInv, Types, RemoveDead, Reaper, OneCpuOnly
  <1>a. /\ d \in Tasks /\ d \in AllTasks /\ state[d] = "DEAD" /\ d \in ToSet(tasks)
        /\ d \notin freed /\ d \in threads[process[d]] /\ process[d] \in Procs
        /\ pstate[process[d]] # "FREED"
    BY <1>0, ReaperRuns DEF Solo, Reaping, Listed, ReapPoints
  <1>b. Home[d] = CPU /\ waiting_on[d] = Null
    BY <1>0, <1>a, ReaperRuns DEF OneCpuOnly, Solo, Callers, WaitAt
  <1>c. ~Linked(sleeping[Home[d]], d) /\ ~Linked(runnable[Home[d]], d)
    <2>1. runnable[CPU] \in Seq(Tasks) /\ d \notin ToSet(runnable[CPU])
      BY <1>0, <1>a DEF Solo, Queued
    <2>2. ~Contains(runnable[CPU], d)
      BY <2>1, ContainsIsMembership
    <2>3. sleeping[CPU] = <<>> /\ Len(<<>>) = 0
      BY <1>0
    <2>4. QED
      BY <1>b, <2>2, <2>3 DEF Linked
  <1>d. /\ tasks' = Unlink(tasks, d) /\ Go(Reaper, "detach") /\ faults' = {} /\ UNCHANGED cpu
    BY <1>a, <1>b, <1>c DEF RemoveDead, Solo, Reaper
  <1>e. /\ UNCHANGED <<state, waiting_on, runnable, current, needs_cleanup, next, left, exiting>>
        /\ UNCHANGED <<dead, freed, waiters, blocked, process, pstate, threads, parent, space, child>>
        /\ pc'[Reaper] = "detach" /\ \A u \in AllTasks : u # Reaper => pc'[u] = pc[u]
    <2>1. /\ UNCHANGED <<state, waiting_on, runnable, current, needs_cleanup, next, left, exiting>>
          /\ UNCHANGED <<dead, freed, waiters, blocked, process, pstate, threads, parent, space, child>>
      BY DEF RemoveDead
    <2>2. QED
      BY <1>0, <1>d, <2>1, ReaperRuns DEF Go
  <1>f. IsInjective(tasks') /\ \A x : x \in ToSet(tasks') <=> x \in ToSet(tasks) /\ x # d
    BY <1>0, <1>a, <1>d, UnlinkedQueue DEF Solo, Listed
  <1> HIDE DEF d
  <1>1. Callers' /\ Switching' /\ Queued' /\ Kin'
    BY <1>0, <1>d, <1>e, ReaperFrame DEF Runs
  <1>2. Listed'
    BY <1>a, <1>e, <1>f DEF Solo, Listed
  <1>3. \A u \in Tasks : pc'[u] # "exit_dead" /\ (Corpse(u)' => Corpse(u))
    BY <1>0, <1>e, ReaperRuns DEF Corpse
  <1>4. \A u \in Tasks : Corpse(u) => Awaited(u)'
    BY <1>0, <1>d, <1>e, <1>f, ReaperRuns DEF Solo, Reaping, Awaited, Runs, d
  <1>5. dead'[CPU] = d /\ d \notin ToSet(tasks')
    BY <1>e, <1>f DEF d
  <1>6. Reaping'
    BY <1>0, <1>a, <1>d, <1>e, <1>3, <1>4, <1>5, ReaperRuns DEF Solo, Reaping, ReapPoints, Runs
  <1>7. QED
    BY <1>d, <1>1, <1>2, <1>6 DEF Solo

(* process_remove_thread: the process exists, and is one thread poorer.    *)
LEMMA SoloDetach ==
    ASSUME OneCpuOnly, IInv, IInv', Solo, Detach(CPU)
    PROVE  Solo'
  <1> DEFINE d == dead[CPU]
  <1> USE Constants, TypesFacts DEF At, kept, cpuVars, lifeVars, waitVars
  <1>0. Types /\ Types' /\ Runs(CPU, Reaper) /\ pc[Reaper] = "detach" /\ CPU \in Cpus
    BY DEF IInv, Detach, Reaper, OneCpuOnly
  <1>a. /\ d \in Tasks /\ d \notin ToSet(tasks) /\ d \notin freed
        /\ process[d] \in Procs /\ pstate[process[d]] # "FREED"
    BY <1>0, ReaperRuns DEF Solo, Reaping, ReapPoints
  <1>b. /\ UNCHANGED <<state, waiting_on, runnable, current, needs_cleanup, next, left, exiting, cpu>>
        /\ UNCHANGED <<tasks, dead, freed, waiters, blocked, process, pstate, parent, space, child>>
        /\ pc'[Reaper] = "space" /\ \A u \in AllTasks : u # Reaper => pc'[u] = pc[u]
        /\ faults' = {}
    BY <1>0, <1>a, ReaperRuns DEF Detach, Go, Solo, Reaper
  <1>c. /\ threads'[process[d]] = threads[process[d]] \ {d}
        /\ \A p \in Procs : p # process[d] => threads'[p] = threads[p]
    BY <1>0, <1>a DEF Detach, Types, TypeOK
  <1> HIDE DEF d
  <1>d. \A p \in Procs : threads'[p] \subseteq threads[p]
    BY <1>c
  <1>1. Callers' /\ Switching' /\ Queued' /\ Kin'
    BY <1>0, <1>b, <1>d, ReaperFrame DEF Runs
  <1>2. Listed'
    <2>1. ASSUME NEW x \in ToSet(tasks) PROVE x \in threads'[process[x]]
      <3>1. x \in Tasks /\ x # d /\ x \in threads[process[x]] /\ process[x] \in Procs
        BY <1>0, <1>a, SeqMembers DEF Solo, Listed, IInv, Types, TypeOK, Threads, ThreadOK
      <3>2. QED
        BY <1>c, <3>1
    <2>2. QED
      BY <1>b, <2>1 DEF Solo, Listed
  <1>3. \A u \in Tasks : pc'[u] # "exit_dead"
    BY <1>0, <1>b, ReaperRuns
  <1>4. ASSUME NEW u \in Tasks, Corpse(u)' PROVE Awaited(u)'
    <2>1. state[u] = "DEAD" /\ process[u] \in Procs
      BY <1>0, <1>b, <1>4 DEF Corpse, IInv, Types, TypeOK, Threads, ThreadOK
    <2>2. u # d /\ Corpse(u)
      BY <1>b, <1>c, <1>4, <2>1 DEF Corpse
    <2>3. QED
      BY <1>0, <1>b, <2>2, ReaperRuns DEF Solo, Reaping, Awaited, Runs, d
  <1>5. Reaping'
    BY <1>0, <1>a, <1>b, <1>3, <1>4, ReaperRuns DEF Solo, Reaping, ReapPoints, Runs, d
  <1>6. QED
    BY <1>b, <1>1, <1>2, <1>5 DEF Solo

(* The steps of the cleanup task about the address space, which it meets   *)
(* while the process exists, and destroys once, after its last thread.     *)
LEMMA SoloSpace ==
    ASSUME OneCpuOnly, IInv, IInv', Solo, CheckLast(CPU) \/ DestroySpace(CPU) \/ ForgetSpace(CPU)
    PROVE  Solo'
  <1> DEFINE d == dead[CPU]
  <1> USE Constants, TypesFacts DEF At, kept, cpuVars, lifeVars, waitVars, procVars
  <1>0. /\ Types /\ Types' /\ Runs(CPU, Reaper) /\ CPU \in Cpus
        /\ pc[Reaper] \in {"space", "space_free", "space_null"}
    BY DEF IInv, CheckLast, DestroySpace, ForgetSpace, Reaper, OneCpuOnly
  <1>a. /\ d \in Tasks /\ d \notin ToSet(tasks) /\ d \notin freed
        /\ process[d] \in Procs /\ pstate[process[d]] # "FREED"
        /\ pc[Reaper] # "space_null" => process[d] \in space
    BY <1>0, ReaperRuns DEF Solo, Reaping, ReapPoints
  <1>b. /\ UNCHANGED <<state, waiting_on, runnable, current, needs_cleanup, next, left, exiting, cpu>>
        /\ UNCHANGED <<tasks, dead, freed, waiters, blocked, process, pstate, threads, parent, child>>
    BY DEF CheckLast, DestroySpace, ForgetSpace
  <1>c. faults' = {}
    BY <1>0, <1>a DEF CheckLast, DestroySpace, ForgetSpace, Solo, Reaper
  <1>d. \E to \in {"space_free", "space_null", "destroy"} : Go(Reaper, to)
    BY DEF CheckLast, DestroySpace, ForgetSpace, Reaper
  <1>e. pc'[Reaper] \in {"space_free", "space_null", "destroy"} /\ \A u \in AllTasks : u # Reaper => pc'[u] = pc[u]
    BY <1>0, <1>d, ReaperRuns DEF Go
  <1>f. space' = space \/ (space' = space \ {process[d]} /\ threads[process[d]] = {} /\ pc'[Reaper] = "space_null")
    <2>1. CASE CheckLast(CPU) \/ ForgetSpace(CPU)
      BY <2>1 DEF CheckLast, ForgetSpace
    <2>2. CASE DestroySpace(CPU)
      <3>1. space' = space \ {process[d]} /\ pc[Reaper] = "space_free" /\ Go(Reaper, "space_null")
        BY <2>2 DEF DestroySpace, Reaper
      <3>2. threads[process[d]] = {}
        BY <1>0, <3>1 DEF IInv, Emptied, EmptyOK, Reaper
      <3>3. QED
        BY <1>0, <3>1, <3>2, ReaperRuns DEF Go
    <2>3. QED
      BY <2>1, <2>2
  <1>g. pc'[Reaper] = "space_free" => space' = space /\ pc[Reaper] = "space"
    <2>1. CASE CheckLast(CPU)
      BY <2>1 DEF CheckLast, Reaper
    <2>2. CASE DestroySpace(CPU) \/ ForgetSpace(CPU)
      <3>1. Go(Reaper, "space_null") \/ Go(Reaper, "destroy")
        BY <2>2 DEF DestroySpace, ForgetSpace, Reaper
      <3>2. pc'[Reaper] # "space_free"
        BY <1>0, <3>1, ReaperRuns DEF Go
      <3>3. QED
        BY <3>2
    <2>3. QED
      BY <2>1, <2>2
  <1> HIDE DEF d
  <1>1. Callers' /\ Switching' /\ Queued' /\ Kin'
    BY <1>0, <1>b, <1>e, ReaperFrame DEF Runs
  <1>2. Listed'
    <2>1. ASSUME NEW x \in ToSet(tasks) PROVE process[x] \in space'
      <3>1. x \in threads[process[x]] /\ process[x] \in space
        BY DEF Solo, Listed
      <3>2. QED
        BY <1>f, <3>1
    <2>2. QED
      BY <1>b, <2>1 DEF Solo, Listed
  <1>3. \A u \in Tasks : pc'[u] # "exit_dead" /\ (Corpse(u)' => Corpse(u))
    BY <1>0, <1>b, <1>e, ReaperRuns DEF Corpse
  <1>4. \A u \in Tasks : Corpse(u) => Awaited(u)'
    BY <1>0, <1>b, <1>e, ReaperRuns DEF Solo, Reaping, Awaited, Runs
  <1>5. Reaping'
    BY <1>0, <1>a, <1>b, <1>e, <1>g, <1>3, <1>4, ReaperRuns DEF Solo, Reaping, ReapPoints, Runs, d
  <1>6. QED
    BY <1>c, <1>1, <1>2, <1>5 DEF Solo

(* The Task object goes last, and nobody uses it.                          *)
LEMMA SoloDestroyDead ==
    ASSUME OneCpuOnly, IInv, IInv', Solo, DestroyDead(CPU), UNCHANGED <<waitVars, procVars>>
    PROVE  Solo'
  <1> DEFINE d == dead[CPU]
  <1> USE Constants, TypesFacts DEF At, taskVars, queueVars, cpuVars, waitVars, procVars
  <1>0. Types /\ Types' /\ Runs(CPU, Reaper) /\ pc[Reaper] = "destroy" /\ CPU \in Cpus
    BY DEF IInv, DestroyDead, Reaper, OneCpuOnly
  <1>a. d \in Tasks /\ state[d] = "DEAD" /\ d \notin ToSet(tasks) /\ d \notin freed
    BY <1>0, ReaperRuns DEF Solo, Reaping, ReapPoints
  <1>b. /\ UNCHANGED <<state, waiting_on, runnable, current, needs_cleanup, next, left, exiting, cpu>>
        /\ UNCHANGED <<tasks, waiters, blocked, process, pstate, threads, parent, space, child>>
    BY DEF DestroyDead
  <1>c. \A c \in Cpus : StackOf(c) # d
    <2>1. StackOf(CPU) = Reaper
      BY <1>0 DEF StackOf, Runs
    <2>2. QED
      BY <1>0, <1>a, <2>1, ReaperRuns DEF OneCpuOnly
  <1>d. /\ pc'[Reaper] = "find" /\ \A u \in AllTasks : u # Reaper => pc'[u] = pc[u]
        /\ faults' = {} /\ freed' = freed \cup {d}
    <2>1. Go(Reaper, "find") /\ freed' = freed \cup {d}
      BY DEF DestroyDead, Reaper
    <2>2. faults' = {}
      BY <1>a, <1>c DEF DestroyDead, Solo
    <2>3. QED
      BY <1>0, <2>1, <2>2, ReaperRuns DEF Go
  <1>1. Callers' /\ Switching' /\ Queued' /\ Kin'
    BY <1>0, <1>b, <1>d, ReaperFrame DEF Runs
  <1>2. Listed'
    BY <1>a, <1>b, <1>d DEF Solo, Listed
  <1>3. \A u \in Tasks : pc'[u] # "exit_dead" /\ (Corpse(u)' => Corpse(u))
    BY <1>0, <1>b, <1>d, ReaperRuns DEF Corpse
  <1>4. \A u \in Tasks : Corpse(u) => Awaited(u)'
    BY <1>0, <1>b, <1>d, ReaperRuns DEF Solo, Reaping, Awaited, Runs
  <1>5. Reaping'
    BY <1>0, <1>b, <1>d, <1>3, <1>4, ReaperRuns DEF Solo, Reaping, ReapPoints, Runs
  <1>6. QED
    BY <1>d, <1>1, <1>2, <1>5 DEF Solo

(* The boot code has started the first process.                            *)
LEMMA SoloInit ==
    ASSUME OneCpuOnly, Init
    PROVE  Solo
  <1> USE Constants
  <1>0. CPU \in Cpus /\ Reaper \in AllTasks \ Tasks /\ Idle[CPU] \in AllTasks \ Tasks
    BY DEF OneCpuOnly, Reaper
  <1>1. /\ state = [t \in AllTasks |-> IF t \in Tasks \ {First} THEN "NONE" ELSE "READY"]
        /\ waiting_on = [t \in AllTasks |-> Null]
        /\ current = [c \in Cpus |-> Null]
        /\ exiting = {} /\ faults = {} /\ freed = {}
        /\ cpu = [c \in Cpus |-> "boot"]
        /\ waiters = [q \in Procs |-> <<>>] /\ tasks = <<First>>
    BY DEF Init, SchedInit, WaitInit, ManagerInit
  <1>2. /\ process = [t \in Tasks |-> IF t = First THEN Root ELSE Null]
        /\ pstate = [p \in Procs |-> IF p = Root THEN "RUNNING" ELSE "NONE"]
        /\ threads = [p \in Procs |-> IF p = Root THEN {First} ELSE {}]
        /\ space = {Root}
    BY DEF Init
  <1>3. (\A t \in Tasks : pc[t] = "user") /\ pc[Reaper] = "find"
    BY <1>0 DEF Init, Reaper
  <1>4. Callers
    BY <1>1, <1>2, <1>3 DEF Callers, CallerRuns, StateAt, WaitAt, CallAt, ExitPoints
  <1>5. Switching
    BY <1>0, <1>1 DEF Switching
  <1>6. Queued
    <2>a. /\ runnable \in [Cpus -> UNION {SetToSeqs({t \in {First} : Home[t] = c}) : c \in Cpus}]
          /\ \A c \in Cpus : ToSet(runnable[c]) = {t \in {First} : Home[t] = c}
      BY DEF Init, SchedInit
    <2>1. /\ runnable[CPU] \in UNION {SetToSeqs({t \in {First} : Home[t] = c}) : c \in Cpus}
          /\ ToSet(runnable[CPU]) \subseteq {First}
      BY <1>0, <2>a
    <2>2. PICK c \in Cpus : runnable[CPU] \in SetToSeqs({t \in {First} : Home[t] = c})
      BY <2>1
    <2>3. {t \in {First} : Home[t] = c} \subseteq {First} /\ IsFiniteSet({First})
      BY FS_Singleton
    <2>4. IsFiniteSet({t \in {First} : Home[t] = c})
      BY <2>3, FS_Subset
    <2>5. IsInjective(runnable[CPU])
      BY <2>2, <2>4, QueueOfSet
    <2>6. \A t \in ToSet(runnable[CPU]) : state[t] = "READY"
      BY <1>1, <2>1
    <2>7. \A p \in Procs : {t \in Tasks : waiting_on[t] = p} = {}
      BY <1>1
    <2>8. ToSet(<<>>) = {}
      BY EmptyQueue
    <2>9. QED
      BY <1>0, <1>1, <2>5, <2>6, <2>7, <2>8, EmptyQueue DEF Queued
  <1>7. Kin
    BY <1>2 DEF Kin
  <1>8. Listed
    <2>1. IsInjective(<<First>>) /\ ToSet(<<First>>) = {First}
      BY DEF IsInjective, ToSet
    <2>2. QED
      BY <1>1, <1>2, <2>1 DEF Listed
  <1>9. Reaping
    BY <1>0, <1>1, <1>3 DEF Reaping, Corpse, ReapPoints
  <1>10. QED
    BY <1>1, <1>4, <1>5, <1>6, <1>7, <1>8, <1>9 DEF Solo

(* A second thread is one too many.                                        *)
LEMMA SecondThread ==
    ASSUME OneCpuOnly, IInv, NEW t \in Tasks, NEW u \in Tasks, AddThread(CPU, t, u)
    PROVE  ~OneThreadEach'
  <1>0. CPU \in Cpus /\ Runs(CPU, t) /\ pc[t] = "user" /\ state[u] = "NONE"
    BY Constants DEF OneCpuOnly, AddThread, At
  <1>1. state[t] = "RUNNING" /\ process[t] \in Procs
    BY <1>0, Running
  <1>2. process'[u] = process[t] /\ process'[t] = process[t] /\ t # u
    BY <1>0, <1>1 DEF AddThread, IInv, Types, TypeOK
  <1>3. QED
    BY <1>1, <1>2, Constants DEF OneThreadEach

(* The inductive step: nothing fails while no process has a second thread. *)
LEMMA SoloStep ==
    ASSUME OneCpuOnly, IInv, IInv', OneThreadEach => FInv, OneThreadEach => Solo, [Next]_vars, OneThreadEach'
    PROVE  Solo'
  <1>1. CASE UNCHANGED vars
    <2>1. OneThreadEach /\ UNCHANGED <<schedVars, lifeVars, waitVars, procVars>>
      BY <1>1 DEF vars, procVars, OneThreadEach
    <2>2. UNCHANGED <<state, waiting_on, runnable, current, needs_cleanup, next, left, exiting, cpu, pc, faults>>
      BY <2>1 DEF schedVars, taskVars, queueVars, cpuVars
    <2>3. UNCHANGED <<tasks, dead, freed, waiters, blocked, process, pstate, threads, parent, space, child>>
      BY <2>1 DEF lifeVars, waitVars, procVars
    <2>4. Callers' /\ Switching' /\ Queued' /\ Kin' /\ Listed' /\ Reaping' /\ faults' = {}
      BY <2>1, <2>2, <2>3 DEF Solo, Callers, CallerRuns, StateAt, WaitAt, CallAt, Switching, Queued, Kin,
                              Listed, Reaping, Corpse, Awaited
    <2>5. QED
      BY <2>4 DEF Solo
  <1>2. CASE Next
    <2>1. OneThreadEach
      BY <1>2, ProcessKept DEF OneThreadEach
    <2>2. Solo /\ FInv
      BY <2>1
    <2>3. CASE SchedStep(CPU)
      <3>1. UNCHANGED <<lifeVars, waitVars, procVars>>
        BY <2>3 DEF SchedStep
      <3>2. \/ SwitchEnter(CPU) \/ PickCleanup(CPU) \/ PickIdle(CPU) \/ PickFirst(CPU)
            \/ CheckLive(CPU) \/ CheckExiting(CPU) \/ SwitchTo(CPU)
            \/ ContextSwitch(CPU) \/ BootContextSwitch(CPU)
            \/ TimerStep(CPU) \/ BootSwitch(CPU) \/ IdleYield(CPU)
        BY <2>2, <2>3, NeverSpaceGone DEF SchedStep, SwitchOrFault, SwitchSpace, SwitchStep
      <3>3. QED
        BY <2>2, <3>1, <3>2, SoloSwitchEnter, SoloPick, SoloCheckLive, NeverExiting, SoloSwitchTo, SoloSchedMoves
    <2>4. CASE CleanupStep(CPU)
      BY <2>2, <2>4, SoloFindDead, SoloClearCleanup, SoloRemoveDead, SoloDetach, SoloSpace, SoloDestroyDead
         DEF CleanupStep
    <2>5. ASSUME NEW t \in Tasks, InCall(CPU, t) PROVE Solo'
      <3>1. CASE ForkAdd(CPU, t) \/ ForkParent(CPU, t)
        BY <2>2, <3>1, SoloForkAdd, SoloForkParent
      <3>2. CASE ExitZombie(CPU, t) \/ ExitParent(CPU, t) \/ ExitDequeue(CPU, t) \/ ExitReady(CPU, t)
        BY <2>1, <2>2, <3>2, SoloExitZombie, SoloExitParent, SoloExitDequeue, SoloExitReady
      <3>3. CASE /\ ExitFlag(CPU, t, "exit_flag") \/ ExitDead(CPU, t) \/ ExitYield(CPU, t)
                 /\ UNCHANGED <<waitVars, procVars>>
        BY <2>2, <3>3, SoloExitFlag, SoloExitDead, SoloExitYield
      <3>4. CASE \/ WaitScan(CPU, t) \/ WaitLook(CPU, t) \/ WaitRemove(CPU, t) \/ WaitCopy(CPU, t)
                 \/ WaitDestroy(CPU, t) \/ WaitEnqueue(CPU, t)
        BY <2>2, <3>4, SoloWaits, SoloWaitDestroy, SoloWaitEnqueue
      <3>5. CASE /\ BlockCurrent(CPU, t) \/ BlockSwitch(CPU, t, "wait_scan")
                 /\ UNCHANGED <<lifeVars, procVars>>
        BY <2>2, <3>5, SoloBlockCurrent, SoloBlockSwitch
      <3>6. QED
        BY <2>5, <3>1, <3>2, <3>3, <3>4, <3>5 DEF InCall
    <2>6. ASSUME NEW t \in Tasks, Call(CPU, t) PROVE Solo'
      <3>1. ~ForkFail(CPU, t)
        BY DEF ForkFail, OneCpuOnly
      <3>2. CASE UserYield(CPU, t) \/ ExitBegin(CPU, t) \/ WaitScan(CPU, t)
        BY <2>1, <2>2, <3>2, SoloUserYield, SoloExitBegin, SoloWaits
      <3>3. CASE \E q \in Procs, u \in Tasks : ForkCreate(CPU, t, q, u)
        BY <2>2, <3>3, SoloForkCreate
      <3>4. ~\E u \in Tasks : AddThread(CPU, t, u)
        BY SecondThread
      <3>5. QED
        BY <2>6, <3>1, <3>2, <3>3, <3>4 DEF Call
    <2>7. QED
      BY <1>2, <2>3, <2>4, <2>5, <2>6 DEF Next, OneCpuOnly
  <1>3. QED
    BY <1>1, <1>2

(* On one CPU, where only the root forks, no allocation fails and no       *)
(* process has had a second thread, no assertion of scheduler_switch, of   *)
(* exit, wait4 or the cleanup task fails, and nothing freed is used.       *)
THEOREM OneCpuNeverFaults ==
    ASSUME OneCpuOnly
    PROVE  Spec => []NoFault
  <1>1. Init => (OneThreadEach => Solo)
    BY SoloInit
  <1>2. IInv /\ IInv' /\ (OneThreadEach => FInv) /\ (OneThreadEach => Solo) /\ [Next]_vars
            => (OneThreadEach => Solo)'
    BY SoloStep
  <1>3. (OneThreadEach => Solo) => NoFault
    BY DEF OneThreadEach, Solo, NoFault
  <1>4. QED
    BY <1>1, <1>2, <1>3, FamilyIsInv, PTL DEF Spec

=============================================================================
