--------------------------- MODULE TaskLifeProofs ---------------------------
(***************************************************************************)
(* The life of tasks, for every number of CPUs, tasks and delays: a task   *)
(* is where its state says, no assertion of the scheduler fails except     *)
(* that of the first switch of a CPU, and the sleep queues are sorted.  On *)
(* one CPU the memory of a task is freed once and not in use; on several   *)
(* that is false (CleanupInUse).                                           *)
(***************************************************************************)
EXTENDS TaskLife, SequenceTheorems, FiniteSetTheorems, WellFoundedInduction, TLAPS

\* The points at which a task that can still run is, and those of a dead one.
Alive == {"body", "sleep_switch", "exit_dead"}
Ended == {"exit_yield", "gone"}

\* How far the code of a task in the given state can be.
PointsOf(st) ==
    CASE st = "NONE" -> {"body"}
      [] st \in {"READY", "RUNNING"} -> Alive
      [] st = "BLOCKED" -> {"body", "sleep_switch"}
      [] st = "DEAD" -> Ended

CleanupPoints == {"find", "clear", "rest", "remove", "destroy"}

\* Variables whose values the properties do not mention.
Types ==
    /\ TypeOK
    /\ now \in 0..MaxTime
    /\ exiting = {}
    /\ pc \in [AllTasks -> Alive \cup Ended \cup CleanupPoints \cup {"idle"}]

\* The idle and the cleanup tasks never wait.
ServantOK(t) == waiting_on[t] = Null /\ state[t] \in {"READY", "RUNNING"}

\* The state of a task says in which queue it is and how far its code can be.
TaskOK(t) ==
    /\ waiting_on[t] = IF state[t] = "BLOCKED" THEN SleepQueue ELSE Null
    /\ state[t] = "READY" => t \in ToSet(runnable[Home[t]]) \/ next[Home[t]] = t
    /\ state[t] = "BLOCKED" => t \in ToSet(sleeping[Home[t]])
    /\ state[t] = "RUNNING" => current[Home[t]] = t /\ cpu[Home[t]] \notin {"pick", "loop", "check", "commit"}
    /\ pc[t] \in PointsOf(state[t])

\* The queues of a CPU hold tasks of this CPU in the state they stand for.
QueueOK(c) ==
    /\ IsInjective(runnable[c]) /\ IsInjective(sleeping[c])
    /\ \A t \in ToSet(runnable[c]) : Home[t] = c /\ state[t] = "READY" /\ next[c] # t
    /\ \A t \in ToSet(sleeping[c]) : Home[t] = c /\ state[t] = "BLOCKED"

\* What a CPU executes.
CpuOK(c) ==
    /\ current[c] # Null => Home[current[c]] = c
    /\ cpu[c] = "boot" => current[c] = Null
    /\ cpu[c] \in {"run", "ctx"} => current[c] # Null
    /\ current[c] \in Tasks /\ cpu[c] = "run" =>
        \/ state[current[c]] \in {"RUNNING", "DEAD"}
        \/ state[current[c]] = "BLOCKED" /\ pc[current[c]] = "sleep_switch"
    /\ current[c] \in Tasks /\ cpu[c] = "ctx" => state[current[c]] = "RUNNING"
    /\ next[c] # Null <=> cpu[c] \in {"check", "commit"}
    /\ next[c] # Null => Home[next[c]] = c
    /\ next[c] \in Tasks => state[next[c]] = "READY"

\* What the cleanup task of a CPU has found is dead.
CleanupOK(c) ==
    /\ dead[c] # Null => state[dead[c]] = "DEAD"
    /\ pc[Cleanup[c]] \in {"remove", "destroy"} => dead[c] # Null

\* The inductive invariant.
IInv ==
    /\ Types
    /\ \A t \in Tasks : TaskOK(t)
    /\ \A t \in AllTasks \ Tasks : ServantOK(t)
    /\ \A c \in Cpus : QueueOK(c) /\ CpuOK(c) /\ CleanupOK(c)
    /\ SleepersSorted
    /\ OnlyBootPanics

\* What is listed has been created and not freed, and what the cleanup task
\* is about to free is not listed any more.
Lifetimes ==
    /\ IsInjective(tasks)
    /\ \A t \in ToSet(tasks) : state[t] # "NONE" /\ t \notin freed
    /\ \A t \in freed \cap Tasks : state[t] = "DEAD"
    /\ \A c \in Cpus : dead[c] # Null =>
        /\ dead[c] \notin freed
        /\ pc[Cleanup[c]] = "remove" => dead[c] \in ToSet(tasks)
        /\ pc[Cleanup[c]] = "destroy" => dead[c] \notin ToSet(tasks)
    /\ FreedOnceAndUnused

-----------------------------------------------------------------------------
(* Queues are sequences in which no task occurs twice.                     *)

(* What two queues make when one is put behind the other.                  *)
LEMMA JoinedQueue ==
    ASSUME NEW S, NEW s \in Seq(S), NEW r \in Seq(S)
    PROVE  /\ s \o r \in Seq(S)
           /\ \A x : x \in ToSet(s \o r) <=> x \in ToSet(s) \/ x \in ToSet(r)
           /\ IsInjective(s) /\ IsInjective(r) /\ ToSet(s) \cap ToSet(r) = {}
                => IsInjective(s \o r)
  <1> DEFINE q == s \o r
             m == Len(s)
             n == Len(r)
  <1>1. /\ q \in Seq(S) /\ m \in Nat /\ n \in Nat /\ Len(q) = m + n
        /\ \A i \in 1..m : q[i] = s[i]
        /\ \A i \in 1..n : q[m + i] = r[i]
    BY LenProperties, ConcatProperties
  <1>2. DOMAIN q = 1..(m + n) /\ DOMAIN s = 1..m /\ DOMAIN r = 1..n
    BY <1>1, LenProperties
  <1> HIDE DEF q, m, n
  <1>3. \A k \in 1..(m + n) : k \in 1..m \/ \E i \in 1..n : k = m + i
    <2> SUFFICES ASSUME NEW k \in 1..(m + n), k \notin 1..m
                 PROVE  \E i \in 1..n : k = m + i
      OBVIOUS
    <2>1. k - m \in 1..n /\ k = m + (k - m)
      BY <1>1
    <2>2. QED
      BY <2>1
  <1>4. ASSUME NEW x PROVE x \in ToSet(q) <=> x \in ToSet(s) \/ x \in ToSet(r)
    <2>1. ASSUME x \in ToSet(q) PROVE x \in ToSet(s) \/ x \in ToSet(r)
      <3>1. PICK k \in 1..(m + n) : x = q[k]
        BY <2>1, <1>2 DEF ToSet
      <3>2. CASE k \in 1..m
        BY <3>1, <3>2, <1>1, <1>2 DEF ToSet
      <3>3. CASE \E i \in 1..n : k = m + i
        BY <3>1, <3>3, <1>1, <1>2 DEF ToSet
      <3>4. QED
        BY <3>2, <3>3, <1>3
    <2>2. ASSUME x \in ToSet(s) PROVE x \in ToSet(q)
      <3>1. PICK i \in 1..m : x = s[i]
        BY <2>2, <1>2 DEF ToSet
      <3>2. i \in DOMAIN q /\ q[i] = x
        BY <3>1, <1>1, <1>2
      <3>3. QED
        BY <3>2 DEF ToSet
    <2>3. ASSUME x \in ToSet(r) PROVE x \in ToSet(q)
      <3>1. PICK i \in 1..n : x = r[i]
        BY <2>3, <1>2 DEF ToSet
      <3>2. m + i \in DOMAIN q /\ q[m + i] = x
        BY <3>1, <1>1, <1>2
      <3>3. QED
        BY <3>2 DEF ToSet
    <2>4. QED
      BY <2>1, <2>2, <2>3
  <1>5. ASSUME IsInjective(s), IsInjective(r), ToSet(s) \cap ToSet(r) = {}
        PROVE  IsInjective(q)
    <2>1. \A i \in 1..m, j \in 1..n : s[i] # r[j]
      BY <1>5, <1>2 DEF ToSet
    <2>2. \A i, j \in 1..m : s[i] = s[j] => i = j
      BY <1>5, <1>2 DEF IsInjective
    <2>3. \A i, j \in 1..n : r[i] = r[j] => i = j
      BY <1>5, <1>2 DEF IsInjective
    <2>4. ASSUME NEW k \in 1..(m + n), NEW l \in 1..(m + n), q[k] = q[l] PROVE k = l
      <3>1. CASE k \in 1..m /\ l \in 1..m
        BY <2>4, <3>1, <2>2, <1>1
      <3>2. CASE k \in 1..m /\ \E i \in 1..n : l = m + i
        BY <2>4, <3>2, <2>1, <1>1
      <3>3. CASE l \in 1..m /\ \E i \in 1..n : k = m + i
        BY <2>4, <3>3, <2>1, <1>1
      <3>4. CASE (\E i \in 1..n : k = m + i) /\ (\E i \in 1..n : l = m + i)
        <4>1. PICK i \in 1..n : k = m + i
          BY <3>4
        <4>2. PICK j \in 1..n : l = m + j
          BY <3>4
        <4>3. r[i] = r[j]
          BY <2>4, <4>1, <4>2, <1>1
        <4>4. QED
          BY <4>1, <4>2, <4>3, <2>3
      <3>5. QED
        BY <3>1, <3>2, <3>3, <3>4, <1>3
    <2>5. QED
      BY <2>4, <1>2 DEF IsInjective
  <1>6. QED
    BY <1>1, <1>4, <1>5 DEF q

(* The elements of a part of a queue, from a to b.                         *)
LEMMA PartAt ==
    ASSUME NEW S, NEW s \in Seq(S), NEW a \in Nat \ {0}, NEW b \in Nat,
           b <= Len(s), a <= b + 1
    PROVE  /\ SubSeq(s, a, b) \in Seq(S)
           /\ Len(SubSeq(s, a, b)) = b - a + 1
           /\ \A i \in 1..(b - a + 1) : SubSeq(s, a, b)[i] = s[a + i - 1]
  OBVIOUS

(* A part of a queue, from a to b, as a set, and its distinctness.         *)
LEMMA PartOfQueue ==
    ASSUME NEW S, NEW s \in Seq(S), NEW a \in Nat \ {0}, NEW b \in Nat,
           b <= Len(s), a <= b + 1
    PROVE  /\ SubSeq(s, a, b) \in Seq(S)
           /\ Len(SubSeq(s, a, b)) = b - a + 1
           /\ \A i \in 1..(b - a + 1) : SubSeq(s, a, b)[i] = s[a + i - 1]
           /\ \A x : x \in ToSet(SubSeq(s, a, b)) <=> \E k \in a..b : x = s[k]
           /\ IsInjective(s) => IsInjective(SubSeq(s, a, b))
  <1> DEFINE r == SubSeq(s, a, b)
             n == Len(s)
  <1>1. n \in Nat /\ DOMAIN s = 1..n /\ \A i \in 1..n : s[i] \in S
    BY LenProperties, ElementOfSeq
  <1>2. r = [i \in 1..(b - a + 1) |-> s[a + i - 1]]
    OBVIOUS
  <1>3. DOMAIN r = 1..(b - a + 1) /\ b - a + 1 \in Nat
    BY <1>2
  <1>4. \A i \in 1..(b - a + 1) : r[i] = s[a + i - 1]
    BY <1>2
  <1>5. r \in Seq(S) /\ Len(r) = b - a + 1
    <2>1. \A i \in 1..(b - a + 1) : a + i - 1 \in 1..n
      BY <1>1
    <2>2. r \in [1..(b - a + 1) -> S]
      BY <1>1, <1>2, <2>1
    <2>3. QED
      BY <2>2, <1>3, SeqDef, LenProperties
  <1> HIDE DEF r
  <1>6. ASSUME NEW x PROVE x \in ToSet(r) <=> \E k \in a..b : x = s[k]
    <2>1. ASSUME x \in ToSet(r) PROVE \E k \in a..b : x = s[k]
      <3>1. PICK i \in 1..(b - a + 1) : x = r[i]
        BY <2>1, <1>3 DEF ToSet
      <3>2. a + i - 1 \in a..b /\ x = s[a + i - 1]
        BY <3>1, <1>4
      <3>3. QED
        BY <3>2
    <2>2. ASSUME NEW k \in a..b, x = s[k] PROVE x \in ToSet(r)
      <3>1. k - a + 1 \in 1..(b - a + 1) /\ a + (k - a + 1) - 1 = k
        OBVIOUS
      <3>2. k - a + 1 \in DOMAIN r /\ r[k - a + 1] = x
        BY <2>2, <3>1, <1>3, <1>4
      <3>3. QED
        BY <3>2 DEF ToSet
    <2>3. QED
      BY <2>1, <2>2
  <1>7. ASSUME IsInjective(s) PROVE IsInjective(r)
    <2>1. \A i, j \in 1..n : s[i] = s[j] => i = j
      BY <1>7, <1>1 DEF IsInjective
    <2>2. ASSUME NEW i \in 1..(b - a + 1), NEW j \in 1..(b - a + 1), r[i] = r[j] PROVE i = j
      <3>1. a + i - 1 \in 1..n /\ a + j - 1 \in 1..n /\ s[a + i - 1] = s[a + j - 1]
        BY <2>2, <1>1, <1>4
      <3>2. a + i - 1 = a + j - 1
        BY <3>1, <2>1
      <3>3. QED
        BY <3>2
    <2>3. QED
      BY <2>2, <1>3 DEF IsInjective
  <1>8. QED
    BY <1>4, <1>5, <1>6, <1>7 DEF r

(* A queue of one task.                                                    *)
LEMMA OneInQueue ==
    ASSUME NEW S, NEW e \in S
    PROVE  /\ <<e>> \in Seq(S) /\ IsInjective(<<e>>)
           /\ \A x : x \in ToSet(<<e>>) <=> x = e
  BY DEF IsInjective, ToSet

(* runqueue_enqueue.                                                       *)
LEMMA AppendedQueue ==
    ASSUME NEW S, NEW s \in Seq(S), NEW e \in S
    PROVE  /\ Append(s, e) \in Seq(S)
           /\ \A x : x \in ToSet(Append(s, e)) <=> x \in ToSet(s) \/ x = e
           /\ IsInjective(s) /\ e \notin ToSet(s) => IsInjective(Append(s, e))
  <1> DEFINE r == <<e>>
  <1>1. Append(s, e) = s \o r
    BY AppendIsConcat
  <1>2. r \in Seq(S) /\ IsInjective(r) /\ \A x : x \in ToSet(r) <=> x = e
    BY OneInQueue
  <1> HIDE DEF r
  <1>3. /\ s \o r \in Seq(S)
        /\ \A x : x \in ToSet(s \o r) <=> x \in ToSet(s) \/ x \in ToSet(r)
        /\ IsInjective(s) /\ IsInjective(r) /\ ToSet(s) \cap ToSet(r) = {}
             => IsInjective(s \o r)
    BY <1>2, JoinedQueue
  <1>4. e \notin ToSet(s) => ToSet(s) \cap ToSet(r) = {}
    BY <1>2
  <1>5. QED
    BY <1>1, <1>2, <1>3, <1>4

(* runqueue_dequeue.                                                       *)
LEMMA DequeuedQueue ==
    ASSUME NEW S, NEW s \in Seq(S), s # <<>>
    PROVE  /\ Tail(s) \in Seq(S) /\ Head(s) \in S /\ Head(s) \in ToSet(s)
           /\ IsInjective(s) =>
                /\ IsInjective(Tail(s))
                /\ \A x : x \in ToSet(Tail(s)) <=> x \in ToSet(s) /\ x # Head(s)
  <1> DEFINE n == Len(s)
  <1>1. n \in Nat \ {0} /\ DOMAIN s = 1..n /\ Head(s) = s[1] /\ Head(s) \in S
    BY EmptySeq, LenProperties, HeadTailProperties
  <1>2. Tail(s) = SubSeq(s, 2, n)
    OBVIOUS
  <1> HIDE DEF n
  <1>3. /\ Tail(s) \in Seq(S)
        /\ \A x : x \in ToSet(Tail(s)) <=> \E k \in 2..n : x = s[k]
        /\ IsInjective(s) => IsInjective(Tail(s))
    <2>1. 2 \in Nat \ {0} /\ n \in Nat /\ n <= Len(s) /\ 2 <= n + 1
      BY <1>1 DEF n
    <2>2. /\ SubSeq(s, 2, n) \in Seq(S)
          /\ \A x : x \in ToSet(SubSeq(s, 2, n)) <=> \E k \in 2..n : x = s[k]
          /\ IsInjective(s) => IsInjective(SubSeq(s, 2, n))
      BY ONLY <2>1, s \in Seq(S), PartOfQueue
    <2>3. QED
      BY <2>2, <1>2
  <1>4. Head(s) \in ToSet(s)
    BY <1>1 DEF ToSet
  <1>5. ASSUME IsInjective(s), NEW x
        PROVE  x \in ToSet(Tail(s)) <=> x \in ToSet(s) /\ x # Head(s)
    <2>1. \A i, j \in 1..n : s[i] = s[j] => i = j
      BY <1>5, <1>1 DEF IsInjective
    <2>2. x \in ToSet(s) <=> \E k \in 1..n : x = s[k]
      BY <1>1 DEF ToSet
    <2>3. QED
      BY <1>1, <1>3, <2>1, <2>2
  <1>6. QED
    BY <1>1, <1>3, <1>4, <1>5

(* The first of some places in a queue.                                    *)
LEMMA FirstPlace ==
    ASSUME NEW I, I \subseteq Nat, I # {}
    PROVE  Min(I) \in I /\ \A j \in I : Min(I) <= j
  <1>1. \E n \in I : \A k \in I : ~ (<<k, n>> \in OpToRel(<, Nat))
    BY NatLessThanWellFounded, WFMin
  <1>2. ASSUME NEW k \in Nat, NEW n \in Nat, k < n
        PROVE  <<k, n>> \in OpToRel(<, Nat)
    BY <1>2, Zenon DEF OpToRel
  <1>3. \E n \in I : \A k \in I : ~ (k < n)
    BY <1>1, <1>2
  <1>4. \E n \in I : \A k \in I : n <= k
    BY <1>3
  <1>5. QED
    BY <1>4 DEF Min

(* intrusivelist_add_before, or at the tail if k is behind the last.       *)
LEMMA InsertedQueue ==
    ASSUME NEW S, NEW s \in Seq(S), NEW e \in S, NEW k \in 1..(Len(s) + 1)
    PROVE  /\ InsertAt(s, k, e) \in Seq(S)
           /\ Len(InsertAt(s, k, e)) = Len(s) + 1
           /\ \A i \in 1..(k - 1) : InsertAt(s, k, e)[i] = s[i]
           /\ InsertAt(s, k, e)[k] = e
           /\ \A i \in k..Len(s) : InsertAt(s, k, e)[i + 1] = s[i]
           /\ \A x : x \in ToSet(InsertAt(s, k, e)) <=> x \in ToSet(s) \/ x = e
           /\ IsInjective(s) /\ e \notin ToSet(s) => IsInjective(InsertAt(s, k, e))
  <1> DEFINE n == Len(s)
             a == SubSeq(s, 1, k - 1)
             m == <<e>>
             b == SubSeq(s, k, n)
             r == a \o m \o b
  <1>1. n \in Nat /\ DOMAIN s = 1..n /\ k \in Nat \ {0} /\ k - 1 \in Nat
    BY LenProperties
  <1>2. /\ a \in Seq(S) /\ Len(a) = k - 1
        /\ \A i \in 1..(k - 1) : a[i] = s[i]
    <2>1. 1 \in Nat \ {0} /\ k - 1 <= Len(s) /\ 1 <= (k - 1) + 1
      BY <1>1
    <2>2. /\ a \in Seq(S) /\ Len(a) = (k - 1) - 1 + 1
          /\ \A i \in 1..((k - 1) - 1 + 1) : a[i] = s[1 + i - 1]
      BY ONLY <2>1, <1>1, s \in Seq(S), PartAt
    <2>3. QED
      BY <2>2, <1>1
  <1>3. /\ b \in Seq(S) /\ Len(b) = n - k + 1
        /\ \A i \in 1..(n - k + 1) : b[i] = s[k + i - 1]
    <2>1. n <= Len(s) /\ k <= n + 1
      BY <1>1
    <2>2. QED
      BY ONLY <2>1, <1>1, s \in Seq(S), PartAt
  <1>4. m \in Seq(S) /\ Len(m) = 1 /\ m[1] = e
    OBVIOUS
  <1>5. InsertAt(s, k, e) = r
    BY DEF InsertAt
  <1> HIDE DEF a, m, b
  <1>6. /\ a \o m \in Seq(S) /\ Len(a \o m) = k
        /\ \A i \in 1..(k - 1) : (a \o m)[i] = s[i]
        /\ (a \o m)[k] = e
    <2>1. /\ a \o m \in Seq(S) /\ Len(a \o m) = (k - 1) + 1
          /\ \A i \in 1..(k - 1) : (a \o m)[i] = a[i]
          /\ \A i \in 1..1 : (a \o m)[(k - 1) + i] = m[i]
      <3>1. /\ a \o m \in Seq(S)
            /\ Len(a \o m) = Len(a) + Len(m)
            /\ \A i \in 1..(Len(a) + Len(m)) :
                 (a \o m)[i] = IF i <= Len(a) THEN a[i] ELSE m[i - Len(a)]
        BY <1>2, <1>4, ConcatProperties
      <3>2. /\ a \o m \in Seq(S)
            /\ Len(a \o m) = (k - 1) + 1
            /\ \A i \in 1..((k - 1) + 1) :
                 (a \o m)[i] = IF i <= k - 1 THEN a[i] ELSE m[i - (k - 1)]
        BY <3>1, <1>2, <1>4
      <3>3. \A i \in 1..(k - 1) : (a \o m)[i] = a[i]
        BY <3>2, <1>1
      <3>4. \A i \in 1..1 : (a \o m)[(k - 1) + i] = m[i]
        BY <3>2, <1>1
      <3>5. QED
        BY <3>2, <3>3, <3>4
    <2>2. (a \o m)[(k - 1) + 1] = e /\ (k - 1) + 1 = k
      BY <2>1, <1>1, <1>4
    <2>3. QED
      BY <2>1, <2>2, <1>2
  <1> DEFINE c == a \o m
  <1> HIDE DEF c
  <1>7. /\ c \in Seq(S) /\ Len(c) = k
        /\ \A i \in 1..(k - 1) : c[i] = s[i]
        /\ c[k] = e
    BY <1>6 DEF c
  <1>8. /\ c \o b \in Seq(S) /\ Len(c \o b) = k + (n - k + 1)
        /\ \A i \in 1..k : (c \o b)[i] = c[i]
        /\ \A i \in 1..(n - k + 1) : (c \o b)[k + i] = b[i]
    BY <1>1, <1>3, <1>7, ConcatProperties
  <1>9. r = c \o b
    BY DEF c
  <1> HIDE DEF r, n
  <1>10. /\ r \in Seq(S) /\ Len(r) = n + 1 /\ DOMAIN r = 1..(n + 1)
         /\ \A i \in 1..(k - 1) : r[i] = s[i]
         /\ r[k] = e
    BY <1>1, <1>7, <1>8, <1>9, LenProperties
  <1>11. ASSUME NEW i \in k..n PROVE r[i + 1] = s[i]
    <2>1. i - k + 1 \in 1..(n - k + 1) /\ k + (i - k + 1) = i + 1 /\ k + (i - k + 1) - 1 = i
      BY <1>1
    <2>2. r[k + (i - k + 1)] = s[k + (i - k + 1) - 1]
      BY <2>1, <1>3, <1>8, <1>9
    <2>3. QED
      BY <2>1, <2>2
  <1>12. \A j \in 1..(n + 1) : j \in 1..(k - 1) \/ j = k \/ (j - 1 \in k..n /\ r[j] = s[j - 1])
    <2> SUFFICES ASSUME NEW j \in 1..(n + 1), j \notin 1..(k - 1), j # k
                 PROVE  j - 1 \in k..n /\ r[j] = s[j - 1]
      OBVIOUS
    <2>1. j - 1 \in k..n /\ (j - 1) + 1 = j
      BY <1>1
    <2>2. QED
      BY <2>1, <1>11
  <1>13. ASSUME NEW x PROVE x \in ToSet(r) <=> x \in ToSet(s) \/ x = e
    <2>1. ASSUME x \in ToSet(r) PROVE x \in ToSet(s) \/ x = e
      <3>1. PICK j \in 1..(n + 1) : x = r[j]
        BY <2>1, <1>10 DEF ToSet
      <3>2. CASE j \in 1..(k - 1)
        <4>1. j \in DOMAIN s /\ s[j] = x
          BY <3>1, <3>2, <1>1, <1>10
        <4>2. QED
          BY <4>1 DEF ToSet
      <3>3. CASE j = k
        BY <3>1, <3>3, <1>10
      <3>4. CASE j - 1 \in k..n /\ r[j] = s[j - 1]
        <4>1. j - 1 \in DOMAIN s /\ s[j - 1] = x
          BY <3>1, <3>4, <1>1
        <4>2. QED
          BY <4>1 DEF ToSet
      <3>5. QED
        BY <3>2, <3>3, <3>4, <1>12
    <2>2. ASSUME x \in ToSet(s) PROVE x \in ToSet(r)
      <3>1. PICK i \in 1..n : x = s[i]
        BY <2>2, <1>1 DEF ToSet
      <3>2. CASE i \in 1..(k - 1)
        <4>1. i \in DOMAIN r /\ r[i] = x
          BY <3>1, <3>2, <1>10, <1>1
        <4>2. QED
          BY <4>1 DEF ToSet
      <3>3. CASE i \in k..n
        <4>1. i + 1 \in DOMAIN r /\ r[i + 1] = x
          BY <3>1, <3>3, <1>10, <1>11, <1>1
        <4>2. QED
          BY <4>1 DEF ToSet
      <3>4. QED
        BY <3>2, <3>3, <1>1
    <2>3. e \in ToSet(r)
      <3>1. k \in DOMAIN r /\ r[k] = e
        BY <1>10, <1>1 DEF n
      <3>2. QED
        BY <3>1 DEF ToSet
    <2>4. QED
      BY <2>1, <2>2, <2>3
  <1>14. ASSUME IsInjective(s), e \notin ToSet(s) PROVE IsInjective(r)
    <2>1. \A i \in 1..n : s[i] # e
      BY <1>14, <1>1 DEF ToSet
    <2>2. \A i, j \in 1..n : s[i] = s[j] => i = j
      BY <1>14, <1>1 DEF IsInjective
    <2>3. ASSUME NEW i \in 1..(n + 1), NEW j \in 1..(n + 1), r[i] = r[j] PROVE i = j
      <3>1. /\ i \in 1..(k - 1) \/ i = k \/ (i - 1 \in k..n /\ r[i] = s[i - 1])
            /\ j \in 1..(k - 1) \/ j = k \/ (j - 1 \in k..n /\ r[j] = s[j - 1])
        BY <1>12
      <3>2. /\ \A l \in 1..(k - 1) : l \in 1..n /\ r[l] = s[l]
            /\ \A l \in k..n : l \in 1..n
            /\ r[k] = e
        BY <1>1, <1>10 DEF n
      <3>3. CASE i = k \/ j = k
        BY <3>1, <3>2, <3>3, <2>1, <2>3
      <3>4. CASE i # k /\ j # k
        <4>1. CASE i \in 1..(k - 1) /\ j \in 1..(k - 1)
          BY <4>1, <3>2, <2>2, <2>3
        <4>2. CASE i \in 1..(k - 1) /\ j \notin 1..(k - 1)
          BY <4>2, <3>1, <3>2, <3>4, <2>2, <2>3
        <4>3. CASE i \notin 1..(k - 1) /\ j \in 1..(k - 1)
          BY <4>3, <3>1, <3>2, <3>4, <2>2, <2>3
        <4>4. CASE i \notin 1..(k - 1) /\ j \notin 1..(k - 1)
          <5>1. i - 1 \in 1..n /\ j - 1 \in 1..n /\ s[i - 1] = s[j - 1]
            BY <4>4, <3>1, <3>2, <3>4, <2>3
          <5>2. i - 1 = j - 1
            BY <5>1, <2>2
          <5>3. QED
            BY <5>2
        <4>5. QED
          BY <4>1, <4>2, <4>3, <4>4
      <3>5. QED
        BY <3>3, <3>4
    <2>4. QED
      BY <2>3, <1>10 DEF IsInjective
  <1>15. QED
    BY <1>5, <1>10, <1>11, <1>13, <1>14 DEF n

(* task_manager_remove_task.                                               *)
LEMMA UnlinkedQueue ==
    ASSUME NEW S, NEW s \in Seq(S), NEW e, IsInjective(s), e \in ToSet(s)
    PROVE  /\ Unlink(s, e) \in Seq(S)
           /\ IsInjective(Unlink(s, e))
           /\ \A x : x \in ToSet(Unlink(s, e)) <=> x \in ToSet(s) /\ x # e
  <1> DEFINE n == Len(s)
             k == CHOOSE i \in DOMAIN s : s[i] = e
             a == SubSeq(s, 1, k - 1)
             b == SubSeq(s, k + 1, n)
  <1>1. n \in Nat /\ DOMAIN s = 1..n
    BY LenProperties
  <1>2. k \in 1..n /\ s[k] = e
    BY <1>1 DEF ToSet
  <1>3. Contains(s, e)
    BY <1>1, <1>2 DEF Contains
  <1>4. Unlink(s, e) = a \o b
    BY <1>3 DEF Unlink, RemoveAt
  <1> HIDE DEF n, k
  <1>5. \A i, j \in 1..n : s[i] = s[j] => i = j
    BY <1>1 DEF IsInjective
  <1>6. /\ a \in Seq(S) /\ IsInjective(a)
        /\ \A x : x \in ToSet(a) <=> \E i \in 1..(k - 1) : x = s[i]
    <2>1. 1 \in Nat \ {0} /\ k - 1 \in Nat /\ k - 1 <= Len(s) /\ 1 <= (k - 1) + 1
      BY <1>1, <1>2 DEF n
    <2>2. QED
      BY ONLY <2>1, s \in Seq(S), IsInjective(s), PartOfQueue
  <1>7. /\ b \in Seq(S) /\ IsInjective(b)
        /\ \A x : x \in ToSet(b) <=> \E i \in (k + 1)..n : x = s[i]
    <2>1. k + 1 \in Nat \ {0} /\ n \in Nat /\ n <= Len(s) /\ k + 1 <= n + 1
      BY <1>1, <1>2 DEF n
    <2>2. QED
      BY ONLY <2>1, s \in Seq(S), IsInjective(s), PartOfQueue
  <1> HIDE DEF a, b
  <1>8. ToSet(a) \cap ToSet(b) = {}
    <2> SUFFICES ASSUME NEW x, x \in ToSet(a), x \in ToSet(b) PROVE FALSE
      OBVIOUS
    <2>1. PICK i \in 1..(k - 1) : x = s[i]
      BY <1>6
    <2>2. PICK j \in (k + 1)..n : x = s[j]
      BY <1>7
    <2>3. i \in 1..n /\ j \in 1..n /\ i # j
      BY <1>1, <1>2
    <2>4. QED
      BY <2>1, <2>2, <2>3, <1>5
  <1>9. /\ a \o b \in Seq(S) /\ IsInjective(a \o b)
        /\ \A x : x \in ToSet(a \o b) <=> x \in ToSet(a) \/ x \in ToSet(b)
    BY <1>6, <1>7, <1>8, JoinedQueue
  <1>10. \A x : x \in ToSet(s) <=> \E i \in 1..n : x = s[i]
    BY <1>1 DEF ToSet
  <1>11. ASSUME NEW x PROVE x \in ToSet(a \o b) <=> x \in ToSet(s) /\ x # e
    <2>1. \A i \in 1..n : i \in 1..(k - 1) \/ i = k \/ i \in (k + 1)..n
      BY <1>1, <1>2
    <2>2. \A i \in 1..(k - 1) : i \in 1..n /\ i # k
      BY <1>1, <1>2
    <2>3. \A i \in (k + 1)..n : i \in 1..n /\ i # k
      BY <1>1, <1>2
    <2>4. QED
      BY <2>1, <2>2, <2>3, <1>2, <1>5, <1>6, <1>7, <1>9, <1>10
  <1>12. QED
    BY <1>4, <1>9, <1>11

-----------------------------------------------------------------------------
(* What the constants say of tasks.                                        *)
LEMMA Constants ==
    /\ Tasks \subseteq AllTasks /\ Null \notin AllTasks /\ Null \notin Tasks
    /\ \A t \in AllTasks : Home[t] \in Cpus
    /\ \A c \in Cpus :
        /\ Idle[c] \in AllTasks \ Tasks /\ Cleanup[c] \in AllTasks \ Tasks
        /\ Idle[c] # Cleanup[c] /\ Home[Idle[c]] = c /\ Home[Cleanup[c]] = c
    /\ SleepQueue # Null /\ MaxTime \in Nat
  <1>1. ASSUME NEW c \in Cpus
        PROVE  /\ Idle[c] \in AllTasks \ Tasks /\ Cleanup[c] \in AllTasks \ Tasks
               /\ Idle[c] # Cleanup[c] /\ Home[Idle[c]] = c /\ Home[Cleanup[c]] = c
    <2>1. Idle[c] \in {Idle[c], Cleanup[c]} /\ Cleanup[c] \in {Idle[c], Cleanup[c]}
      OBVIOUS
    <2>2. Idle[c] \in AllTasks /\ Cleanup[c] \in AllTasks
      BY SchedAssumption
    <2>3. Idle[c] \notin Tasks /\ Cleanup[c] \notin Tasks
      BY <2>1, SchedAssumption
    <2>4. QED
      BY <2>2, <2>3, SchedAssumption
  <1>2. QED
    BY <1>1, SchedAssumption, BootAssumption

(* Membership in a queue, as the model states it.                          *)
LEMMA ContainsIsMembership ==
    ASSUME NEW S, NEW s \in Seq(S), NEW e
    PROVE  Contains(s, e) <=> e \in ToSet(s)
  <1>1. DOMAIN s = 1..Len(s)
    BY LenProperties
  <1>2. QED
    BY <1>1 DEF Contains, ToSet

(* The members of a sequence of tasks are tasks.                           *)
LEMMA SeqMembers ==
    ASSUME NEW s \in Seq(Tasks)
    PROVE  ToSet(s) \subseteq Tasks /\ ToSet(s) \subseteq AllTasks
  <1>1. \A i \in DOMAIN s : s[i] \in Tasks
    BY LenProperties, ElementOfSeq
  <1>2. QED
    BY <1>1, Constants DEF ToSet

(* A step that moves no task between queues keeps what depends on them.    *)
LEMMA Moves ==
    ASSUME IInv, UNCHANGED <<taskVars, queueVars, current, next>>,
           Types', OnlyBootPanics',
           \A t \in Tasks : state[t] = "RUNNING" => cpu'[Home[t]] \notin {"pick", "loop", "check", "commit"},
           \A t \in Tasks : pc'[t] \in PointsOf(state[t]),
           \A c \in Cpus : CpuOK(c)' /\ CleanupOK(c)'
    PROVE  IInv'
  <1>1. /\ UNCHANGED <<state, waiting_on, sleep_until, runnable, sleeping, current, next>>
    BY DEF taskVars, queueVars
  <1>2. \A t \in Tasks : TaskOK(t)'
    BY <1>1 DEF IInv, TaskOK
  <1>3. \A t \in AllTasks \ Tasks : ServantOK(t)'
    BY <1>1 DEF IInv, ServantOK
  <1>4. \A c \in Cpus : QueueOK(c)'
    BY <1>1 DEF IInv, QueueOK
  <1>5. SleepersSorted'
    BY <1>1 DEF IInv, SleepersSorted
  <1>6. QED
    BY <1>2, <1>3, <1>4, <1>5 DEF IInv

(* A task calls scheduler_switch.                                          *)
LEMMA Calls ==
    ASSUME IInv, NEW c \in Cpus, NEW t \in AllTasks, NEW to, Runs(c, t),
           CallSwitch(c, t, to),
           t \in Tasks => to \in PointsOf(state[t]),
           t \notin Tasks => to \in {"idle", "find"},
           UNCHANGED <<taskVars, queueVars, cpuVars, now, exiting, faults, lifeVars>>
    PROVE  IInv'
  <1> USE Constants
  <1>1. /\ UNCHANGED <<state, waiting_on, sleep_until, runnable, sleeping, current, next, left>>
        /\ UNCHANGED <<tasks, dead, freed, now, exiting, faults>>
    BY DEF taskVars, queueVars, cpuVars, lifeVars
  <1>2. Types /\ cpu \in [Cpus -> CpuPoints] /\ state \in [AllTasks -> {"NONE", "READY", "RUNNING", "BLOCKED", "DEAD"}]
        /\ pc \in [AllTasks -> Alive \cup Ended \cup CleanupPoints \cup {"idle"}]
    BY DEF IInv, Types, TypeOK
  <1>3. to \in Alive \cup Ended \cup CleanupPoints \cup {"idle"}
    BY <1>2 DEF PointsOf, Alive, Ended, CleanupPoints
  <1>4. Types'
    BY <1>1, <1>2, <1>3 DEF Types, TypeOK, CallSwitch, CpuPoints
  <1>5. /\ cpu'[c] = "enter" /\ \A d \in Cpus : d # c => cpu'[d] = cpu[d]
        /\ pc'[t] = to /\ \A u \in AllTasks : u # t => pc'[u] = pc[u]
    BY <1>2 DEF CallSwitch
  <1>6. OnlyBootPanics'
    BY <1>1 DEF IInv, OnlyBootPanics
  <1>7. \A u \in Tasks : state[u] = "RUNNING" => cpu'[Home[u]] \notin {"pick", "loop", "check", "commit"}
    BY <1>5 DEF IInv, TaskOK
  <1>8. \A u \in Tasks : pc'[u] \in PointsOf(state[u])
    BY <1>5 DEF IInv, TaskOK
  <1>9. ASSUME NEW d \in Cpus PROVE CpuOK(d)'
    <2>1. CpuOK(d) /\ CpuOK(c)
      BY DEF IInv
    <2>2. CASE d = c
      BY <2>1, <2>2, <1>1, <1>5 DEF CpuOK, Runs
    <2>3. CASE d # c
      <3>1. current[d] # t
        BY <2>1, <2>3 DEF CpuOK, Runs
      <3>2. current[d] \in Tasks => pc'[current[d]] = pc[current[d]]
        BY <3>1, <1>5
      <3>3. QED
        BY <3>2, <2>1, <2>3, <1>1, <1>5 DEF CpuOK
    <2>4. QED
      BY <2>2, <2>3
  <1>10. ASSUME NEW d \in Cpus PROVE CleanupOK(d)'
    <2>1. pc'[Cleanup[d]] = pc[Cleanup[d]] \/ pc'[Cleanup[d]] \in {"idle", "find"}
      BY <1>5
    <2>2. QED
      BY <2>1, <1>1 DEF IInv, CleanupOK
  <1>11. QED
    BY <1>1, <1>4, <1>6, <1>7, <1>8, <1>9, <1>10, Moves DEF taskVars, queueVars

(* The cleanup task goes on in its own code.                               *)
LEMMA CleansOn ==
    ASSUME IInv, NEW c \in Cpus, NEW to \in CleanupPoints, NEW x \in Tasks \cup {Null},
           Go(Cleanup[c], to), dead' = [dead EXCEPT ![c] = x],
           x # Null => state[x] = "DEAD",
           to \in {"remove", "destroy"} => x # Null,
           tasks' \in Seq(Tasks), faults' \subseteq faults \cup MemoryFaults,
           UNCHANGED <<taskVars, queueVars, current, next, left, now, exiting, cpu>>
    PROVE  IInv'
  <1> USE Constants
  <1>1. UNCHANGED <<state, waiting_on, sleep_until, runnable, sleeping, current, next, left, now, exiting, cpu>>
    BY DEF taskVars, queueVars
  <1>2. Types /\ dead \in [Cpus -> Tasks \cup {Null}]
        /\ pc \in [AllTasks -> Alive \cup Ended \cup CleanupPoints \cup {"idle"}]
    BY DEF IInv, Types, TypeOK
  <1>3. dead' \in [Cpus -> Tasks \cup {Null}]
        /\ pc' \in [AllTasks -> Alive \cup Ended \cup CleanupPoints \cup {"idle"}]
    BY <1>2 DEF Go
  <1>4. Types'
    BY <1>1, <1>2, <1>3 DEF Types, TypeOK
  <1>5. /\ pc'[Cleanup[c]] = to /\ \A u \in AllTasks : u # Cleanup[c] => pc'[u] = pc[u]
        /\ dead'[c] = x /\ \A d \in Cpus : d # c => dead'[d] = dead[d]
    BY <1>2 DEF Go
  <1>6. OnlyBootPanics'
    BY DEF IInv, OnlyBootPanics
  <1>7. \A u \in Tasks : state[u] = "RUNNING" => cpu'[Home[u]] \notin {"pick", "loop", "check", "commit"}
    BY <1>1 DEF IInv, TaskOK
  <1>8. \A u \in Tasks : pc'[u] = pc[u]
    BY <1>5
  <1>9. \A u \in Tasks : pc'[u] \in PointsOf(state[u])
    BY <1>8 DEF IInv, TaskOK
  <1>10. \A d \in Cpus : CpuOK(d)'
    BY <1>1, <1>8 DEF IInv, CpuOK
  <1>11. ASSUME NEW d \in Cpus PROVE CleanupOK(d)'
    <2>1. CASE d = c
      BY <2>1, <1>1, <1>5 DEF CleanupOK
    <2>2. CASE d # c
      <3>1. Cleanup[d] # Cleanup[c]
        BY <2>2
      <3>2. QED
        BY <3>1, <2>2, <1>1, <1>5 DEF IInv, CleanupOK
    <2>3. QED
      BY <2>1, <2>2
  <1>12. QED
    BY <1>1, <1>4, <1>6, <1>7, <1>9, <1>10, <1>11, Moves DEF taskVars, queueVars

(* A CPU goes on, or halts at the one assertion that can fail.             *)
LEMMA CpuGoesOn ==
    ASSUME IInv, cpu' \in [Cpus -> CpuPoints],
           \A c \in Cpus : cpu'[c] = cpu[c] \/ (cpu[c] \notin {"check", "commit"} /\ cpu'[c] \in {"enter", "halted"})
                           \/ (cpu[c] = "ctx" /\ cpu'[c] = "run")
                           \/ (cpu[c] = "check" /\ cpu'[c] = "commit"),
           left' \in [Cpus -> AllTasks \cup {Null}], now' \in 0..MaxTime, OnlyBootPanics',
           UNCHANGED <<taskVars, queueVars, current, next, exiting, pc, lifeVars>>
    PROVE  IInv'
  <1> USE Constants
  <1>1. /\ UNCHANGED <<state, waiting_on, sleep_until, runnable, sleeping, current, next, exiting, pc>>
        /\ UNCHANGED <<tasks, dead, freed>>
    BY DEF taskVars, queueVars, lifeVars
  <1>2. Types'
    BY <1>1 DEF IInv, Types, TypeOK
  <1>3. \A u \in Tasks : state[u] = "RUNNING" => cpu'[Home[u]] \notin {"pick", "loop", "check", "commit"}
    <2> SUFFICES ASSUME NEW u \in Tasks, state[u] = "RUNNING"
                 PROVE  cpu'[Home[u]] \notin {"pick", "loop", "check", "commit"}
      OBVIOUS
    <2>1. cpu[Home[u]] \notin {"pick", "loop", "check", "commit"} /\ Home[u] \in Cpus
      BY DEF IInv, TaskOK
    <2>2. QED
      BY <2>1
  <1>4. \A u \in Tasks : pc'[u] \in PointsOf(state[u])
    BY <1>1 DEF IInv, TaskOK
  <1>5. ASSUME NEW d \in Cpus PROVE CpuOK(d)'
    <2>1. CpuOK(d)
      BY DEF IInv
    <2>2. \/ cpu'[d] = cpu[d] \/ (cpu[d] \notin {"check", "commit"} /\ cpu'[d] \in {"enter", "halted"})
          \/ (cpu[d] = "ctx" /\ cpu'[d] = "run") \/ (cpu[d] = "check" /\ cpu'[d] = "commit")
      OBVIOUS
    <2>3. QED
      BY <2>1, <2>2, <1>1 DEF CpuOK
  <1>6. \A d \in Cpus : CleanupOK(d)'
    BY <1>1 DEF IInv, CleanupOK
  <1>7. QED
    BY <1>1, <1>2, <1>3, <1>4, <1>5, <1>6, Moves DEF taskVars, queueVars

(* What the code position of the task on a CPU says of its state.          *)
LEMMA StateAt ==
    ASSUME IInv, NEW c \in Cpus, NEW t \in Tasks, Runs(c, t)
    PROVE  /\ Home[t] = c
           /\ pc[t] \in {"body", "exit_dead"} => state[t] = "RUNNING"
           /\ pc[t] = "sleep_switch" => state[t] \in {"RUNNING", "BLOCKED"}
           /\ pc[t] = "exit_yield" => state[t] = "DEAD"
  <1> USE Constants
  <1>1. CpuOK(c) /\ TaskOK(t) /\ t # Null
    BY DEF IInv
  <1>2. Home[t] = c
    BY <1>1 DEF CpuOK, Runs
  <1>3. state[t] \in {"RUNNING", "DEAD"} \/ (state[t] = "BLOCKED" /\ pc[t] = "sleep_switch")
    BY <1>1 DEF CpuOK, Runs
  <1>4. pc[t] \in PointsOf(state[t])
    BY <1>1 DEF TaskOK
  <1>5. QED
    BY <1>2, <1>3, <1>4 DEF PointsOf, Alive, Ended

(* Steps of a task that call scheduler_switch or go to the end.            *)
LEMMA TaskCalls ==
    ASSUME IInv, NEW c \in Cpus, NEW t \in Tasks,
           Yield(c, t) \/ SleepSwitch(c, t) \/ ExitYield(c, t)
    PROVE  IInv'
  <1> USE Constants
  <1>1. CASE Yield(c, t)
    <2>1. Runs(c, t) /\ state[t] = "RUNNING"
      BY <1>1, StateAt DEF Yield, At
    <2>2. "body" \in PointsOf(state[t])
      BY <2>1 DEF PointsOf, Alive
    <2>3. /\ CallSwitch(c, t, "body")
          /\ UNCHANGED <<taskVars, queueVars, cpuVars, now, exiting, faults, lifeVars>>
      BY <1>1 DEF Yield
    <2>4. QED
      BY <2>1, <2>2, <2>3, Calls
  <1>2. CASE SleepSwitch(c, t)
    <2>1. Runs(c, t) /\ state[t] \in {"RUNNING", "BLOCKED"}
      BY <1>2, StateAt DEF SleepSwitch, At
    <2>2. "body" \in PointsOf(state[t])
      BY <2>1 DEF PointsOf, Alive
    <2>3. /\ CallSwitch(c, t, "body")
          /\ UNCHANGED <<taskVars, queueVars, cpuVars, now, exiting, faults, lifeVars>>
      BY <1>2 DEF SleepSwitch
    <2>4. QED
      BY <2>1, <2>2, <2>3, Calls
  <1>3. CASE ExitYield(c, t)
    <2>1. Runs(c, t) /\ state[t] = "DEAD"
      BY <1>3, StateAt DEF ExitYield, At
    <2>2. "gone" \in PointsOf(state[t])
      BY <2>1 DEF PointsOf, Ended
    <2>3. /\ CallSwitch(c, t, "gone")
          /\ UNCHANGED <<taskVars, queueVars, cpuVars, now, exiting, faults, lifeVars>>
      BY <1>3 DEF ExitYield
    <2>4. QED
      BY <2>1, <2>2, <2>3, Calls
  <1>4. QED
    BY <1>1, <1>2, <1>3

(* task_exit asks for a cleanup.                                           *)
LEMMA ExitFlagKeeps ==
    ASSUME IInv, NEW c \in Cpus, NEW t \in Tasks, ExitFlag(c, t, "body")
    PROVE  IInv'
  <1> USE Constants
  <1>1. /\ UNCHANGED <<state, waiting_on, sleep_until, runnable, sleeping, current, next, left>>
        /\ UNCHANGED <<tasks, dead, freed, now, exiting, faults, cpu>>
    BY DEF ExitFlag, taskVars, queueVars, lifeVars
  <1>2. Runs(c, t) /\ state[t] = "RUNNING" /\ Home[t] = c
    BY StateAt DEF ExitFlag, At
  <1>3. pc \in [AllTasks -> Alive \cup Ended \cup CleanupPoints \cup {"idle"}]
    BY DEF IInv, Types
  <1>4. pc'[t] = "exit_dead" /\ \A u \in AllTasks : u # t => pc'[u] = pc[u]
    BY <1>3 DEF ExitFlag, Go
  <1>5. Types'
    BY <1>1, <1>3 DEF IInv, Types, TypeOK, ExitFlag, Go, Alive
  <1>6. \A u \in Tasks : pc'[u] \in PointsOf(state[u])
    BY ZenonT(40), <1>2, <1>4 DEF IInv, TaskOK, PointsOf, Alive
  <1>7. OnlyBootPanics' /\ \A u \in Tasks : state[u] = "RUNNING" => cpu'[Home[u]] \notin {"pick", "loop", "check", "commit"}
    BY <1>1 DEF IInv, OnlyBootPanics, TaskOK
  <1>8. \A d \in Cpus : CpuOK(d)'
    BY <1>1, <1>2, <1>4 DEF IInv, CpuOK
  <1>9. \A d \in Cpus : CleanupOK(d)'
    BY <1>1, <1>4 DEF IInv, CleanupOK
  <1>10. QED
    BY <1>1, <1>5, <1>6, <1>7, <1>8, <1>9, Moves DEF taskVars, queueVars

(* task_exit marks the task dead.                                          *)
LEMMA ExitDeadKeeps ==
    ASSUME IInv, NEW c \in Cpus, NEW t \in Tasks, ExitDead(c, t)
    PROVE  IInv'
  <1> USE Constants
  <1>1. /\ UNCHANGED <<waiting_on, sleep_until, runnable, sleeping, current, next, left>>
        /\ UNCHANGED <<tasks, dead, freed, now, exiting, faults, cpu>>
    BY DEF ExitDead, queueVars, cpuVars, lifeVars
  <1>2. Runs(c, t) /\ state[t] = "RUNNING" /\ Home[t] = c
    BY StateAt DEF ExitDead, At
  <1>3. /\ pc \in [AllTasks -> Alive \cup Ended \cup CleanupPoints \cup {"idle"}]
        /\ state \in [AllTasks -> {"NONE", "READY", "RUNNING", "BLOCKED", "DEAD"}]
    BY DEF IInv, Types, TypeOK
  <1>4. /\ pc'[t] = "exit_yield" /\ \A u \in AllTasks : u # t => pc'[u] = pc[u]
        /\ state'[t] = "DEAD" /\ \A u \in AllTasks : u # t => state'[u] = state[u]
    BY <1>3 DEF ExitDead, Go
  <1>5. Types'
    <2>1. /\ pc' \in [AllTasks -> Alive \cup Ended \cup CleanupPoints \cup {"idle"}]
          /\ state' \in [AllTasks -> {"NONE", "READY", "RUNNING", "BLOCKED", "DEAD"}]
      BY <1>3 DEF ExitDead, Go, Ended
    <2>2. QED
      BY <2>1, <1>1 DEF IInv, Types, TypeOK
  <1>6. \A u \in Tasks : TaskOK(u)'
    <2> SUFFICES ASSUME NEW u \in Tasks PROVE TaskOK(u)'
      OBVIOUS
    <2>1. TaskOK(u)
      BY DEF IInv
    <2>2. CASE u = t
      BY <2>1, <2>2, <1>1, <1>2, <1>4 DEF TaskOK, PointsOf, Ended
    <2>3. CASE u # t
      BY <2>1, <2>3, <1>1, <1>4 DEF TaskOK
    <2>4. QED
      BY <2>2, <2>3
  <1>7. \A u \in AllTasks \ Tasks : ServantOK(u)'
    BY <1>1, <1>4 DEF IInv, ServantOK
  <1>8. \A d \in Cpus : QueueOK(d)'
    <2> SUFFICES ASSUME NEW d \in Cpus PROVE QueueOK(d)'
      OBVIOUS
    <2>1. QueueOK(d) /\ ToSet(runnable[d]) \subseteq AllTasks /\ ToSet(sleeping[d]) \subseteq AllTasks
      BY SeqMembers DEF IInv, Types, TypeOK
    <2>2. t \notin ToSet(runnable[d]) /\ t \notin ToSet(sleeping[d])
      BY <2>1, <1>2 DEF QueueOK
    <2>3. QED
      BY <2>1, <2>2, <1>1, <1>4 DEF QueueOK
  <1>9. \A d \in Cpus : CpuOK(d)'
    <2> SUFFICES ASSUME NEW d \in Cpus PROVE CpuOK(d)'
      OBVIOUS
    <2>1. CpuOK(d)
      BY DEF IInv
    <2>2. CASE d = c
      BY <2>1, <2>2, <1>1, <1>2, <1>4 DEF CpuOK, Runs
    <2>3. CASE d # c
      <3>1. current[d] # t
        BY <2>1, <2>3, <1>2 DEF CpuOK
      <3>2. QED
        BY <3>1, <2>1, <1>1, <1>2, <1>4 DEF CpuOK
    <2>4. QED
      BY <2>2, <2>3
  <1>10. \A d \in Cpus : CleanupOK(d)'
    <2> SUFFICES ASSUME NEW d \in Cpus PROVE CleanupOK(d)'
      OBVIOUS
    <2>1. CleanupOK(d) /\ (dead[d] # Null => dead[d] \in AllTasks)
      BY DEF IInv, Types, TypeOK
    <2>2. QED
      BY <2>1, <1>1, <1>4 DEF CleanupOK
  <1>11. SleepersSorted' /\ OnlyBootPanics'
    BY <1>1 DEF IInv, SleepersSorted, OnlyBootPanics
  <1>12. QED
    BY <1>5, <1>6, <1>7, <1>8, <1>9, <1>10, <1>11 DEF IInv

(* The boot code or a task creates a task and queues it.                   *)
LEMMA CreateKeeps ==
    ASSUME IInv, NEW c \in Cpus, NEW t \in Tasks, Create(c, t)
    PROVE  IInv'
  <1> USE Constants
  <1> DEFINE h == Home[t]
             q == Append(runnable[h], t)
  <1>1. /\ UNCHANGED <<waiting_on, sleep_until, sleeping, current, next, left, pc>>
        /\ UNCHANGED <<dead, freed, now, exiting, faults, cpu>>
    BY DEF Create, cpuVars
  <1>2. state[t] = "NONE" /\ h \in Cpus
    BY DEF Create
  <1>3. /\ runnable \in [Cpus -> Seq(Tasks)] /\ tasks \in Seq(Tasks)
        /\ state \in [AllTasks -> {"NONE", "READY", "RUNNING", "BLOCKED", "DEAD"}]
    BY DEF IInv, Types, TypeOK
  <1>4. QueueOK(h) /\ runnable[h] \in Seq(Tasks)
    BY <1>2, <1>3 DEF IInv
  <1>5. t \notin ToSet(runnable[h])
    BY <1>2, <1>4 DEF QueueOK
  <1>6. /\ q \in Seq(Tasks) /\ IsInjective(q)
        /\ \A x : x \in ToSet(q) <=> x \in ToSet(runnable[h]) \/ x = t
    BY <1>4, <1>5, AppendedQueue DEF QueueOK
  <1>7. runnable' = [runnable EXCEPT ![h] = q] /\ state' = [state EXCEPT ![t] = "READY"]
        /\ tasks' = Append(tasks, t)
    BY DEF Create, EnqueueNew, RunqueueEnqueue
  <1> HIDE DEF q
  <1>8. /\ runnable'[h] = q /\ \A d \in Cpus : d # h => runnable'[d] = runnable[d]
        /\ state'[t] = "READY" /\ \A u \in AllTasks : u # t => state'[u] = state[u]
    BY <1>2, <1>3, <1>7
  <1>9. Types'
    <2>1. /\ runnable' \in [Cpus -> Seq(Tasks)]
          /\ state' \in [AllTasks -> {"NONE", "READY", "RUNNING", "BLOCKED", "DEAD"}]
      BY <1>3, <1>6, <1>7
    <2>2. tasks' \in Seq(Tasks)
      BY <1>3, <1>7, AppendedQueue
    <2>3. QED
      BY <2>1, <2>2, <1>1 DEF IInv, Types, TypeOK
  <1>10. \A u \in Tasks : TaskOK(u)'
    <2> SUFFICES ASSUME NEW u \in Tasks PROVE TaskOK(u)'
      OBVIOUS
    <2>1. TaskOK(u) /\ Home[u] \in Cpus
      BY DEF IInv
    <2>2. CASE u = t
      BY <2>1, <2>2, <1>1, <1>2, <1>6, <1>8 DEF TaskOK, PointsOf, Alive
    <2>3. CASE u # t
      <3>1. u \in ToSet(runnable[Home[u]]) => u \in ToSet(runnable'[Home[u]])
        BY <2>1, <1>6, <1>8
      <3>2. QED
        BY <3>1, <2>1, <2>3, <1>1, <1>8 DEF TaskOK
    <2>4. QED
      BY <2>2, <2>3
  <1>11. \A u \in AllTasks \ Tasks : ServantOK(u)'
    BY <1>1, <1>8 DEF IInv, ServantOK
  <1>12. \A d \in Cpus : QueueOK(d)'
    <2> SUFFICES ASSUME NEW d \in Cpus PROVE QueueOK(d)'
      OBVIOUS
    <2>1. QueueOK(d) /\ ToSet(runnable[d]) \subseteq AllTasks /\ ToSet(sleeping[d]) \subseteq AllTasks
      BY SeqMembers DEF IInv, Types, TypeOK
    <2>2. t \notin ToSet(runnable[d]) /\ t \notin ToSet(sleeping[d])
      BY <2>1, <1>2 DEF QueueOK
    <2>3. CASE d = h
      BY <2>1, <2>2, <2>3, <1>1, <1>2, <1>6, <1>8 DEF QueueOK, IInv, CpuOK
    <2>4. CASE d # h
      BY <2>1, <2>2, <2>4, <1>1, <1>8 DEF QueueOK
    <2>5. QED
      BY <2>3, <2>4
  <1>13. \A d \in Cpus : CpuOK(d)'
    <2> SUFFICES ASSUME NEW d \in Cpus PROVE CpuOK(d)'
      OBVIOUS
    <2>1. CpuOK(d)
      BY DEF IInv
    <2>2. CASE current[d] = t /\ cpu[d] \in {"run", "ctx"}
      BY <2>1, <2>2, <1>2 DEF CpuOK
    <2>3. CASE current[d] # t \/ cpu[d] \notin {"run", "ctx"}
      BY <2>1, <2>3, <1>1, <1>8 DEF CpuOK
    <2>4. QED
      BY <2>2, <2>3
  <1>14. \A d \in Cpus : CleanupOK(d)'
    <2> SUFFICES ASSUME NEW d \in Cpus PROVE CleanupOK(d)'
      OBVIOUS
    <2>1. CleanupOK(d) /\ (dead[d] # Null => dead[d] \in AllTasks)
      BY DEF IInv, Types, TypeOK
    <2>2. QED
      BY <2>1, <1>1, <1>2, <1>8 DEF CleanupOK
  <1>15. SleepersSorted' /\ OnlyBootPanics'
    BY <1>1 DEF IInv, SleepersSorted, OnlyBootPanics
  <1>16. QED
    BY <1>9, <1>10, <1>11, <1>12, <1>13, <1>14, <1>15 DEF IInv

(* scheduler_switch leaves a task: no assertion on it fails, and it is     *)
(* queued again if it can still run.                                       *)
LEMMA SwitchEnterKeeps ==
    ASSUME IInv, NEW c \in Cpus, SwitchEnter(c), UNCHANGED lifeVars
    PROVE  IInv'
  <1> USE Constants
  <1> DEFINE p == current[c]
             q == Append(runnable[c], p)
  <1>1. /\ UNCHANGED <<waiting_on, sleep_until, sleeping, current, next, left, pc>>
        /\ UNCHANGED <<tasks, dead, freed, now, exiting>>
    BY DEF SwitchEnter, cpuVars, lifeVars
  <1>2. /\ runnable \in [Cpus -> Seq(Tasks)] /\ cpu \in [Cpus -> CpuPoints]
        /\ state \in [AllTasks -> {"NONE", "READY", "RUNNING", "BLOCKED", "DEAD"}]
        /\ p \in AllTasks \cup {Null}
    BY DEF IInv, Types, TypeOK
  <1>3. LeaveFault(p) = "none"
    <2>1. CASE p = Null
      BY <2>1 DEF LeaveFault
    <2>2. CASE p \in Tasks
      <3>1. waiting_on[p] = IF state[p] = "BLOCKED" THEN SleepQueue ELSE Null
        BY <2>2 DEF IInv, TaskOK
      <3>2. QED
        BY <2>2, <3>1 DEF LeaveFault
    <2>3. CASE p \in AllTasks \ Tasks
      <3>1. waiting_on[p] = Null /\ state[p] \in {"READY", "RUNNING"}
        BY <2>3 DEF IInv, ServantOK
      <3>2. QED
        BY <2>3, <3>1 DEF LeaveFault
    <2>4. QED
      BY <2>1, <2>2, <2>3, <1>2
  <1>4. /\ cpu[c] = "enter" /\ cpu' = [cpu EXCEPT ![c] = "pick"] /\ UNCHANGED faults
        /\ p \in Tasks /\ state[p] = "RUNNING" =>
             state' = [state EXCEPT ![p] = "READY"] /\ runnable' = [runnable EXCEPT ![c] = q]
        /\ ~(p \in Tasks /\ state[p] = "RUNNING") => UNCHANGED <<state, runnable>>
    BY <1>3 DEF SwitchEnter
  <1>5. cpu'[c] = "pick" /\ \A d \in Cpus : d # c => cpu'[d] = cpu[d]
    BY <1>2, <1>4
  <1>6. CpuOK(c) /\ cpu' \in [Cpus -> CpuPoints]
    BY <1>2, <1>4 DEF IInv, CpuPoints
  <1>7. OnlyBootPanics'
    BY <1>4 DEF IInv, OnlyBootPanics
  <1>8. CASE ~(p \in Tasks /\ state[p] = "RUNNING")
    <2>1. UNCHANGED <<state, runnable>>
      BY <1>4, <1>8
    <2>2. Types'
      BY <2>1, <1>1, <1>6 DEF IInv, Types, TypeOK
    <2>3. ASSUME NEW u \in Tasks, state[u] = "RUNNING"
          PROVE  cpu'[Home[u]] \notin {"pick", "loop", "check", "commit"}
      <3>1. Home[u] # c /\ Home[u] \in Cpus /\ cpu[Home[u]] \notin {"pick", "loop", "check", "commit"}
        BY <2>3, <1>8 DEF IInv, TaskOK
      <3>2. QED
        BY <3>1, <1>5
    <2>4. \A u \in Tasks : pc'[u] \in PointsOf(state[u])
      BY <1>1 DEF IInv, TaskOK
    <2>5. ASSUME NEW d \in Cpus PROVE CpuOK(d)' /\ CleanupOK(d)'
      <3>1. CpuOK(d) /\ CleanupOK(d)
        BY DEF IInv
      <3>2. CASE d = c
        BY <3>1, <3>2, <2>1, <1>1, <1>4, <1>5 DEF CpuOK, CleanupOK
      <3>3. CASE d # c
        BY <3>1, <3>3, <2>1, <1>1, <1>5 DEF CpuOK, CleanupOK
      <3>4. QED
        BY <3>2, <3>3
    <2>6. QED
      BY <2>1, <2>2, <2>3, <2>4, <2>5, <1>1, <1>7, Moves DEF taskVars, queueVars
  <1>9. CASE p \in Tasks /\ state[p] = "RUNNING"
    <2>1. Home[p] = c /\ QueueOK(c) /\ runnable[c] \in Seq(Tasks) /\ p \in Tasks
      BY <1>2, <1>6, <1>9 DEF IInv, CpuOK
    <2>2. p \notin ToSet(runnable[c])
      BY <2>1, <1>9 DEF QueueOK
    <2>3. /\ q \in Seq(Tasks) /\ IsInjective(q)
          /\ \A x : x \in ToSet(q) <=> x \in ToSet(runnable[c]) \/ x = p
      BY <2>1, <2>2, AppendedQueue DEF QueueOK
    <2>4. state' = [state EXCEPT ![p] = "READY"] /\ runnable' = [runnable EXCEPT ![c] = q]
      BY <1>4, <1>9
    <2> HIDE DEF p, q
    <2>5. /\ runnable'[c] = q /\ \A d \in Cpus : d # c => runnable'[d] = runnable[d]
          /\ state'[p] = "READY" /\ \A u \in AllTasks : u # p => state'[u] = state[u]
      BY <1>2, <2>1, <2>4
    <2>6. Types'
      <3>1. /\ runnable' \in [Cpus -> Seq(Tasks)]
            /\ state' \in [AllTasks -> {"NONE", "READY", "RUNNING", "BLOCKED", "DEAD"}]
        BY <1>2, <2>3, <2>4
      <3>2. QED
        BY <3>1, <1>1, <1>6 DEF IInv, Types, TypeOK
    <2>7. ASSUME NEW u \in Tasks PROVE TaskOK(u)'
      <3>1. TaskOK(u) /\ Home[u] \in Cpus
        BY DEF IInv
      <3>2. CASE u = p
        BY <3>1, <3>2, <1>1, <1>9, <2>1, <2>3, <2>5 DEF TaskOK, PointsOf
      <3>3. CASE u # p
        <4>1. u \in ToSet(runnable[Home[u]]) => u \in ToSet(runnable'[Home[u]])
          BY <3>1, <2>3, <2>5
        <4>2. state[u] = "RUNNING" => Home[u] # c
          BY <3>1, <3>3 DEF TaskOK, p
        <4>3. state[u] = "RUNNING" => current'[Home[u]] = u /\ cpu'[Home[u]] \notin {"pick", "loop", "check", "commit"}
          BY <4>2, <3>1, <1>1, <1>5 DEF TaskOK
        <4>4. QED
          BY <4>1, <4>3, <3>1, <3>3, <1>1, <2>5 DEF TaskOK
      <3>4. QED
        BY <3>2, <3>3
    <2>8. \A u \in AllTasks \ Tasks : ServantOK(u)'
      BY <1>1, <2>1, <2>5 DEF IInv, ServantOK
    <2>9. ASSUME NEW d \in Cpus PROVE QueueOK(d)'
      <3>1. QueueOK(d) /\ ToSet(runnable[d]) \subseteq AllTasks /\ ToSet(sleeping[d]) \subseteq AllTasks
        BY SeqMembers DEF IInv, Types, TypeOK
      <3>2. p \notin ToSet(runnable[d]) /\ p \notin ToSet(sleeping[d])
        BY <3>1, <1>9 DEF QueueOK
      <3>3. CASE d = c
        BY <3>1, <3>2, <3>3, <1>1, <1>6, <1>9, <2>1, <2>3, <2>5 DEF QueueOK, CpuOK
      <3>4. CASE d # c
        BY <3>1, <3>2, <3>4, <1>1, <2>5 DEF QueueOK
      <3>5. QED
        BY <3>3, <3>4
    <2>10. ASSUME NEW d \in Cpus PROVE CpuOK(d)'
      <3>1. CpuOK(d)
        BY DEF IInv
      <3>2. CASE d = c
        BY <3>1, <3>2, <1>1, <1>4, <1>5, <1>9 DEF CpuOK
      <3>3. CASE d # c
        <4>1. current[d] # p
          BY <3>1, <3>3, <2>1 DEF CpuOK
        <4>2. QED
          BY <4>1, <3>1, <3>3, <1>1, <1>5, <2>5 DEF CpuOK
      <3>4. QED
        BY <3>2, <3>3
    <2>11. ASSUME NEW d \in Cpus PROVE CleanupOK(d)'
      <3>1. CleanupOK(d) /\ (dead[d] # Null => dead[d] \in AllTasks)
        BY DEF IInv, Types, TypeOK
      <3>2. QED
        BY <3>1, <1>1, <1>9, <2>5 DEF CleanupOK
    <2>12. SleepersSorted'
      BY <1>1 DEF IInv, SleepersSorted
    <2>13. QED
      BY <2>6, <2>7, <2>8, <2>9, <2>10, <2>11, <2>12, <1>7 DEF IInv
  <1>10. QED
    BY <1>8, <1>9

(* The task the policy has chosen is taken from the run queue, if it was   *)
(* there, and kept until the CPU switches to it.                           *)
LEMMA TakenKeeps ==
    ASSUME IInv, NEW c \in Cpus, NEW n \in AllTasks, NEW queue \in Seq(Tasks),
           NEW to \in {"check", "commit"},
           cpu[c] \in {"pick", "loop"}, Home[n] = c,
           IsInjective(queue),
           \A x : x \in ToSet(queue) <=> x \in ToSet(runnable[c]) /\ x # n,
           n \in Tasks => n \in ToSet(runnable[c]),
           Pick(c, n, queue, to), UNCHANGED lifeVars
    PROVE  IInv'
  <1> USE Constants
  <1>1. /\ UNCHANGED <<state, waiting_on, sleep_until, sleeping, current, left, pc>>
        /\ UNCHANGED <<tasks, dead, freed, now, exiting, faults>>
    BY DEF Pick, taskVars, lifeVars
  <1>2. /\ runnable \in [Cpus -> Seq(Tasks)] /\ cpu \in [Cpus -> CpuPoints]
        /\ next \in [Cpus -> AllTasks \cup {Null}]
    BY DEF IInv, Types, TypeOK
  <1>3. /\ runnable' = [runnable EXCEPT ![c] = queue]
        /\ next' = [next EXCEPT ![c] = n]
        /\ cpu' = [cpu EXCEPT ![c] = to]
    BY DEF Pick
  <1>4. Types'
    <2>1. /\ runnable' \in [Cpus -> Seq(Tasks)] /\ cpu' \in [Cpus -> CpuPoints]
          /\ next' \in [Cpus -> AllTasks \cup {Null}]
      BY <1>2, <1>3 DEF CpuPoints
    <2>2. QED
      BY <2>1, <1>1 DEF IInv, Types, TypeOK
  <1>5. /\ runnable'[c] = queue /\ next'[c] = n /\ cpu'[c] = to
        /\ \A d \in Cpus : d # c =>
             runnable'[d] = runnable[d] /\ next'[d] = next[d] /\ cpu'[d] = cpu[d]
    BY <1>2, <1>3
  <1>6. QueueOK(c) /\ CpuOK(c) /\ next[c] = Null
    BY DEF IInv, CpuOK
  <1>7. n \in Tasks => state[n] = "READY"
    BY <1>6 DEF QueueOK
  <1>8. ASSUME NEW u \in Tasks PROVE TaskOK(u)'
    <2>1. TaskOK(u) /\ Home[u] \in Cpus
      BY DEF IInv
    <2>2. state[u] = "READY" => u \in ToSet(runnable'[Home[u]]) \/ next'[Home[u]] = u
      BY <2>1, <1>5, <1>6 DEF TaskOK
    <2>3. state[u] = "RUNNING" => Home[u] # c
      BY <2>1 DEF TaskOK
    <2>4. QED
      BY <2>1, <2>2, <2>3, <1>1, <1>5 DEF TaskOK
  <1>9. \A u \in AllTasks \ Tasks : ServantOK(u)'
    BY <1>1 DEF IInv, ServantOK
  <1>10. ASSUME NEW d \in Cpus PROVE QueueOK(d)'
    <2>1. QueueOK(d)
      BY DEF IInv
    <2>2. CASE d = c
      BY <2>1, <2>2, <1>1, <1>5 DEF QueueOK
    <2>3. CASE d # c
      BY <2>1, <2>3, <1>1, <1>5 DEF QueueOK
    <2>4. QED
      BY <2>2, <2>3
  <1>11. ASSUME NEW d \in Cpus PROVE CpuOK(d)'
    <2>1. CpuOK(d)
      BY DEF IInv
    <2>2. CASE d = c
      BY <2>1, <2>2, <1>1, <1>5, <1>7 DEF CpuOK
    <2>3. CASE d # c
      BY <2>1, <2>3, <1>1, <1>5 DEF CpuOK
    <2>4. QED
      BY <2>2, <2>3
  <1>12. \A d \in Cpus : CleanupOK(d)'
    BY <1>1 DEF IInv, CleanupOK
  <1>13. SleepersSorted' /\ OnlyBootPanics'
    BY <1>1 DEF IInv, SleepersSorted, OnlyBootPanics
  <1>14. QED
    BY <1>4, <1>8, <1>9, <1>10, <1>11, <1>12, <1>13 DEF IInv

(* scheduler_switch goes to the task that was picked, and finds it ready:  *)
(* nothing another CPU does in between changes that.                       *)
LEMMA SwitchToKeeps ==
    ASSUME IInv, NEW c \in Cpus, SwitchTo(c), UNCHANGED lifeVars
    PROVE  IInv'
  <1> USE Constants
  <1>1. /\ UNCHANGED <<waiting_on, sleep_until, runnable, sleeping, pc>>
        /\ UNCHANGED <<tasks, dead, freed, now, exiting>>
        /\ cpu[c] = "commit"
    BY DEF SwitchTo, queueVars, lifeVars
  <1>2. /\ cpu \in [Cpus -> CpuPoints] /\ next \in [Cpus -> AllTasks \cup {Null}]
        /\ state \in [AllTasks -> {"NONE", "READY", "RUNNING", "BLOCKED", "DEAD"}]
        /\ current \in [Cpus -> AllTasks \cup {Null}] /\ left \in [Cpus -> AllTasks \cup {Null}]
    BY DEF IInv, Types, TypeOK
  <1>3. PICK n \in AllTasks : n = next[c] /\ Home[n] = c /\ (n \in Tasks => state[n] = "READY")
    BY <1>1, <1>2 DEF IInv, CpuOK
  <1>4. waiting_on[n] = Null
    <2>1. CASE n \in Tasks
      BY <2>1, <1>3 DEF IInv, TaskOK
    <2>2. CASE n \notin Tasks
      BY <2>2 DEF IInv, ServantOK
    <2>3. QED
      BY <2>1, <2>2
  <1>5. /\ state' = [state EXCEPT ![n] = "RUNNING"]
        /\ next' = [next EXCEPT ![c] = Null]
        /\ current' = [current EXCEPT ![c] = n]
        /\ left' = [left EXCEPT ![c] = IF current[c] = n THEN Null ELSE current[c]]
        /\ cpu' = [cpu EXCEPT ![c] = IF current[c] = n THEN "run" ELSE "ctx"]
        /\ UNCHANGED faults
    BY <1>3, <1>4 DEF SwitchTo
  <1>6. Types'
    <2>1. /\ cpu' \in [Cpus -> CpuPoints] /\ next' \in [Cpus -> AllTasks \cup {Null}]
          /\ state' \in [AllTasks -> {"NONE", "READY", "RUNNING", "BLOCKED", "DEAD"}]
          /\ current' \in [Cpus -> AllTasks \cup {Null}] /\ left' \in [Cpus -> AllTasks \cup {Null}]
      BY <1>2, <1>5 DEF CpuPoints
    <2>2. QED
      BY <2>1, <1>1 DEF IInv, Types, TypeOK
  <1>7. /\ next'[c] = Null /\ current'[c] = n /\ cpu'[c] \in {"run", "ctx"}
        /\ \A d \in Cpus : d # c =>
             next'[d] = next[d] /\ current'[d] = current[d] /\ cpu'[d] = cpu[d]
        /\ state'[n] = "RUNNING" /\ \A u \in AllTasks : u # n => state'[u] = state[u]
    BY <1>2, <1>5
  <1>8. ASSUME NEW u \in Tasks PROVE TaskOK(u)'
    <2>1. TaskOK(u) /\ Home[u] \in Cpus
      BY DEF IInv
    <2>2. CASE u = n
      BY <2>1, <2>2, <1>1, <1>3, <1>4, <1>7 DEF TaskOK, PointsOf
    <2>3. CASE u # n
      <3>1. state[u] = "READY" => u \in ToSet(runnable'[Home[u]]) \/ next'[Home[u]] = u
        BY <2>1, <2>3, <1>1, <1>3, <1>7 DEF TaskOK
      <3>2. state[u] = "RUNNING" =>
              current'[Home[u]] = u /\ cpu'[Home[u]] \notin {"pick", "loop", "check", "commit"}
        BY <2>1, <1>1, <1>7 DEF TaskOK
      <3>3. QED
        BY <3>1, <3>2, <2>1, <2>3, <1>1, <1>7 DEF TaskOK
    <2>4. QED
      BY <2>2, <2>3
  <1>9. \A u \in AllTasks \ Tasks : ServantOK(u)'
    BY <1>1, <1>7 DEF IInv, ServantOK
  <1>10. ASSUME NEW d \in Cpus PROVE QueueOK(d)'
    <2>1. QueueOK(d) /\ ToSet(runnable[d]) \subseteq Tasks /\ ToSet(sleeping[d]) \subseteq Tasks
      BY SeqMembers DEF IInv, Types, TypeOK
    <2>2. n \notin ToSet(sleeping[d]) /\ n \notin ToSet(runnable[d])
      BY <2>1, <1>3 DEF QueueOK
    <2>3. \A u \in ToSet(runnable[d]) \cup ToSet(sleeping[d]) : state'[u] = state[u] /\ u # Null
      BY <2>1, <2>2, <1>7
    <2>4. CASE d = c
      BY <2>1, <2>3, <2>4, <1>1, <1>7 DEF QueueOK
    <2>5. CASE d # c
      BY <2>1, <2>3, <2>5, <1>1, <1>7 DEF QueueOK
    <2>6. QED
      BY <2>4, <2>5
  <1>11. ASSUME NEW d \in Cpus PROVE CpuOK(d)'
    <2>1. CpuOK(d)
      BY DEF IInv
    <2>2. CASE d = c
      BY <2>2, <1>1, <1>3, <1>7 DEF CpuOK
    <2>3. CASE d # c
      <3>1. current[d] # n /\ next[d] # n
        BY <2>1, <2>3, <1>3 DEF CpuOK
      <3>2. next[d] \in Tasks => state'[next[d]] = state[next[d]]
        BY <3>1, <1>7
      <3>3. QED
        BY <3>1, <3>2, <2>1, <2>3, <1>1, <1>7 DEF CpuOK
    <2>4. QED
      BY <2>2, <2>3
  <1>12. ASSUME NEW d \in Cpus PROVE CleanupOK(d)'
    <2>1. CleanupOK(d) /\ (dead[d] # Null => dead[d] \in Tasks)
      BY DEF IInv, Types, TypeOK
    <2>2. dead[d] # Null => dead[d] # n
      BY <2>1, <1>3 DEF CleanupOK
    <2>3. QED
      BY <2>1, <2>2, <1>1, <1>7 DEF CleanupOK
  <1>13. SleepersSorted' /\ OnlyBootPanics'
    BY <1>1, <1>5 DEF IInv, SleepersSorted, OnlyBootPanics
  <1>14. QED
    BY <1>6, <1>8, <1>9, <1>10, <1>11, <1>12, <1>13 DEF IInv

(* Sorted insertion puts a sleeper between those that are due before and   *)
(* those that are due after it.                                            *)
LEMMA SortedInsertion ==
    ASSUME IInv, NEW c \in Cpus, NEW t \in Tasks, NEW d \in Nat, t \notin ToSet(sleeping[c])
    PROVE  /\ InsertSorted(sleeping[c], t, d) \in Seq(Tasks)
           /\ IsInjective(InsertSorted(sleeping[c], t, d))
           /\ \A x : x \in ToSet(InsertSorted(sleeping[c], t, d)) <=> x \in ToSet(sleeping[c]) \/ x = t
           /\ \A until \in [AllTasks -> Nat] :
                until[t] = d /\ (\A u \in AllTasks : u # t => until[u] = sleep_until[u]) =>
                \A i, j \in DOMAIN InsertSorted(sleeping[c], t, d) : i < j =>
                    until[InsertSorted(sleeping[c], t, d)[i]] <= until[InsertSorted(sleeping[c], t, d)[j]]
  <1> USE Constants
  <1>1. PICK s \in Seq(Tasks) : s = sleeping[c]
    BY DEF IInv, Types, TypeOK
  <1>2. PICK key \in [AllTasks -> Nat] : key = sleep_until
    BY DEF IInv, Types, TypeOK
  <1> DEFINE n == Len(s)
             later == {i \in DOMAIN s : key[s[i]] > d}
             k == IF later = {} THEN n + 1 ELSE Min(later)
             q == InsertAt(s, k, t)
  <1>3. n \in Nat /\ DOMAIN s = 1..n /\ \A i \in 1..n : s[i] \in Tasks
    BY LenProperties, ElementOfSeq
  <1>4. InsertSorted(sleeping[c], t, d) = q
    BY <1>1, <1>2 DEF InsertSorted
  <1>5. IsInjective(s) /\ t \notin ToSet(s)
    BY <1>1 DEF IInv, QueueOK
  <1>6. \A i, j \in 1..n : i < j => key[s[i]] <= key[s[j]]
    <2>1. \A i, j \in DOMAIN sleeping[c] : i < j => sleep_until[sleeping[c][i]] <= sleep_until[sleeping[c][j]]
      BY DEF IInv, SleepersSorted
    <2>2. QED
      BY <2>1, <1>1, <1>2, <1>3
  <1>7. /\ k \in 1..(n + 1)
        /\ \A i \in 1..(k - 1) : key[s[i]] <= d
        /\ \A i \in k..n : d <= key[s[i]]
    <2>1. \A i \in 1..n : key[s[i]] \in Nat
      BY <1>3
    <2>2. CASE later = {}
      <3>1. PICK m \in Nat : m = k /\ m = n + 1
        BY <2>2, <1>3
      <3>2. \A i \in 1..n : key[s[i]] <= d
        BY <2>1, <2>2, <1>3
      <3>3. /\ m \in 1..(n + 1)
            /\ \A i \in 1..(m - 1) : key[s[i]] <= d
            /\ \A i \in m..n : d <= key[s[i]]
        BY <3>1, <3>2, <1>3
      <3> HIDE DEF k, later
      <3>4. QED
        BY <3>1, <3>3
    <2>3. CASE later # {}
      <3>1. later \subseteq Nat
        BY <1>3
      <3>2. Min(later) \in later /\ \A j \in later : Min(later) <= j
        BY <2>3, <3>1, FirstPlace
      <3>3. PICK m \in Nat : m = k
        BY <2>3, <3>1, <3>2
      <3>4. m \in 1..n /\ key[s[m]] > d /\ \A j \in 1..n : key[s[j]] > d => m <= j
        BY <2>3, <3>2, <3>3, <1>3
      <3>5. \A i \in 1..(m - 1) : key[s[i]] <= d
        BY <3>4, <2>1, <1>3
      <3>6. ASSUME NEW i \in m..n PROVE d <= key[s[i]]
        <4>1. i \in 1..n /\ (i = m \/ m < i)
          BY <3>4, <1>3
        <4>2. key[s[m]] <= key[s[i]]
          BY <4>1, <3>4, <2>1, <1>6
        <4>3. QED
          BY <4>1, <4>2, <3>4, <2>1
      <3>7. m \in 1..(n + 1)
        BY <3>4, <1>3
      <3> HIDE DEF k, later
      <3>8. QED
        BY <3>3, <3>5, <3>6, <3>7
    <2>4. QED
      BY <2>2, <2>3
  <1> HIDE DEF k, later
  <1>8. /\ q \in Seq(Tasks) /\ Len(q) = n + 1
        /\ \A i \in 1..(k - 1) : q[i] = s[i]
        /\ q[k] = t
        /\ \A i \in k..n : q[i + 1] = s[i]
        /\ \A x : x \in ToSet(q) <=> x \in ToSet(s) \/ x = t
        /\ IsInjective(s) /\ t \notin ToSet(s) => IsInjective(q)
    BY <1>7, InsertedQueue
  <1> HIDE DEF q, n
  <1>9. DOMAIN q = 1..(n + 1)
    BY <1>8, LenProperties
  <1>10. \A i \in 1..n : s[i] # t
    BY <1>3, <1>5 DEF ToSet
  <1>11. ASSUME NEW until \in [AllTasks -> Nat],
                until[t] = d, \A u \in AllTasks : u # t => until[u] = key[u],
                NEW i \in 1..(n + 1), NEW j \in 1..(n + 1), i < j
         PROVE  until[q[i]] <= until[q[j]]
    <2>1. \A l \in 1..n : until[s[l]] = key[s[l]] /\ key[s[l]] \in Nat
      BY <1>3, <1>10, <1>11
    <2>2. k \in Nat /\ n \in Nat
      BY <1>3, <1>7
    <2>3. CASE j \in 1..(k - 1)
      <3>1. i \in 1..(k - 1) /\ i \in 1..n /\ j \in 1..n
        BY <2>2, <2>3, <1>7, <1>11
      <3>2. q[i] = s[i] /\ q[j] = s[j] /\ key[s[i]] <= key[s[j]]
        BY <3>1, <2>3, <1>6, <1>8, <1>11
      <3>3. QED
        BY <3>1, <3>2, <2>1
    <2>4. CASE j = k
      <3>1. i \in 1..(k - 1) /\ i \in 1..n
        BY <2>2, <2>4, <1>7, <1>11
      <3>2. q[i] = s[i] /\ q[j] = t /\ key[s[i]] <= d
        BY <3>1, <2>4, <1>7, <1>8
      <3>3. QED
        BY <3>1, <3>2, <2>1, <1>11
    <2>5. CASE j \in (k + 1)..(n + 1)
      <3>1. j - 1 \in k..n /\ j - 1 \in 1..n /\ (j - 1) + 1 = j
        BY <2>2, <2>5, <1>7
      <3>2. q[j] = s[j - 1] /\ d <= key[s[j - 1]]
        <4>1. q[(j - 1) + 1] = s[j - 1]
          BY <3>1, <1>8
        <4>2. QED
          BY <4>1, <3>1, <1>7
      <3>3. CASE i \in 1..(k - 1)
        <4>1. i \in 1..n /\ q[i] = s[i] /\ key[s[i]] <= d
          BY <3>3, <2>2, <1>7, <1>8
        <4>2. key[s[i]] \in Nat /\ key[s[j - 1]] \in Nat /\ until[q[i]] = key[s[i]] /\ until[q[j]] = key[s[j - 1]]
          BY <4>1, <3>1, <3>2, <2>1
        <4>3. QED
          BY <4>1, <4>2, <3>2
      <3>4. CASE i = k
        BY <3>4, <3>1, <3>2, <2>1, <1>8, <1>11
      <3>5. CASE i \in (k + 1)..(n + 1)
        <4>1. i - 1 \in k..n /\ i - 1 \in 1..n /\ (i - 1) + 1 = i /\ i - 1 < j - 1
          BY <3>5, <2>2, <1>7, <1>11
        <4>2. q[(i - 1) + 1] = s[i - 1]
          BY <4>1, <1>8
        <4>3. key[s[i - 1]] <= key[s[j - 1]]
          BY <4>1, <3>1, <1>6
        <4>4. q[i] = s[i - 1]
          BY <4>1, <4>2
        <4>5. until[q[i]] = key[s[i - 1]] /\ until[q[j]] = key[s[j - 1]]
          BY <4>1, <4>4, <3>1, <3>2, <2>1
        <4>6. QED
          BY <4>3, <4>5
      <3>6. QED
        BY <3>3, <3>4, <3>5, <2>2
    <2>6. QED
      BY <2>2, <2>3, <2>4, <2>5
  <1>12. QED
    BY <1>1, <1>2, <1>4, <1>5, <1>8, <1>9, <1>11

(* scheduler_sleep_current.                                                *)
LEMMA SleepKeeps ==
    ASSUME IInv, NEW c \in Cpus, NEW t \in Tasks, Sleep(c, t)
    PROVE  IInv'
  <1> USE Constants
  <1>1. PICK ticks \in SleepTimes : SleepCurrent(c, t, ticks, "sleep_switch")
    BY DEF Sleep
  <1>2. PICK d \in Nat : d = now + ticks
    BY BootAssumption DEF IInv, Types
  <1>3. d <= MaxTime
    BY <1>1, <1>2 DEF SleepCurrent
  <1>5. Runs(c, t) /\ pc[t] = "body" /\ state[t] = "RUNNING" /\ Home[t] = c
    BY <1>1, StateAt DEF Sleep, SleepCurrent
  <1>4. /\ UNCHANGED <<runnable, current, next, left, cpu>>
        /\ UNCHANGED <<tasks, dead, freed, now, exiting, faults>>
    BY <1>1, <1>5 DEF Sleep, SleepCurrent, cpuVars, lifeVars
  <1>6. t \notin ToSet(sleeping[c])
    BY <1>5 DEF IInv, QueueOK
  <1>7. PICK q : q = InsertSorted(sleeping[c], t, d)
    OBVIOUS
  <1>8. /\ q \in Seq(Tasks)
        /\ IsInjective(q)
        /\ \A x : x \in ToSet(q) <=> x \in ToSet(sleeping[c]) \/ x = t
        /\ \A until \in [AllTasks -> Nat] :
             until[t] = d /\ (\A u \in AllTasks : u # t => until[u] = sleep_until[u]) =>
             \A i, j \in DOMAIN q : i < j => until[q[i]] <= until[q[j]]
    <2>1. /\ InsertSorted(sleeping[c], t, d) \in Seq(Tasks)
          /\ IsInjective(InsertSorted(sleeping[c], t, d))
          /\ \A x : x \in ToSet(InsertSorted(sleeping[c], t, d)) <=> x \in ToSet(sleeping[c]) \/ x = t
          /\ \A until \in [AllTasks -> Nat] :
               until[t] = d /\ (\A u \in AllTasks : u # t => until[u] = sleep_until[u]) =>
               \A i, j \in DOMAIN InsertSorted(sleeping[c], t, d) : i < j =>
                 until[InsertSorted(sleeping[c], t, d)[i]] <= until[InsertSorted(sleeping[c], t, d)[j]]
      BY <1>6, SortedInsertion
    <2>2. QED
      BY <2>1, <1>7
  <1>9. /\ sleep_until' = [sleep_until EXCEPT ![t] = d]
        /\ sleeping' = [sleeping EXCEPT ![c] = q]
        /\ waiting_on' = [waiting_on EXCEPT ![t] = SleepQueue]
        /\ state' = [state EXCEPT ![t] = "BLOCKED"]
        /\ pc' = [pc EXCEPT ![t] = "sleep_switch"]
    BY <1>1, <1>2, <1>5, <1>7 DEF SleepCurrent
  <1>10. /\ sleeping \in [Cpus -> Seq(Tasks)] /\ waiting_on \in [AllTasks -> {Null, SleepQueue}]
         /\ state \in [AllTasks -> {"NONE", "READY", "RUNNING", "BLOCKED", "DEAD"}]
         /\ sleep_until \in [AllTasks -> 0..MaxTime]
         /\ pc \in [AllTasks -> Alive \cup Ended \cup CleanupPoints \cup {"idle"}]
    BY DEF IInv, Types, TypeOK
  <1>11. /\ sleep_until'[t] = d /\ \A u \in AllTasks : u # t => sleep_until'[u] = sleep_until[u]
         /\ sleeping'[c] = q /\ \A e \in Cpus : e # c => sleeping'[e] = sleeping[e]
         /\ waiting_on'[t] = SleepQueue /\ \A u \in AllTasks : u # t => waiting_on'[u] = waiting_on[u]
         /\ state'[t] = "BLOCKED" /\ \A u \in AllTasks : u # t => state'[u] = state[u]
         /\ pc'[t] = "sleep_switch" /\ \A u \in AllTasks : u # t => pc'[u] = pc[u]
    BY <1>9, <1>10
  <1>12. Types' /\ sleep_until' \in [AllTasks -> 0..MaxTime]
    <2>1. /\ sleeping' \in [Cpus -> Seq(Tasks)] /\ waiting_on' \in [AllTasks -> {Null, SleepQueue}]
          /\ state' \in [AllTasks -> {"NONE", "READY", "RUNNING", "BLOCKED", "DEAD"}]
          /\ pc' \in [AllTasks -> Alive \cup Ended \cup CleanupPoints \cup {"idle"}]
      BY <1>8, <1>9, <1>10 DEF Alive
    <2>2. sleep_until' \in [AllTasks -> 0..MaxTime]
      <3>1. d \in 0..MaxTime
        BY <1>3
      <3>2. QED
        BY <3>1, <1>9, <1>10
    <2>3. QED
      BY <2>1, <2>2, <1>4 DEF IInv, Types, TypeOK
  <1>13. ASSUME NEW u \in Tasks PROVE TaskOK(u)'
    <2>1. TaskOK(u) /\ Home[u] \in Cpus
      BY DEF IInv
    <2>2. CASE u = t
      BY <2>1, <2>2, <1>4, <1>5, <1>8, <1>11 DEF TaskOK, PointsOf
    <2>3. CASE u # t
      <3>1. u \in ToSet(sleeping[Home[u]]) => u \in ToSet(sleeping'[Home[u]])
        BY <2>1, <1>8, <1>11
      <3>2. QED
        BY <3>1, <2>1, <2>3, <1>4, <1>11 DEF TaskOK
    <2>4. QED
      BY <2>2, <2>3
  <1>14. \A u \in AllTasks \ Tasks : ServantOK(u)'
    BY <1>11 DEF IInv, ServantOK
  <1>15. ASSUME NEW e \in Cpus PROVE QueueOK(e)'
    <2>1. QueueOK(e) /\ ToSet(runnable[e]) \subseteq AllTasks /\ ToSet(sleeping[e]) \subseteq AllTasks
      BY SeqMembers DEF IInv, Types, TypeOK
    <2>2. t \notin ToSet(runnable[e]) /\ t \notin ToSet(sleeping[e])
      BY <2>1, <1>5 DEF QueueOK
    <2>3. CASE e = c
      BY <2>1, <2>2, <2>3, <1>4, <1>5, <1>8, <1>11 DEF QueueOK
    <2>4. CASE e # c
      BY <2>1, <2>2, <2>4, <1>4, <1>11 DEF QueueOK
    <2>5. QED
      BY <2>3, <2>4
  <1>16. ASSUME NEW e \in Cpus PROVE CpuOK(e)'
    <2>1. CpuOK(e)
      BY DEF IInv
    <2>2. CASE e = c
      BY <2>1, <2>2, <1>4, <1>5, <1>11 DEF CpuOK, Runs
    <2>3. CASE e # c
      <3>1. current[e] # t
        BY <2>1, <2>3, <1>5 DEF CpuOK
      <3>2. QED
        BY <3>1, <2>1, <1>4, <1>5, <1>11 DEF CpuOK
    <2>4. QED
      BY <2>2, <2>3
  <1>17. ASSUME NEW e \in Cpus PROVE CleanupOK(e)'
    <2>1. CleanupOK(e) /\ (dead[e] # Null => dead[e] \in AllTasks)
      BY DEF IInv, Types, TypeOK
    <2>2. dead[e] # Null => dead[e] # t
      BY <2>1, <1>5 DEF CleanupOK
    <2>3. QED
      BY <2>1, <2>2, <1>4, <1>11 DEF CleanupOK
  <1>18. SleepersSorted'
    <2> SUFFICES ASSUME NEW e \in Cpus, NEW i \in DOMAIN sleeping'[e], NEW j \in DOMAIN sleeping'[e], i < j
                 PROVE  sleep_until'[sleeping'[e][i]] <= sleep_until'[sleeping'[e][j]]
      BY DEF SleepersSorted
    <2>1. CASE e = c
      <3>1. sleep_until' \in [AllTasks -> Nat]
        BY <1>12
      <3>2. \A k, l \in DOMAIN q : k < l => sleep_until'[q[k]] <= sleep_until'[q[l]]
        BY <3>1, <1>8, <1>11
      <3>3. QED
        BY <3>2, <2>1, <1>11
    <2>2. CASE e # c
      <3>1. sleeping'[e] = sleeping[e] /\ sleeping[e] \in Seq(Tasks)
        BY <2>2, <1>10, <1>11
      <3>2. t \notin ToSet(sleeping[e]) /\ ToSet(sleeping[e]) \subseteq AllTasks
        BY <3>1, <1>5, SeqMembers DEF IInv, QueueOK
      <3>3. \A k \in DOMAIN sleeping[e] : sleeping[e][k] \in AllTasks /\ sleeping[e][k] # t
        BY <3>2 DEF ToSet
      <3>4. \A k \in DOMAIN sleeping[e] : sleep_until'[sleeping[e][k]] = sleep_until[sleeping[e][k]]
        BY <3>3, <1>11
      <3>5. QED
        BY <3>1, <3>4 DEF IInv, SleepersSorted
    <2>3. QED
      BY <2>1, <2>2
  <1>19. OnlyBootPanics'
    BY <1>4 DEF IInv, OnlyBootPanics
  <1>20. QED
    BY <1>12, <1>13, <1>14, <1>15, <1>16, <1>17, <1>18, <1>19 DEF IInv

(* scheduler_wake_sleepers takes some sleepers from the front of the queue *)
(* and leaves the others.                                                  *)
LEMMA DueIsPrefix ==
    ASSUME NEW c \in Cpus, sleeping[c] \in Seq(Tasks), IsInjective(sleeping[c])
    PROVE  \E due, rest \in Seq(Tasks), m \in Nat :
             /\ due = Due(c) /\ rest = SubSeq(sleeping[c], Len(due) + 1, Len(sleeping[c]))
             /\ IsInjective(due) /\ IsInjective(rest)
             /\ \A x : x \in ToSet(sleeping[c]) <=> x \in ToSet(due) \/ x \in ToSet(rest)
             /\ \A x : ~(x \in ToSet(due) /\ x \in ToSet(rest))
             /\ \A i \in DOMAIN rest : m + i \in DOMAIN sleeping[c] /\ rest[i] = sleeping[c][m + i]
  <1>1. PICK s \in Seq(Tasks) : s = sleeping[c]
    OBVIOUS
  <1> DEFINE n == Len(s)
             late == {i \in DOMAIN s : now < sleep_until[s[i]]}
  <1>2. n \in Nat /\ DOMAIN s = 1..n /\ IsInjective(s)
    BY <1>1, LenProperties
  <1>3. \E k \in 0..n : Due(c) = SubSeq(s, 1, k)
    <2>1. CASE late = {}
      <3>1. Due(c) = s
        BY <2>1, <1>1 DEF Due
      <3>2. s = SubSeq(s, 1, n)
        BY <1>2, SubSeqFull
      <3>3. Due(c) = SubSeq(s, 1, n)
        BY <3>1, <3>2, Zenon
      <3>4. n \in 0..n
        BY <1>2
      <3>5. QED
        BY <3>3, <3>4, Zenon
    <2>2. CASE late # {}
      <3>1. late \subseteq Nat
        BY <1>2
      <3>2. Min(late) \in late
        BY <2>2, <3>1, FirstPlace
      <3>3. Min(late) - 1 \in 0..n
        BY <3>2, <1>2
      <3>4. Due(c) = SubSeq(s, 1, Min(late) - 1)
        BY <2>2, <1>1 DEF Due
      <3>5. QED
        BY <3>3, <3>4
    <2>3. QED
      BY <2>1, <2>2
  <1> HIDE DEF late
  <1>4. PICK m \in 0..n : Due(c) = SubSeq(s, 1, m)
    BY <1>3
  <1>5. PICK due, rest : due = SubSeq(s, 1, m) /\ rest = SubSeq(s, m + 1, n)
    OBVIOUS
  <1>6. /\ due \in Seq(Tasks) /\ Len(due) = m /\ IsInjective(due)
        /\ \A x : x \in ToSet(due) <=> \E k \in 1..m : x = s[k]
    <2>1. 1 \in Nat \ {0} /\ m \in Nat /\ m <= Len(s) /\ 1 <= m + 1
      BY <1>2, <1>4
    <2>2. /\ SubSeq(s, 1, m) \in Seq(Tasks) /\ Len(SubSeq(s, 1, m)) = m - 1 + 1
          /\ IsInjective(SubSeq(s, 1, m))
          /\ \A x : x \in ToSet(SubSeq(s, 1, m)) <=> \E k \in 1..m : x = s[k]
      BY ONLY <2>1, <1>1, <1>2, PartOfQueue
    <2>3. QED
      BY <2>1, <2>2, <1>5
  <1>7. /\ rest \in Seq(Tasks) /\ Len(rest) = n - m /\ IsInjective(rest)
        /\ \A i \in 1..(n - m) : rest[i] = s[m + i]
        /\ \A x : x \in ToSet(rest) <=> \E k \in (m + 1)..n : x = s[k]
    <2>1. m + 1 \in Nat \ {0} /\ n \in Nat /\ n <= Len(s) /\ m + 1 <= n + 1
      BY <1>2, <1>4
    <2>2. /\ SubSeq(s, m + 1, n) \in Seq(Tasks) /\ Len(SubSeq(s, m + 1, n)) = n - (m + 1) + 1
          /\ IsInjective(SubSeq(s, m + 1, n))
          /\ \A i \in 1..(n - (m + 1) + 1) : SubSeq(s, m + 1, n)[i] = s[(m + 1) + i - 1]
          /\ \A x : x \in ToSet(SubSeq(s, m + 1, n)) <=> \E k \in (m + 1)..n : x = s[k]
      BY ONLY <2>1, <1>1, <1>2, PartOfQueue
    <2>3. n - (m + 1) + 1 = n - m /\ \A i \in 1..(n - m) : (m + 1) + i - 1 = m + i
      BY <1>2, <1>4
    <2>4. QED
      BY <2>2, <2>3, <1>5
  <1>8. ASSUME NEW x PROVE x \in ToSet(s) <=> x \in ToSet(due) \/ x \in ToSet(rest)
    <2>1. x \in ToSet(s) <=> \E k \in 1..n : x = s[k]
      BY <1>2 DEF ToSet
    <2>2. \A k \in 1..n : k \in 1..m \/ k \in (m + 1)..n
      BY <1>2, <1>4
    <2>3. (\A k \in 1..m : k \in 1..n) /\ (\A k \in (m + 1)..n : k \in 1..n)
      BY <1>2, <1>4
    <2>4. QED
      BY <2>1, <2>2, <2>3, <1>6, <1>7
  <1>9. ASSUME NEW x, x \in ToSet(due), x \in ToSet(rest) PROVE FALSE
    <2>1. PICK i \in 1..m : x = s[i]
      BY <1>6, <1>9
    <2>2. PICK j \in (m + 1)..n : x = s[j]
      BY <1>7, <1>9
    <2>3. i \in 1..n /\ j \in 1..n /\ i # j
      BY <1>2, <1>4
    <2>4. QED
      BY <2>1, <2>2, <2>3, <1>2 DEF IsInjective
  <1>10. \A i \in DOMAIN rest : m + i \in DOMAIN s /\ rest[i] = s[m + i]
    <2>1. DOMAIN rest = 1..(n - m)
      BY <1>7, LenProperties
    <2>2. QED
      BY <2>1, <1>2, <1>4, <1>7
  <1>11. m \in Nat /\ due = Due(c) /\ rest = SubSeq(sleeping[c], Len(due) + 1, Len(sleeping[c]))
    <2>1. m \in Nat
      BY <1>2, <1>4
    <2>2. due = Due(c)
      BY <1>4, <1>5, Zenon
    <2>3. rest = SubSeq(s, Len(due) + 1, Len(s))
      BY <1>5, <1>6, Zenon
    <2>4. QED
      BY <2>1, <2>2, <2>3, <1>1, Zenon
  <1>12. /\ \A x : x \in ToSet(sleeping[c]) <=> x \in ToSet(due) \/ x \in ToSet(rest)
         /\ \A x : ~(x \in ToSet(due) /\ x \in ToSet(rest))
         /\ \A i \in DOMAIN rest : m + i \in DOMAIN sleeping[c] /\ rest[i] = sleeping[c][m + i]
    BY <1>1, <1>8, <1>9, <1>10, Zenon
  <1> due \in Seq(Tasks) /\ rest \in Seq(Tasks) /\ m \in Nat
    BY <1>6, <1>7, <1>11
  <1>13. WITNESS due \in Seq(Tasks), rest \in Seq(Tasks), m \in Nat
  <1>14. QED
    BY <1>6, <1>7, <1>11, <1>12, Zenon

(* timer_tick: every sleeper that is due is found blocked and made ready.  *)
LEMMA TimerKeeps ==
    ASSUME IInv, NEW c \in Cpus, TimerIrq(c), UNCHANGED lifeVars
    PROVE  IInv'
  <1> USE Constants
  <1>1. /\ UNCHANGED <<current, next, left, pc>>
        /\ UNCHANGED <<tasks, dead, freed, now, exiting>>
        /\ cpu[c] \in {"boot", "run"}
    BY DEF TimerIrq, lifeVars
  <1>2. /\ sleeping \in [Cpus -> Seq(Tasks)] /\ runnable \in [Cpus -> Seq(Tasks)]
        /\ waiting_on \in [AllTasks -> {Null, SleepQueue}]
        /\ state \in [AllTasks -> {"NONE", "READY", "RUNNING", "BLOCKED", "DEAD"}]
        /\ sleep_until \in [AllTasks -> 0..MaxTime] /\ cpu \in [Cpus -> CpuPoints]
        /\ current \in [Cpus -> AllTasks \cup {Null}]
    BY DEF IInv, Types, TypeOK
  <1>3. QueueOK(c) /\ CpuOK(c) /\ sleeping[c] \in Seq(Tasks) /\ IsInjective(sleeping[c])
        /\ runnable[c] \in Seq(Tasks) /\ IsInjective(runnable[c])
    BY <1>2 DEF IInv, QueueOK
  <1>4. PICK due, rest \in Seq(Tasks), m \in Nat :
          /\ due = Due(c) /\ rest = SubSeq(sleeping[c], Len(due) + 1, Len(sleeping[c]))
          /\ IsInjective(due) /\ IsInjective(rest)
          /\ \A x : x \in ToSet(sleeping[c]) <=> x \in ToSet(due) \/ x \in ToSet(rest)
          /\ \A x : ~(x \in ToSet(due) /\ x \in ToSet(rest))
          /\ \A i \in DOMAIN rest : m + i \in DOMAIN sleeping[c] /\ rest[i] = sleeping[c][m + i]
    BY <1>3, DueIsPrefix
  <1>5. \A t \in ToSet(due) : state[t] = "BLOCKED" /\ Home[t] = c /\ t \in Tasks
    BY <1>3, <1>4, SeqMembers DEF QueueOK
  <1>6. \A t : Contains(due, t) <=> t \in ToSet(due)
    BY <1>4, ContainsIsMembership
  <1>7. PICK q : q = runnable[c] \o due
    OBVIOUS
  <1>8. /\ q \in Seq(Tasks) /\ IsInjective(q)
        /\ \A x : x \in ToSet(q) <=> x \in ToSet(runnable[c]) \/ x \in ToSet(due)
    <2>1. \A t \in ToSet(runnable[c]) : state[t] = "READY"
      BY <1>3 DEF QueueOK
    <2>2. ToSet(runnable[c]) \cap ToSet(due) = {}
      BY <2>1, <1>5
    <2>3. /\ runnable[c] \o due \in Seq(Tasks) /\ IsInjective(runnable[c] \o due)
          /\ \A x : x \in ToSet(runnable[c] \o due) <=> x \in ToSet(runnable[c]) \/ x \in ToSet(due)
      BY <2>2, <1>3, <1>4, JoinedQueue
    <2>4. QED
      BY <2>3, <1>7
  <1>9. /\ sleeping' = [sleeping EXCEPT ![c] = rest]
        /\ waiting_on' = [t \in AllTasks |-> IF t \in ToSet(due) THEN Null ELSE waiting_on[t]]
        /\ sleep_until' = [t \in AllTasks |-> IF t \in ToSet(due) THEN 0 ELSE sleep_until[t]]
        /\ state' = [t \in AllTasks |-> IF t \in ToSet(due) THEN "READY" ELSE state[t]]
        /\ runnable' = [runnable EXCEPT ![c] = q]
        /\ cpu' = [cpu EXCEPT ![c] = IF current[c] = Null THEN "boot" ELSE "enter"]
        /\ UNCHANGED faults
    <2>1. ~ \E t \in ToSet(due) : state[t] # "BLOCKED"
      BY <1>5
    <2>2. QED
      BY <2>1, <1>4, <1>6, <1>7 DEF TimerIrq
  <1>10. Types'
    <2>1. /\ sleeping' \in [Cpus -> Seq(Tasks)] /\ runnable' \in [Cpus -> Seq(Tasks)]
          /\ waiting_on' \in [AllTasks -> {Null, SleepQueue}]
          /\ state' \in [AllTasks -> {"NONE", "READY", "RUNNING", "BLOCKED", "DEAD"}]
          /\ cpu' \in [Cpus -> CpuPoints]
      BY <1>2, <1>4, <1>8, <1>9 DEF CpuPoints
    <2>2. sleep_until' \in [AllTasks -> 0..MaxTime]
      BY <1>2, <1>9
    <2>3. QED
      BY <2>1, <2>2, <1>1 DEF IInv, Types, TypeOK
  <1>11. /\ sleeping'[c] = rest /\ \A d \in Cpus : d # c => sleeping'[d] = sleeping[d]
         /\ runnable'[c] = q /\ \A d \in Cpus : d # c => runnable'[d] = runnable[d]
         /\ cpu'[c] \in {"boot", "enter"} /\ (cpu'[c] = "boot" => current[c] = Null)
         /\ \A d \in Cpus : d # c => cpu'[d] = cpu[d]
         /\ \A t \in ToSet(due) : waiting_on'[t] = Null /\ state'[t] = "READY"
         /\ \A t \in AllTasks : t \notin ToSet(due) =>
              waiting_on'[t] = waiting_on[t] /\ state'[t] = state[t] /\ sleep_until'[t] = sleep_until[t]
    BY <1>2, <1>5, <1>9
  <1>12. ASSUME NEW u \in Tasks PROVE TaskOK(u)'
    <2>1. TaskOK(u) /\ Home[u] \in Cpus
      BY DEF IInv
    <2>2. CASE u \in ToSet(due)
      <3>1. Home[u] = c /\ state[u] = "BLOCKED" /\ state'[u] = "READY" /\ waiting_on'[u] = Null
        BY <2>2, <1>5, <1>11
      <3>2. u \in ToSet(runnable'[Home[u]])
        BY <3>1, <2>2, <1>8, <1>11
      <3>3. pc'[u] \in PointsOf("READY")
        BY <2>1, <3>1, <1>1 DEF TaskOK, PointsOf, Alive
      <3>4. QED
        BY <3>1, <3>2, <3>3 DEF TaskOK
    <2>3. CASE u \notin ToSet(due)
      <3>1. u \in ToSet(runnable[Home[u]]) => u \in ToSet(runnable'[Home[u]])
        BY <2>1, <1>8, <1>11
      <3>2. u \in ToSet(sleeping[Home[u]]) => u \in ToSet(sleeping'[Home[u]])
        BY <2>1, <2>3, <1>4, <1>11
      <3>3. state[u] = "RUNNING" => cpu'[Home[u]] \notin {"pick", "loop", "check", "commit"}
        BY <2>1, <1>11 DEF TaskOK
      <3>4. QED
        BY <3>1, <3>2, <3>3, <2>1, <2>3, <1>1, <1>11 DEF TaskOK
    <2>4. QED
      BY <2>2, <2>3
  <1>13. \A u \in AllTasks \ Tasks : ServantOK(u)'
    BY <1>5, <1>11 DEF IInv, ServantOK
  <1>14. ASSUME NEW d \in Cpus PROVE QueueOK(d)'
    <2>1. QueueOK(d) /\ ToSet(runnable[d]) \subseteq AllTasks /\ ToSet(sleeping[d]) \subseteq AllTasks
      BY SeqMembers DEF IInv, Types, TypeOK
    <2>2. CASE d = c
      <3>1. \A t \in ToSet(q) : Home[t] = c /\ state'[t] = "READY"
        BY <2>1, <2>2, <1>5, <1>8, <1>11 DEF QueueOK
      <3>2. \A t \in ToSet(rest) : Home[t] = c /\ state'[t] = "BLOCKED"
        BY <2>1, <2>2, <1>4, <1>11 DEF QueueOK
      <3>4. \A t \in ToSet(q) : next[c] # t
        BY <2>1, <2>2, <1>3, <1>5, <1>8 DEF QueueOK, CpuOK
      <3>3. QED
        BY <3>1, <3>2, <3>4, <2>2, <1>1, <1>4, <1>8, <1>11 DEF QueueOK
    <2>3. CASE d # c
      <3>1. \A t \in ToSet(runnable[d]) \cup ToSet(sleeping[d]) : t \notin ToSet(due)
        BY <2>1, <2>3, <1>5 DEF QueueOK
      <3>2. QED
        BY <3>1, <2>1, <2>3, <1>1, <1>11 DEF QueueOK
    <2>4. QED
      BY <2>2, <2>3
  <1>15. ASSUME NEW d \in Cpus PROVE CpuOK(d)'
    <2>1. CpuOK(d)
      BY DEF IInv
    <2>2. CASE d = c
      BY <2>1, <2>2, <1>1, <1>11 DEF CpuOK
    <2>3. CASE d # c
      <3>1. current[d] \in Tasks => current[d] \notin ToSet(due)
        BY <2>1, <2>3, <1>5 DEF CpuOK
      <3>2. QED
        BY <3>1, <2>1, <2>3, <1>1, <1>11 DEF CpuOK
    <2>4. QED
      BY <2>2, <2>3
  <1>16. ASSUME NEW d \in Cpus PROVE CleanupOK(d)'
    <2>1. CleanupOK(d) /\ (dead[d] # Null => dead[d] \in AllTasks)
      BY DEF IInv, Types, TypeOK
    <2>2. dead[d] # Null => dead[d] \notin ToSet(due)
      BY <2>1, <1>5 DEF CleanupOK
    <2>3. QED
      BY <2>1, <2>2, <1>1, <1>11 DEF CleanupOK
  <1>17. SleepersSorted'
    <2> SUFFICES ASSUME NEW d \in Cpus, NEW i \in DOMAIN sleeping'[d], NEW j \in DOMAIN sleeping'[d], i < j
                 PROVE  sleep_until'[sleeping'[d][i]] <= sleep_until'[sleeping'[d][j]]
      BY DEF SleepersSorted
    <2>1. CASE d = c
      <3>1. i \in DOMAIN rest /\ j \in DOMAIN rest /\ i \in Nat /\ j \in Nat
        BY <2>1, <1>4, <1>11, LenProperties
      <3>2. m + i \in DOMAIN sleeping[c] /\ m + j \in DOMAIN sleeping[c] /\ m + i < m + j
        BY <3>1, <1>4
      <3>3. sleep_until[sleeping[c][m + i]] <= sleep_until[sleeping[c][m + j]]
        BY <3>2 DEF IInv, SleepersSorted
      <3>4. rest[i] \in ToSet(rest) /\ rest[j] \in ToSet(rest)
        BY <3>1 DEF ToSet
      <3>5. rest[i] \in AllTasks /\ rest[j] \in AllTasks
        BY <3>4, <1>4, SeqMembers
      <3>6. sleep_until'[rest[i]] = sleep_until[rest[i]] /\ sleep_until'[rest[j]] = sleep_until[rest[j]]
        BY <3>4, <3>5, <1>4, <1>11
      <3>7. rest[i] = sleeping[c][m + i] /\ rest[j] = sleeping[c][m + j]
        BY <3>1, <1>4
      <3>8. QED
        BY <3>3, <3>6, <3>7, <2>1, <1>11
    <2>2. CASE d # c
      <3>1. sleeping'[d] = sleeping[d] /\ sleeping[d] \in Seq(Tasks)
        BY <2>2, <1>2, <1>11
      <3>2. ToSet(sleeping[d]) \subseteq AllTasks /\ \A t \in ToSet(sleeping[d]) : Home[t] = d
        BY <3>1, SeqMembers DEF IInv, QueueOK
      <3>3. \A k \in DOMAIN sleeping[d] : sleeping[d][k] \in AllTasks /\ sleeping[d][k] \notin ToSet(due)
        <4>1. \A t \in ToSet(sleeping[d]) : t \in AllTasks /\ t \notin ToSet(due)
          BY <3>2, <2>2, <1>5
        <4>2. \A k \in DOMAIN sleeping[d] : sleeping[d][k] \in ToSet(sleeping[d])
          BY DEF ToSet
        <4>3. QED
          BY <4>1, <4>2
      <3>4. \A k \in DOMAIN sleeping[d] : sleep_until'[sleeping[d][k]] = sleep_until[sleeping[d][k]]
        BY <3>3, <1>11
      <3>5. QED
        BY <3>1, <3>4 DEF IInv, SleepersSorted
    <2>3. QED
      BY <2>1, <2>2
  <1>18. OnlyBootPanics'
    BY <1>9 DEF IInv, OnlyBootPanics
  <1>19. QED
    BY <1>10, <1>12, <1>13, <1>14, <1>15, <1>16, <1>17, <1>18 DEF IInv

-----------------------------------------------------------------------------
(* Before the first task is created every queue is empty.                  *)
LEMMA InitHolds == Init => IInv
  <1> SUFFICES ASSUME Init PROVE IInv
    OBVIOUS
  <1> USE Constants
  <1>1. /\ state = [t \in AllTasks |-> IF t \in Tasks \ {} THEN "NONE" ELSE "READY"]
        /\ waiting_on = [t \in AllTasks |-> Null]
        /\ sleep_until = [t \in AllTasks |-> 0]
        /\ sleeping = [c \in Cpus |-> <<>>]
        /\ current = [c \in Cpus |-> Null]
        /\ next = [c \in Cpus |-> Null]
        /\ left = [c \in Cpus |-> Null]
        /\ now = 0 /\ exiting = {} /\ faults = {}
        /\ cpu = [c \in Cpus |-> "boot"]
    BY DEF Init, SchedInit
  <1>2. /\ pc = [t \in AllTasks |-> IF t \in Tasks THEN "body"
                                    ELSE IF \E c \in Cpus : t = Idle[c] THEN "idle" ELSE "find"]
        /\ tasks = <<>> /\ dead = [c \in Cpus |-> Null]
    BY DEF Init, ManagerInit
  <1>3. \A c \in Cpus : runnable[c] = <<>>
    <2> SUFFICES ASSUME NEW c \in Cpus PROVE runnable[c] = <<>>
      OBVIOUS
    <2>1. runnable \in [Cpus -> UNION {SetToSeqs({t \in {} : Home[t] = d}) : d \in Cpus}]
      BY DEF Init, SchedInit
    <2>2. PICK d \in Cpus : runnable[c] \in SetToSeqs({t \in {} : Home[t] = d})
      BY <2>1
    <2>3. {t \in {} : Home[t] = d} = {}
      OBVIOUS
    <2>4. runnable[c] \in [1..Cardinality({}) -> {}]
      BY <2>2, <2>3 DEF SetToSeqs
    <2>5. Cardinality({}) = 0
      BY FS_EmptySet
    <2>6. runnable[c] \in [1..0 -> {}]
      BY <2>4, <2>5
    <2>7. runnable[c] \in Seq({})
      BY <2>6, SeqDef
    <2>8. Len(runnable[c]) = 0
      BY <2>6, <2>7, LenProperties
    <2>9. QED
      BY <2>7, <2>8, EmptySeq
  <1>4. runnable \in [Cpus -> Seq(Tasks)]
    <2>1. runnable \in [Cpus -> UNION {SetToSeqs({t \in {} : Home[t] = d}) : d \in Cpus}]
      BY DEF Init, SchedInit
    <2>2. \A c \in Cpus : runnable[c] \in Seq(Tasks)
      <3>1. <<>> \in Seq(Tasks)
        OBVIOUS
      <3>2. QED
        BY <1>3, <3>1
    <2>3. DOMAIN runnable = Cpus /\ runnable = [c \in DOMAIN runnable |-> runnable[c]]
      BY <2>1
    <2>4. QED
      BY <2>2, <2>3, Zenon
  <1>5. Types
    <2>1. sleeping \in [Cpus -> Seq(Tasks)] /\ tasks \in Seq(Tasks)
      BY <1>1, <1>2
    <2>2. state \in [AllTasks -> {"NONE", "READY", "RUNNING", "BLOCKED", "DEAD"}]
          /\ cpu \in [Cpus -> CpuPoints]
          /\ pc \in [AllTasks -> Alive \cup Ended \cup CleanupPoints \cup {"idle"}]
      BY <1>1, <1>2 DEF CpuPoints, Alive, CleanupPoints
    <2>3. sleep_until \in [AllTasks -> 0..MaxTime] /\ now \in 0..MaxTime
      BY <1>1
    <2>4. QED
      BY <2>1, <2>2, <2>3, <1>1, <1>2, <1>4 DEF Types, TypeOK
  <1>6. \A t \in Tasks : TaskOK(t)
    BY <1>1, <1>2 DEF TaskOK, PointsOf
  <1>7. \A t \in AllTasks \ Tasks : ServantOK(t)
    BY <1>1 DEF ServantOK
  <1>8. \A c \in Cpus : QueueOK(c)
    BY <1>1, <1>3 DEF QueueOK, ToSet, IsInjective
  <1>9. \A c \in Cpus : CpuOK(c)
    BY <1>1 DEF CpuOK
  <1>10. \A c \in Cpus : CleanupOK(c)
    BY <1>2 DEF CleanupOK
  <1>11. SleepersSorted /\ OnlyBootPanics
    BY <1>1 DEF SleepersSorted, OnlyBootPanics
  <1>12. QED
    BY <1>5, <1>6, <1>7, <1>8, <1>9, <1>10, <1>11 DEF IInv

(* What the pick of the policy leaves in the run queue.                    *)
LEMMA PickKeeps ==
    ASSUME IInv, NEW c \in Cpus, UNCHANGED lifeVars,
           PickCleanup(c) \/ PickIdle(c) \/ PickFirst(c)
    PROVE  IInv'
  <1> USE Constants
  <1>1. PICK queue \in Seq(Tasks) : queue = runnable[c]
    BY DEF IInv, Types, TypeOK
  <1>2. IsInjective(queue) /\ ToSet(queue) \subseteq Tasks /\ QueueOK(c)
    BY <1>1, SeqMembers DEF IInv, QueueOK
  <1>3. CASE PickCleanup(c)
    <2>1. cpu[c] \in {"pick", "loop"} /\ Pick(c, Cleanup[c], queue, "commit")
      BY <1>1, <1>3 DEF PickCleanup
    <2>2. /\ \A x : x \in ToSet(queue) <=> x \in ToSet(runnable[c]) /\ x # Cleanup[c]
          /\ Cleanup[c] \notin Tasks /\ Cleanup[c] \in AllTasks /\ Home[Cleanup[c]] = c
      BY <1>1, <1>2
    <2>3. QED
      BY <1>2, <2>1, <2>2, TakenKeeps
  <1>4. CASE PickIdle(c)
    <2>1. cpu[c] \in {"pick", "loop"} /\ Pick(c, Idle[c], queue, "commit")
      BY <1>1, <1>4 DEF PickIdle, Picking
    <2>2. /\ \A x : x \in ToSet(queue) <=> x \in ToSet(runnable[c]) /\ x # Idle[c]
          /\ Idle[c] \notin Tasks /\ Idle[c] \in AllTasks /\ Home[Idle[c]] = c
      BY <1>1, <1>2
    <2>3. QED
      BY <1>2, <2>1, <2>2, TakenKeeps
  <1>5. CASE PickFirst(c)
    <2>1. cpu[c] \in {"pick", "loop"} /\ queue # <<>> /\ Pick(c, Head(queue), Tail(queue), "check")
      BY <1>1, <1>5 DEF PickFirst, Picking
    <2>2. /\ Tail(queue) \in Seq(Tasks) /\ Head(queue) \in Tasks /\ Head(queue) \in ToSet(queue)
          /\ IsInjective(Tail(queue))
          /\ \A x : x \in ToSet(Tail(queue)) <=> x \in ToSet(queue) /\ x # Head(queue)
      BY <1>2, <2>1, DequeuedQueue
    <2>3. PICK n \in Tasks, r \in Seq(Tasks) : n = Head(queue) /\ r = Tail(queue)
      BY <2>2
    <2>4. Home[n] = c /\ n \in ToSet(runnable[c]) /\ n \in AllTasks
      BY <1>1, <1>2, <2>2, <2>3 DEF QueueOK
    <2>5. /\ IsInjective(r) /\ Pick(c, n, r, "check")
          /\ \A x : x \in ToSet(r) <=> x \in ToSet(runnable[c]) /\ x # n
      BY <1>1, <2>1, <2>2, <2>3
    <2>6. QED
      BY <2>1, <2>4, <2>5, TakenKeeps
  <1>6. QED
    BY <1>3, <1>4, <1>5

(* Steps of the scheduler.                                                 *)
LEMMA SchedKeeps ==
    ASSUME IInv, NEW c \in Cpus, SchedStep(c)
    PROVE  IInv'
  <1> USE Constants
  <1>1. UNCHANGED lifeVars
    BY DEF SchedStep
  <1>2. /\ cpu \in [Cpus -> CpuPoints] /\ left \in [Cpus -> AllTasks \cup {Null}]
        /\ now \in 0..MaxTime
    BY DEF IInv, Types, TypeOK
  <1>3. CASE SwitchEnter(c)
    BY <1>1, <1>3, SwitchEnterKeeps
  <1>4. CASE PickCleanup(c) \/ PickIdle(c) \/ PickFirst(c)
    BY <1>1, <1>4, PickKeeps
  <1>5. CASE ContextSwitch(c)
    <2>1. /\ cpu' \in [Cpus -> CpuPoints] /\ left' \in [Cpus -> AllTasks \cup {Null}]
          /\ \A d \in Cpus : cpu'[d] = cpu[d] \/ (cpu[d] = "ctx" /\ cpu'[d] = "run")
      BY <1>2, <1>5 DEF ContextSwitch, CpuPoints
    <2>2. UNCHANGED <<taskVars, queueVars, current, next, now, exiting, pc, faults>>
      BY <1>5 DEF ContextSwitch
    <2>3. OnlyBootPanics' /\ now' \in 0..MaxTime
      BY <1>2, <2>2 DEF IInv, OnlyBootPanics
    <2>4. QED
      BY <1>1, <2>1, <2>2, <2>3, CpuGoesOn
  <1>6. CASE BootContextSwitch(c)
    <2>1. /\ cpu' \in [Cpus -> CpuPoints]
          /\ \A d \in Cpus : cpu'[d] = cpu[d] \/ (cpu[d] = "ctx" /\ cpu'[d] \in {"halted", "run"})
      <3>1. PICK p \in {"halted", "run"} : cpu' = [cpu EXCEPT ![c] = p] /\ cpu[c] = "ctx"
        BY <1>6 DEF BootContextSwitch, Panic
      <3>2. cpu' \in [Cpus -> CpuPoints]
        BY <1>2, <3>1 DEF CpuPoints
      <3>3. QED
        BY <1>2, <3>1, <3>2
    <2>2. UNCHANGED <<taskVars, queueVars, current, next, left, now, exiting, pc>>
      BY <1>6 DEF BootContextSwitch, cpuVars
    <2>3. faults' = faults \/ faults' = faults \cup {"idle selected while runnable task exists"}
      BY <1>6 DEF BootContextSwitch, Panic
    <2>4. OnlyBootPanics' /\ now' \in 0..MaxTime /\ left' \in [Cpus -> AllTasks \cup {Null}]
      BY <1>2, <2>2, <2>3 DEF IInv, OnlyBootPanics
    <2>5. QED
      BY <1>1, <2>1, <2>2, <2>4, CpuGoesOn
  <1>7. CASE TimerIrq(c)
    BY <1>1, <1>7, TimerKeeps
  <1>8. CASE BootSwitch(c)
    <2>1. cpu' \in [Cpus -> CpuPoints] /\ \A d \in Cpus : cpu'[d] = cpu[d] \/ (cpu[d] = "boot" /\ cpu'[d] = "enter")
      BY <1>2, <1>8 DEF BootSwitch, CpuPoints
    <2>2. UNCHANGED <<taskVars, queueVars, current, next, left, now, exiting, pc, faults>>
      BY <1>8 DEF BootSwitch, cpuVars
    <2>3. OnlyBootPanics' /\ now' \in 0..MaxTime /\ left' \in [Cpus -> AllTasks \cup {Null}]
      BY <1>2, <2>2 DEF IInv, OnlyBootPanics
    <2>4. QED
      BY <1>1, <2>1, <2>2, <2>3, CpuGoesOn
  <1>9. CASE IdleYield(c)
    <2>1. /\ Runs(c, Idle[c]) /\ CallSwitch(c, Idle[c], "idle")
          /\ UNCHANGED <<taskVars, queueVars, cpuVars, now, exiting, faults, lifeVars>>
      BY <1>1, <1>9 DEF IdleYield
    <2>2. Idle[c] \in AllTasks /\ Idle[c] \notin Tasks
      OBVIOUS
    <2>3. QED
      BY <2>1, <2>2, Calls
  <1>10. CASE CheckLive(c)
    <2>1. /\ cpu' \in [Cpus -> CpuPoints]
          /\ \A d \in Cpus : cpu'[d] = cpu[d] \/ (cpu[d] = "check" /\ cpu'[d] = "commit")
      BY <1>2, <1>10 DEF CheckLive, CpuPoints
    <2>2. UNCHANGED <<taskVars, queueVars, current, next, left, now, exiting, pc, faults>>
      BY <1>10 DEF CheckLive, cpuVars
    <2>3. OnlyBootPanics' /\ now' \in 0..MaxTime /\ left' \in [Cpus -> AllTasks \cup {Null}]
      BY <1>2, <2>2 DEF IInv, OnlyBootPanics
    <2>4. QED
      BY <1>1, <2>1, <2>2, <2>3, CpuGoesOn
  <1>11. CASE CheckExiting(c)
    BY <1>11 DEF CheckExiting, IInv, Types
  <1>12. CASE SwitchTo(c)
    BY <1>1, <1>12, SwitchToKeeps
  <1>13. QED
    BY <1>3, <1>4, <1>5, <1>6, <1>7, <1>8, <1>9, <1>10, <1>11, <1>12 DEF SchedStep, SwitchStep

(* The first dead task of the list.                                        *)
LEMMA FoundIsDead ==
    ASSUME IInv, NEW c \in Cpus, FindDead(c)
    PROVE  \E x \in Tasks \cup {Null} :
             /\ dead' = [dead EXCEPT ![c] = x]
             /\ Go(Cleanup[c], IF x = Null THEN "clear" ELSE "remove")
             /\ x # Null => state[x] = "DEAD" /\ x \in ToSet(tasks)
  <1> USE Constants
  <1>1. PICK s \in Seq(Tasks) : s = tasks
    BY DEF IInv, Types, TypeOK
  <1> DEFINE corpses == {i \in DOMAIN s : state[s[i]] = "DEAD"}
  <1>2. DOMAIN s = 1..Len(s) /\ Len(s) \in Nat /\ \A i \in DOMAIN s : s[i] \in Tasks
    BY LenProperties, ElementOfSeq
  <1>3. /\ dead' = [dead EXCEPT ![c] = IF corpses = {} THEN Null ELSE s[Min(corpses)]]
        /\ Go(Cleanup[c], IF corpses = {} THEN "clear" ELSE "remove")
    BY <1>1 DEF FindDead
  <1>4. CASE corpses = {}
    BY <1>3, <1>4
  <1>5. CASE corpses # {}
    <2>1. corpses \subseteq Nat
      BY <1>2
    <2>2. Min(corpses) \in corpses
      BY <1>5, <2>1, FirstPlace
    <2>3. PICK x : x = s[Min(corpses)]
      OBVIOUS
    <2>4. x \in Tasks /\ state[x] = "DEAD" /\ x \in ToSet(tasks) /\ x # Null
      <3>1. PICK k : k = Min(corpses) /\ k \in DOMAIN s /\ state[s[k]] = "DEAD"
        BY <2>2
      <3>2. x = s[k] /\ s[k] \in Tasks
        BY <3>1, <2>3, <1>2
      <3>3. QED
        BY <3>1, <3>2, <1>1 DEF ToSet
    <2>5. dead' = [dead EXCEPT ![c] = x] /\ Go(Cleanup[c], IF x = Null THEN "clear" ELSE "remove")
      BY <2>3, <2>4, <1>3, <1>5
    <2>6. QED
      BY <2>4, <2>5
  <1>6. QED
    BY <1>4, <1>5

(* Whatever is unlinked, a list of tasks stays one.                        *)
LEMMA UnlinkType ==
    ASSUME NEW s \in Seq(Tasks), NEW e
    PROVE  Unlink(s, e) \in Seq(Tasks)
  <1>1. CASE ~Contains(s, e)
    BY <1>1 DEF Unlink
  <1>2. CASE Contains(s, e)
    <2>1. Len(s) \in Nat /\ DOMAIN s = 1..Len(s)
      BY LenProperties
    <2>2. PICK k : k = CHOOSE i \in DOMAIN s : s[i] = e
      OBVIOUS
    <2>3. k \in 1..Len(s)
      BY <1>2, <2>1, <2>2 DEF Contains
    <2>4. SubSeq(s, 1, k - 1) \in Seq(Tasks)
      <3>1. 1 \in Nat \ {0} /\ k - 1 \in Nat /\ k - 1 <= Len(s) /\ 1 <= (k - 1) + 1
        BY <2>1, <2>3
      <3>2. QED
        BY ONLY <3>1, s \in Seq(Tasks), PartOfQueue
    <2>5. SubSeq(s, k + 1, Len(s)) \in Seq(Tasks)
      <3>1. k + 1 \in Nat \ {0} /\ Len(s) \in Nat /\ Len(s) <= Len(s) /\ k + 1 <= Len(s) + 1
        BY <2>1, <2>3
      <3>2. QED
        BY ONLY <3>1, s \in Seq(Tasks), PartOfQueue
    <2>6. Unlink(s, e) = SubSeq(s, 1, k - 1) \o SubSeq(s, k + 1, Len(s))
      BY <1>2, <2>2 DEF Unlink, RemoveAt
    <2>7. QED
      BY <2>4, <2>5, <2>6, ConcatProperties
  <1>3. QED
    BY <1>1, <1>2

(* What the cleanup task removes is in no queue: its assertion holds.      *)
LEMMA RemovedWaitsForNothing ==
    ASSUME IInv, NEW c \in Cpus, RemoveDead(c, "destroy")
    PROVE  /\ At(c, Cleanup[c], "remove") /\ dead[c] \in Tasks
           /\ tasks' = Unlink(tasks, dead[c])
           /\ Go(Cleanup[c], "destroy")
           /\ faults' = faults \cup (IF dead[c] \in freed THEN {"freed task used"} ELSE {})
           /\ UNCHANGED <<taskVars, queueVars, cpuVars, now, exiting, cpu, dead, freed>>
  <1> USE Constants
  <1>1. At(c, Cleanup[c], "remove") /\ CleanupOK(c) /\ dead[c] \in Tasks \cup {Null}
    BY DEF RemoveDead, IInv, Types, TypeOK
  <1>2. PICK t \in Tasks : t = dead[c] /\ state[t] = "DEAD"
    BY <1>1 DEF CleanupOK, At
  <1>3. waiting_on[t] = Null /\ Home[t] \in Cpus
    BY <1>2 DEF IInv, TaskOK
  <1>4. /\ sleeping[Home[t]] \in Seq(Tasks) /\ runnable[Home[t]] \in Seq(Tasks)
        /\ QueueOK(Home[t])
    BY <1>3 DEF IInv, Types, TypeOK
  <1>5. t \notin ToSet(sleeping[Home[t]]) /\ t \notin ToSet(runnable[Home[t]])
    BY <1>2, <1>4 DEF QueueOK
  <1>6. ~Linked(sleeping[Home[t]], t) /\ ~Linked(runnable[Home[t]], t)
    BY <1>4, <1>5, ContainsIsMembership DEF Linked
  <1>7. QED
    BY <1>1, <1>2, <1>3, <1>6 DEF RemoveDead

(* Steps of the cleanup task.                                              *)
LEMMA CleanupKeeps ==
    ASSUME IInv, NEW c \in Cpus, CleanupStep(c)
    PROVE  IInv'
  <1> USE Constants
  <1>1. /\ tasks \in Seq(Tasks) /\ dead \in [Cpus -> Tasks \cup {Null}] /\ CleanupOK(c)
        /\ dead = [dead EXCEPT ![c] = dead[c]]
    BY DEF IInv, Types, TypeOK
  <1>2. CASE FindDead(c)
    <2>1. PICK x \in Tasks \cup {Null} :
            /\ dead' = [dead EXCEPT ![c] = x]
            /\ Go(Cleanup[c], IF x = Null THEN "clear" ELSE "remove")
            /\ x # Null => state[x] = "DEAD" /\ x \in ToSet(tasks)
      BY <1>2, FoundIsDead
    <2>2. PICK to \in CleanupPoints : to = IF x = Null THEN "clear" ELSE "remove"
      BY DEF CleanupPoints
    <2>3. /\ UNCHANGED <<taskVars, queueVars, current, next, left, now, exiting, cpu>>
          /\ UNCHANGED <<faults, tasks>>
      BY <1>2 DEF FindDead, cpuVars
    <2>4. Go(Cleanup[c], to) /\ tasks' \in Seq(Tasks) /\ faults' \subseteq faults \cup MemoryFaults
          /\ (to \in {"remove", "destroy"} => x # Null)
      BY <1>1, <2>1, <2>2, <2>3
    <2>5. QED
      BY <2>1, <2>3, <2>4, CleansOn
  <1>3. CASE ClearCleanup(c)
    <2>1. /\ UNCHANGED <<taskVars, queueVars, current, next, left, now, exiting, cpu>>
          /\ UNCHANGED <<faults, tasks, dead>> /\ Go(Cleanup[c], "rest")
      BY <1>3 DEF ClearCleanup, lifeVars
    <2>2. /\ "rest" \in CleanupPoints /\ "rest" \notin {"remove", "destroy"}
          /\ tasks' \in Seq(Tasks) /\ faults' \subseteq faults \cup MemoryFaults
          /\ dead' = [dead EXCEPT ![c] = dead[c]] /\ dead[c] \in Tasks \cup {Null}
          /\ (dead[c] # Null => state[dead[c]] = "DEAD")
      BY <1>1, <2>1 DEF CleanupPoints, CleanupOK
    <2>3. QED
      BY ZenonT(40), <2>1, <2>2, CleansOn
  <1>4. CASE CleanupYield(c)
    <2>1. /\ Runs(c, Cleanup[c]) /\ CallSwitch(c, Cleanup[c], "find")
          /\ UNCHANGED <<taskVars, queueVars, cpuVars, now, exiting, faults, lifeVars>>
      BY <1>4 DEF CleanupYield, At
    <2>2. Cleanup[c] \in AllTasks /\ Cleanup[c] \notin Tasks
      OBVIOUS
    <2>3. QED
      BY <2>1, <2>2, Calls
  <1>5. CASE RemoveDead(c, "destroy")
    <2>1. /\ At(c, Cleanup[c], "remove") /\ dead[c] \in Tasks
          /\ tasks' = Unlink(tasks, dead[c])
          /\ Go(Cleanup[c], "destroy")
          /\ faults' = faults \cup (IF dead[c] \in freed THEN {"freed task used"} ELSE {})
          /\ UNCHANGED <<taskVars, queueVars, cpuVars, now, exiting, cpu, dead, freed>>
      BY <1>5, RemovedWaitsForNothing
    <2>2. UNCHANGED <<taskVars, queueVars, current, next, left, now, exiting, cpu>>
      BY <2>1 DEF cpuVars
    <2>3. /\ "destroy" \in CleanupPoints /\ faults' \subseteq faults \cup MemoryFaults
          /\ dead' = [dead EXCEPT ![c] = dead[c]] /\ dead[c] # Null /\ state[dead[c]] = "DEAD"
      BY <1>1, <2>1 DEF CleanupPoints, CleanupOK, MemoryFaults
    <2>4. tasks' \in Seq(Tasks)
      BY <1>1, <2>1, UnlinkType
    <2>5. QED
      BY ZenonT(40), <2>1, <2>2, <2>3, <2>4, CleansOn
  <1>6. CASE DestroyDead(c)
    <2>1. /\ UNCHANGED <<taskVars, queueVars, current, next, left, now, exiting, cpu>>
          /\ UNCHANGED tasks /\ Go(Cleanup[c], "find") /\ dead' = [dead EXCEPT ![c] = Null]
      BY <1>6 DEF DestroyDead, cpuVars
    <2>2. faults' \subseteq faults \cup MemoryFaults
      BY <1>6 DEF DestroyDead, MemoryFaults
    <2>3. "find" \in CleanupPoints /\ "find" \notin {"remove", "destroy"} /\ tasks' \in Seq(Tasks)
      BY <1>1, <2>1 DEF CleanupPoints
    <2>4. QED
      BY <2>1, <2>2, <2>3, CleansOn
  <1>7. QED
    BY <1>2, <1>3, <1>4, <1>5, <1>6 DEF CleanupStep

(* Every step keeps the invariant.                                         *)
LEMMA StepHolds == IInv /\ [Next]_vars => IInv'
  <1> SUFFICES ASSUME IInv, [Next]_vars PROVE IInv'
    OBVIOUS
  <1>1. CASE \E c \in Cpus : SchedStep(c)
    BY <1>1, SchedKeeps
  <1>2. CASE \E c \in Cpus : CleanupStep(c)
    BY <1>2, CleanupKeeps
  <1>3. CASE \E c \in Cpus, t \in Tasks : Create(c, t)
    BY <1>3, CreateKeeps
  <1>4. CASE \E c \in Cpus, t \in Tasks : TaskStep(c, t)
    <2>1. PICK c \in Cpus, t \in Tasks : TaskStep(c, t)
      BY <1>4
    <2>2. QED
      BY <2>1, TaskCalls, SleepKeeps, ExitFlagKeeps, ExitDeadKeeps DEF TaskStep
  <1>5. CASE Tick /\ UNCHANGED lifeVars
    <2>1. /\ UNCHANGED <<taskVars, queueVars, current, next, left, exiting, cpu, pc, faults, lifeVars>>
          /\ now < MaxTime /\ now' = now + 1
      BY <1>5 DEF Tick, cpuVars
    <2>2. /\ cpu \in [Cpus -> CpuPoints] /\ left \in [Cpus -> AllTasks \cup {Null}]
          /\ now \in 0..MaxTime
      BY DEF IInv, Types, TypeOK
    <2>3. now' \in 0..MaxTime
      BY <2>1, <2>2, Constants
    <2>4. /\ OnlyBootPanics' /\ cpu' \in [Cpus -> CpuPoints] /\ left' \in [Cpus -> AllTasks \cup {Null}]
          /\ \A c \in Cpus : cpu'[c] = cpu[c]
      BY <2>1, <2>2 DEF IInv, OnlyBootPanics
    <2>5. QED
      BY <2>1, <2>3, <2>4, CpuGoesOn
  <1>6. CASE UNCHANGED vars
    <2>1. /\ UNCHANGED <<taskVars, queueVars, current, next, left, exiting, cpu, pc, faults, lifeVars, now>>
      BY <1>6 DEF vars, schedVars, cpuVars
    <2>2. /\ cpu \in [Cpus -> CpuPoints] /\ left \in [Cpus -> AllTasks \cup {Null}]
          /\ now \in 0..MaxTime
      BY DEF IInv, Types, TypeOK
    <2>3. /\ OnlyBootPanics' /\ cpu' \in [Cpus -> CpuPoints] /\ left' \in [Cpus -> AllTasks \cup {Null}]
          /\ now' \in 0..MaxTime /\ \A c \in Cpus : cpu'[c] = cpu[c]
      BY <2>1, <2>2 DEF IInv, OnlyBootPanics
    <2>4. QED
      BY <2>1, <2>3, CpuGoesOn
  <1>7. QED
    BY <1>1, <1>2, <1>3, <1>4, <1>5, <1>6 DEF Next

LEMMA InvariantHolds == Spec => []IInv
  BY InitHolds, StepHolds, PTL DEF Spec

-----------------------------------------------------------------------------
(* A task is where its state says it is, for every number of CPUs and      *)
(* tasks, whatever creates, wakes, preempts and ends tasks meanwhile.      *)
THEOREM TasksStayConsistent == Spec => []TasksConsistent
  <1>1. IInv => TasksConsistent
    <2> SUFFICES ASSUME IInv PROVE TasksConsistent
      OBVIOUS
    <2> USE Constants
    <2>1. TypeOK
      BY DEF IInv, Types
    <2>2. \A c \in Cpus : IsInjective(runnable[c]) /\ IsInjective(sleeping[c])
      BY DEF IInv, QueueOK
    <2>3. ASSUME NEW t \in Tasks, NEW c \in Cpus
          PROVE  /\ Contains(runnable[c], t) <=> c = Home[t] /\ state[t] = "READY" /\ next[c] # t
                 /\ next[c] = t => c = Home[t] /\ state[t] = "READY"
                 /\ Contains(sleeping[c], t) <=> c = Home[t] /\ state[t] = "BLOCKED"
                 /\ state[t] = "RUNNING" => current[Home[t]] = t
      <3>1. runnable[c] \in Seq(Tasks) /\ sleeping[c] \in Seq(Tasks)
        BY <2>1 DEF TypeOK
      <3>2. /\ Contains(runnable[c], t) <=> t \in ToSet(runnable[c])
            /\ Contains(sleeping[c], t) <=> t \in ToSet(sleeping[c])
        BY <3>1, ContainsIsMembership
      <3>3. QueueOK(c) /\ CpuOK(c) /\ TaskOK(t)
        BY DEF IInv
      <3>4. QED
        BY <3>2, <3>3 DEF QueueOK, CpuOK, TaskOK
    <2>4. QED
      BY <2>1, <2>2, <2>3 DEF TasksConsistent, TaskInOnePlace
  <1>2. QED
    BY <1>1, InvariantHolds, PTL

(* No assertion on the task that is left, picked, woken or reclaimed fails *)
(* in any interleaving; the first switch of a CPU is the exception.        *)
THEOREM AssertionsHold == Spec => []OnlyBootPanics
  <1>1. IInv => OnlyBootPanics
    BY DEF IInv
  <1>2. QED
    BY <1>1, InvariantHolds, PTL

(* The sleep queues are sorted by deadline at all times.                   *)
THEOREM SleepersStaySorted == Spec => []SleepersSorted
  <1>1. IInv => SleepersSorted
    BY DEF IInv
  <1>2. QED
    BY <1>1, InvariantHolds, PTL

-----------------------------------------------------------------------------
(* One CPU: there is one cleanup task, and the tasks it frees are not      *)
(* running anywhere.                                                       *)

(* A step of the scheduler or of a task neither revives a dead task nor    *)
(* uses freed memory.                                                      *)
LEMMA DeadStaysDead ==
    ASSUME IInv,
           \/ \E c \in Cpus : SchedStep(c)
           \/ \E c \in Cpus, t \in Tasks : TaskStep(c, t)
           \/ Tick /\ UNCHANGED lifeVars
    PROVE  /\ \A t \in Tasks : /\ state[t] = "DEAD" => state'[t] = "DEAD"
                               /\ state[t] # "NONE" => state'[t] # "NONE"
           /\ faults' \cap MemoryFaults = faults \cap MemoryFaults
           /\ \A c \in Cpus : pc'[Cleanup[c]] = pc[Cleanup[c]]
           /\ UNCHANGED lifeVars
  <1> USE Constants
  <1> DEFINE Good ==
        /\ \A t \in Tasks : /\ state[t] = "DEAD" => state'[t] = "DEAD"
                            /\ state[t] # "NONE" => state'[t] # "NONE"
        /\ faults' \cap MemoryFaults = faults \cap MemoryFaults
        /\ \A c \in Cpus : pc'[Cleanup[c]] = pc[Cleanup[c]]
        /\ UNCHANGED lifeVars
  <1>1. /\ state \in [AllTasks -> {"NONE", "READY", "RUNNING", "BLOCKED", "DEAD"}]
        /\ pc \in [AllTasks -> Alive \cup Ended \cup CleanupPoints \cup {"idle"}]
        /\ runnable \in [Cpus -> Seq(Tasks)] /\ exiting = {}
    BY DEF IInv, Types, TypeOK
  <1>2. ASSUME UNCHANGED <<state, pc, lifeVars>>, NEW why, why \notin MemoryFaults,
               faults' = faults \/ faults' = faults \cup {why}
        PROVE  Good
    BY <1>2
  <1>3. ASSUME NEW c \in Cpus, SwitchStep(c), UNCHANGED lifeVars PROVE Good
    <2>1. CASE SwitchEnter(c)
      <3>1. /\ UNCHANGED pc /\ faults' \cap MemoryFaults = faults \cap MemoryFaults
        BY <2>1 DEF SwitchEnter, LeaveFault, Panic, MemoryFaults
      <3>2. UNCHANGED state \/ (state[current[c]] = "RUNNING" /\ state' = [state EXCEPT ![current[c]] = "READY"])
        BY <2>1 DEF SwitchEnter
      <3>3. \A t \in Tasks : /\ state[t] = "DEAD" => state'[t] = "DEAD"
                             /\ state[t] # "NONE" => state'[t] # "NONE"
        BY <3>2, <1>1
      <3>4. QED
        BY <3>1, <3>3, <1>3
    <2>2. CASE SwitchTo(c)
      <3>1. /\ UNCHANGED pc /\ faults' \cap MemoryFaults = faults \cap MemoryFaults
        BY <2>2 DEF SwitchTo, Panic, MemoryFaults
      <3>2. \/ UNCHANGED state
            \/ /\ state' = [state EXCEPT ![next[c]] = "RUNNING"]
               /\ next[c] \in Tasks => state[next[c]] = "READY"
        BY <2>2 DEF SwitchTo
      <3>3. \A t \in Tasks : /\ state[t] = "DEAD" => state'[t] = "DEAD"
                             /\ state[t] # "NONE" => state'[t] # "NONE"
        BY <3>2, <1>1
      <3>4. QED
        BY <3>1, <3>3, <1>3
    <2>3. CASE PickCleanup(c) \/ PickIdle(c) \/ PickFirst(c)
      BY <2>3, <1>2, <1>3 DEF PickCleanup, PickIdle, PickFirst, Pick, taskVars, MemoryFaults
    <2>4. CASE CheckExiting(c)
      BY <2>4, <1>1 DEF CheckExiting
    <2>8. CASE CheckLive(c)
      BY <2>8, <1>2, <1>3 DEF CheckLive, taskVars, MemoryFaults
    <2>5. CASE ContextSwitch(c)
      BY <2>5, <1>2, <1>3 DEF ContextSwitch, taskVars, MemoryFaults
    <2>6. CASE BootContextSwitch(c)
      <3>1. "idle selected while runnable task exists" \notin MemoryFaults
        BY DEF MemoryFaults
      <3>2. /\ UNCHANGED <<state, pc>>
            /\ faults' = faults \/ faults' = faults \cup {"idle selected while runnable task exists"}
        BY <2>6 DEF BootContextSwitch, taskVars, Panic
      <3>3. QED
        BY <3>1, <3>2, <1>2, <1>3
    <2>7. QED
      BY <2>1, <2>2, <2>3, <2>4, <2>5, <2>6, <2>8, <1>3 DEF SwitchStep
  <1>4. ASSUME NEW c \in Cpus, TimerIrq(c), UNCHANGED lifeVars PROVE Good
    <2>1. /\ UNCHANGED pc /\ faults' \cap MemoryFaults = faults \cap MemoryFaults
      BY <1>4 DEF TimerIrq, Panic, MemoryFaults
    <2>2. PICK due \in Seq(Tasks) : due = Due(c)
      <3>1. sleeping[c] \in Seq(Tasks) /\ IsInjective(sleeping[c])
        BY DEF IInv, Types, TypeOK, QueueOK
      <3>2. \E d, rest \in Seq(Tasks), m \in Nat : d = Due(c)
        BY <3>1, DueIsPrefix
      <3>3. QED
        BY <3>2
    <2>3. \/ UNCHANGED state
          \/ /\ \A t \in ToSet(due) : state[t] = "BLOCKED"
             /\ state' = [t \in AllTasks |-> IF Contains(due, t) THEN "READY" ELSE state[t]]
      BY <2>2, <1>4 DEF TimerIrq
    <2>4. \A t \in Tasks : Contains(due, t) <=> t \in ToSet(due)
      BY <2>2, ContainsIsMembership
    <2>5. \A t \in Tasks : /\ state[t] = "DEAD" => state'[t] = "DEAD"
                           /\ state[t] # "NONE" => state'[t] # "NONE"
      BY <2>3, <2>4
    <2>6. QED
      BY <2>1, <2>5, <1>4
  <1>5. ASSUME NEW c \in Cpus, BootSwitch(c), UNCHANGED lifeVars PROVE Good
    BY <1>2, <1>5 DEF BootSwitch, taskVars, MemoryFaults
  <1>6. ASSUME NEW c \in Cpus, IdleYield(c), UNCHANGED lifeVars PROVE Good
    <2>1. UNCHANGED <<state, faults>> /\ pc' = [pc EXCEPT ![Idle[c]] = "idle"]
      BY <1>6 DEF IdleYield, CallSwitch, taskVars
    <2>2. ASSUME NEW d \in Cpus PROVE Cleanup[d] # Idle[c]
      <3>1. Home[Cleanup[d]] = d /\ Home[Idle[c]] = c /\ Idle[c] # Cleanup[c]
        OBVIOUS
      <3>2. QED
        BY <3>1
    <2>3. \A d \in Cpus : pc'[Cleanup[d]] = pc[Cleanup[d]]
      BY <2>1, <2>2, <1>1
    <2>4. QED
      BY <2>1, <2>3, <1>6
  <1>7. ASSUME NEW c \in Cpus, NEW t \in Tasks, TaskStep(c, t) PROVE Good
    <2>1. ASSUME NEW to, pc' = [pc EXCEPT ![t] = to], UNCHANGED <<faults, lifeVars>>,
                 UNCHANGED state \/ (\E st \in {"BLOCKED", "DEAD"} : state' = [state EXCEPT ![t] = st]
                                                                    /\ state[t] = "RUNNING")
          PROVE  Good
      <3>1. \A d \in Cpus : pc'[Cleanup[d]] = pc[Cleanup[d]]
        BY <2>1, <1>1
      <3>2. \A u \in Tasks : /\ state[u] = "DEAD" => state'[u] = "DEAD"
                             /\ state[u] # "NONE" => state'[u] # "NONE"
        BY <2>1, <1>1
      <3>3. QED
        BY <3>1, <3>2, <2>1
    <2>2. CASE Yield(c, t)
      BY <2>1, <2>2 DEF Yield, CallSwitch, taskVars
    <2>3. CASE SleepSwitch(c, t)
      BY <2>1, <2>3 DEF SleepSwitch, CallSwitch, taskVars
    <2>4. CASE ExitYield(c, t)
      BY <2>1, <2>4 DEF ExitYield, CallSwitch, taskVars
    <2>5. CASE ExitFlag(c, t, "body")
      BY <2>1, <2>5 DEF ExitFlag, Go, taskVars
    <2>6. CASE ExitDead(c, t)
      <3>1. state[t] = "RUNNING"
        BY <2>6, StateAt DEF ExitDead, At
      <3>2. QED
        BY <2>1, <2>6, <3>1 DEF ExitDead, Go
    <2>7. CASE Sleep(c, t)
      <3>1. PICK ticks \in SleepTimes : SleepCurrent(c, t, ticks, "sleep_switch")
        BY <2>7 DEF Sleep
      <3>2. state[t] = "RUNNING" /\ Home[t] = c /\ t # Idle[c]
        BY <2>7, <3>1, StateAt DEF Sleep, SleepCurrent
      <3>3. QED
        BY <2>1, <2>7, <3>1, <3>2 DEF Sleep, SleepCurrent
    <2>8. QED
      BY <2>2, <2>3, <2>4, <2>5, <2>6, <2>7, <1>7 DEF TaskStep
  <1>8. CASE Tick /\ UNCHANGED lifeVars
    BY <1>2, <1>8 DEF Tick, taskVars, MemoryFaults
  <1>9. QED
    BY <1>3, <1>4, <1>5, <1>6, <1>7, <1>8 DEF SchedStep

LEMMA LifetimesStep ==
    ASSUME Cpus = {BootCpu}, IInv, Lifetimes, [Next]_vars
    PROVE  Lifetimes'
  <1> USE Constants
  <1>1. PICK c \in Cpus : \A d \in Cpus : d = c
    OBVIOUS
  <1>2. /\ tasks \in Seq(Tasks) /\ IsInjective(tasks) /\ ToSet(tasks) \subseteq Tasks
        /\ dead \in [Cpus -> Tasks \cup {Null}]
        /\ state \in [AllTasks -> {"NONE", "READY", "RUNNING", "BLOCKED", "DEAD"}]
        /\ pc \in [AllTasks -> Alive \cup Ended \cup CleanupPoints \cup {"idle"}]
    BY SeqMembers DEF IInv, Types, TypeOK, Lifetimes
  <1>3. ASSUME UNCHANGED lifeVars, faults' \cap MemoryFaults = faults \cap MemoryFaults,
               \A t \in Tasks : /\ state[t] = "DEAD" => state'[t] = "DEAD"
                                /\ state[t] # "NONE" => state'[t] # "NONE",
               pc'[Cleanup[c]] \in {pc[Cleanup[c]], "find", "rest"}
        PROVE  Lifetimes'
    <2>1. UNCHANGED <<tasks, dead, freed>>
      BY <1>3 DEF lifeVars
    <2>2. FreedOnceAndUnused'
      BY <1>3 DEF Lifetimes, FreedOnceAndUnused
    <2>3. \A t \in ToSet(tasks) : state'[t] # "NONE" /\ t \notin freed
      BY <1>2, <1>3 DEF Lifetimes
    <2>4. \A t \in freed \cap Tasks : state'[t] = "DEAD"
      BY <1>3 DEF Lifetimes
    <2>5. dead[c] # Null => /\ dead[c] \notin freed
                            /\ pc'[Cleanup[c]] = "remove" => dead[c] \in ToSet(tasks)
                            /\ pc'[Cleanup[c]] = "destroy" => dead[c] \notin ToSet(tasks)
      BY <1>3 DEF Lifetimes
    <2>6. QED
      BY <2>1, <2>2, <2>3, <2>4, <2>5, <1>1, <1>2 DEF Lifetimes
  <1>4. CASE \/ \E d \in Cpus : SchedStep(d)
             \/ \E d \in Cpus, t \in Tasks : TaskStep(d, t)
             \/ Tick /\ UNCHANGED lifeVars
    <2>1. /\ \A t \in Tasks : /\ state[t] = "DEAD" => state'[t] = "DEAD"
                              /\ state[t] # "NONE" => state'[t] # "NONE"
          /\ faults' \cap MemoryFaults = faults \cap MemoryFaults
          /\ \A d \in Cpus : pc'[Cleanup[d]] = pc[Cleanup[d]]
          /\ UNCHANGED lifeVars
      BY <1>4, DeadStaysDead
    <2>2. QED
      BY <2>1, <1>3
  <1>5. CASE UNCHANGED vars
    BY <1>3, <1>5 DEF vars, schedVars, taskVars
  <1>6. ASSUME NEW d \in Cpus, NEW t \in Tasks, Create(d, t) PROVE Lifetimes'
    <2>1. /\ UNCHANGED <<dead, freed, faults, pc>> /\ tasks' = Append(tasks, t)
          /\ state[t] = "NONE" /\ state' = [state EXCEPT ![t] = "READY"]
      BY <1>6 DEF Create, EnqueueNew
    <2>2. state'[t] = "READY" /\ \A u \in AllTasks : u # t => state'[u] = state[u]
      BY <2>1, <1>2
    <2>3. t \notin ToSet(tasks) /\ t \notin freed
      BY <2>1 DEF Lifetimes
    <2>4. /\ IsInjective(tasks')
          /\ \A x : x \in ToSet(tasks') <=> x \in ToSet(tasks) \/ x = t
      BY <2>1, <2>3, <1>2, AppendedQueue
    <2>5. \A u \in ToSet(tasks') : state'[u] # "NONE" /\ u \notin freed
      BY <2>2, <2>3, <2>4, <1>2 DEF Lifetimes
    <2>6. \A u \in freed \cap Tasks : state'[u] = "DEAD"
      BY <2>2, <2>3 DEF Lifetimes
    <2>7. dead[c] # Null => dead[c] # t
      BY <2>1 DEF IInv, CleanupOK
    <2>8. dead[c] # Null => /\ dead[c] \notin freed
                            /\ pc[Cleanup[c]] = "remove" => dead[c] \in ToSet(tasks')
                            /\ pc[Cleanup[c]] = "destroy" => dead[c] \notin ToSet(tasks')
      BY <2>4, <2>7 DEF Lifetimes
    <2>9. FreedOnceAndUnused'
      BY <2>1 DEF Lifetimes, FreedOnceAndUnused
    <2>10. QED
      BY <2>1, <2>4, <2>5, <2>6, <2>8, <2>9, <1>1 DEF Lifetimes
  <1>7. CASE FindDead(c)
    <2>1. PICK x \in Tasks \cup {Null} :
            /\ dead' = [dead EXCEPT ![c] = x]
            /\ Go(Cleanup[c], IF x = Null THEN "clear" ELSE "remove")
            /\ x # Null => state[x] = "DEAD" /\ x \in ToSet(tasks)
      BY <1>7, FoundIsDead
    <2>2. UNCHANGED <<state, tasks, freed, faults>>
      BY <1>7 DEF FindDead, taskVars
    <2>3. dead'[c] = x /\ pc'[Cleanup[c]] = IF x = Null THEN "clear" ELSE "remove"
      BY <2>1, <1>2 DEF Go
    <2>4. x # Null => x \notin freed
      BY <2>1 DEF Lifetimes
    <2>5. QED
      BY <2>1, <2>2, <2>3, <2>4, <1>1 DEF Lifetimes, FreedOnceAndUnused
  <1>8. CASE ClearCleanup(c)
    <2>1. UNCHANGED <<state, faults, lifeVars>> /\ pc' = [pc EXCEPT ![Cleanup[c]] = "rest"]
      BY <1>8 DEF ClearCleanup, taskVars, Go
    <2>2. pc'[Cleanup[c]] = "rest"
      BY <2>1, <1>2
    <2>3. QED
      BY <2>1, <2>2, <1>3
  <1>9. CASE CleanupYield(c)
    <2>1. UNCHANGED <<state, faults, lifeVars>> /\ pc' = [pc EXCEPT ![Cleanup[c]] = "find"]
      BY <1>9 DEF CleanupYield, taskVars, CallSwitch
    <2>2. pc'[Cleanup[c]] = "find"
      BY <2>1, <1>2
    <2>3. QED
      BY <2>1, <2>2, <1>3
  <1>10. CASE RemoveDead(c, "destroy")
    <2>1. /\ At(c, Cleanup[c], "remove") /\ dead[c] \in Tasks
          /\ tasks' = Unlink(tasks, dead[c])
          /\ Go(Cleanup[c], "destroy")
          /\ faults' = faults \cup (IF dead[c] \in freed THEN {"freed task used"} ELSE {})
          /\ UNCHANGED <<taskVars, queueVars, cpuVars, now, exiting, cpu, dead, freed>>
      BY <1>10, RemovedWaitsForNothing
    <2>2. dead[c] # Null /\ dead[c] \in ToSet(tasks) /\ dead[c] \notin freed
      BY <2>1 DEF Lifetimes, At
    <2>3. /\ IsInjective(tasks')
          /\ \A x : x \in ToSet(tasks') <=> x \in ToSet(tasks) /\ x # dead[c]
      BY <2>1, <2>2, <1>2, UnlinkedQueue
    <2>4. pc'[Cleanup[c]] = "destroy" /\ UNCHANGED <<state, dead, freed, faults>>
      BY <2>1, <2>2, <1>2 DEF Go, taskVars
    <2>5. QED
      BY <2>2, <2>3, <2>4, <1>1 DEF Lifetimes, FreedOnceAndUnused
  <1>11. CASE DestroyDead(c)
    <2>1. /\ At(c, Cleanup[c], "destroy") /\ CleanupOK(c)
          /\ freed' = freed \cup {dead[c]} /\ dead' = [dead EXCEPT ![c] = Null]
          /\ Go(Cleanup[c], "find") /\ UNCHANGED <<state, tasks>>
          /\ faults' = faults \cup
               (IF dead[c] \in freed THEN {"task freed twice"} ELSE {}) \cup
               (IF \E d \in Cpus : cpu[d] # "halted" /\ StackOf(d) = dead[c]
                THEN {"stack freed in use"} ELSE {})
      BY <1>11 DEF DestroyDead, IInv, taskVars
    <2>2. dead[c] \in Tasks /\ state[dead[c]] = "DEAD"
      <3>1. pc[Cleanup[c]] = "destroy" /\ dead[c] \in Tasks \cup {Null}
        BY <2>1, <1>2 DEF At
      <3>2. dead[c] # Null /\ state[dead[c]] = "DEAD"
        BY <2>1, <3>1 DEF CleanupOK
      <3>3. QED
        BY <3>1, <3>2
    <2>3. dead[c] # Null /\ dead[c] \notin freed /\ dead[c] \notin ToSet(tasks)
      BY <2>1, <2>2 DEF Lifetimes, At
    <2>4. StackOf(c) = Cleanup[c]
      BY <2>1 DEF At, Runs, StackOf
    <2>5. ~ \E d \in Cpus : cpu[d] # "halted" /\ StackOf(d) = dead[c]
      BY <2>2, <2>4, <1>1
    <2>6. UNCHANGED faults
      BY <2>1, <2>3, <2>5
    <2>7. dead'[c] = Null
      BY <2>1, <1>2
    <2>8. \A t \in ToSet(tasks) : state[t] # "NONE" /\ t \notin freed'
      BY <2>1, <2>3 DEF Lifetimes
    <2>9. \A t \in freed' \cap Tasks : state[t] = "DEAD"
      BY <2>1, <2>2 DEF Lifetimes
    <2>10. \A d \in Cpus : dead'[d] = Null
      BY <2>7, <1>1
    <2>11. IsInjective(tasks) /\ FreedOnceAndUnused'
      BY <2>6 DEF Lifetimes, FreedOnceAndUnused
    <2>12. QED
      BY <2>1, <2>8, <2>9, <2>10, <2>11 DEF Lifetimes
  <1>12. QED
    BY <1>1, <1>4, <1>5, <1>6, <1>7, <1>8, <1>9, <1>10, <1>11 DEF Next, CleanupStep

(* With one CPU the memory of a task is freed once, after the last use of  *)
(* its stack and with no reference left, for every number of tasks.  With  *)
(* more CPUs that is false: TLC's counterexample has two.                  *)
THEOREM FreedOnceOnOneCpu ==
    ASSUME Cpus = {BootCpu}
    PROVE  Spec => []FreedOnceAndUnused
  <1>1. Init => Lifetimes
    <2> SUFFICES ASSUME Init PROVE Lifetimes
      OBVIOUS
    <2>1. tasks = <<>> /\ freed = {} /\ dead = [c \in Cpus |-> Null] /\ faults = {}
      BY DEF Init, ManagerInit, SchedInit
    <2>2. QED
      BY <2>1 DEF Lifetimes, FreedOnceAndUnused, ToSet, IsInjective
  <1>2. IInv /\ Lifetimes /\ [Next]_vars => Lifetimes'
    BY LifetimesStep
  <1>3. Lifetimes => FreedOnceAndUnused
    BY DEF Lifetimes
  <1>4. QED
    BY <1>1, <1>2, <1>3, InvariantHolds, PTL DEF Spec
=============================================================================
