--------------------------- MODULE FDTableProofs ---------------------------
(***************************************************************************)
(* Files and descriptor tables, for every number of threads, tables, files *)
(* and slots: the reference count of a file is exactly the number of its   *)
(* references, no reference outlives its file, a file that nobody refers   *)
(* to is being released, and no slot or reaped table keeps a trace of an   *)
(* earlier use.                                                            *)
(***************************************************************************)
EXTENDS FDTable, FiniteSetTheorems, WellFoundedInduction, TLAPS

\* What a thread holds at each place of the code.
Dropping == {"write", "load", "exchange", "release"}

ThreadAt(a) ==
    /\ DOMAIN todo[a] # {} <=> pc[a] \in Dropping
    /\ mine[a] # Null <=> pc[a] = "reserved"
    /\ pc[a] = "exchange" => old[a] > 0
    /\ pc[a] = "release" => count[Current(a)] = 0
    /\ pc[a] \in {"user", "reserved", "write", "exited"} => victim[a] = Null
    /\ pc[a] = "destroy" => victim[a] # Null

ThreadControl == \A a \in Actors : ThreadAt(a)

\* A slot refers to a file only while that is installed, and a table that is
\* not in use, or is reaped by a thread, has none.
TableControl ==
    /\ \A t \in Tables, n \in Fds : files[t][n] \in Files => Installed(t, n)
    /\ \A t \in Tables : status[t] = "none" => \A n \in Fds : state[t][n] = "FREE"
    /\ \A a \in Actors : victim[a] # Null =>
        /\ status[victim[a]] # "none"
        /\ \A n \in Fds : state[victim[a]][n] = "FREE"
        /\ \A b \in Actors : TableOf[b] = victim[a] => pc[b] = "exited"

\* Only a live file is counted, and before the first process there is none.
LifeControl ==
    /\ \A f \in Files : life[f] # "live" => count[f] = 0
    /\ \A a \in Actors : pc[a] # "user" => status[TableOf[a]] # "none"
    /\ (\A t \in Tables : status[t] = "none") => \A f \in Files : life[f] = "unused"

\* The inductive invariant.
IInv ==
    /\ TypeOK
    /\ ThreadControl
    /\ TableControl
    /\ LifeControl
    /\ FlagOnlyWhileOpen
    /\ RefCountExact
    /\ NoUseAfterFree
    /\ LastDropReleases

-----------------------------------------------------------------------------
(* The slots are numbered from 0, and finitely many.                       *)
LEMMA FdsFinite == IsFiniteSet(Fds) /\ Fds \subseteq Nat /\ 0 \in Fds
  <1>1. IsFiniteSet(Fds)
    BY FDTableAssumption, FS_Interval DEF Fds
  <1>2. QED
    BY <1>1, FDTableAssumption DEF Fds

(* The search for the lowest of some slots finds one of them.              *)
LEMMA LowestIsOne ==
    ASSUME NEW S, S \subseteq Fds, S # {}
    PROVE  Lowest(S) \in S
  <1>1. \E n \in S : \A k \in S : ~ (<<k, n>> \in OpToRel(<, Nat))
    BY FdsFinite, NatLessThanWellFounded, WFMin
  <1>2. ASSUME NEW k \in Nat, NEW n \in Nat, k < n
        PROVE  <<k, n>> \in OpToRel(<, Nat)
    BY <1>2, Zenon DEF OpToRel
  <1>3. \E n \in S : \A k \in S : ~ (k < n)
    BY <1>1, <1>2, FdsFinite
  <1>4. \E n \in S : \A k \in S : n <= k
    BY <1>3, FdsFinite
  <1>5. QED
    BY <1>4 DEF Lowest

(* Two sets that differ in one element at most differ by that in size.     *)
LEMMA OneChange ==
    ASSUME NEW S, NEW T, NEW x, IsFiniteSet(S), \A y : y # x => (y \in T <=> y \in S)
    PROVE  /\ IsFiniteSet(T)
           /\ Cardinality(T) = Cardinality(S) - (IF x \in S THEN 1 ELSE 0)
                                              + (IF x \in T THEN 1 ELSE 0)
  <1>1. Cardinality(S) \in Nat
    BY FS_CardinalityType
  <1>2. CASE x \in S /\ x \in T
    <2>1. S = T
      BY <1>2
    <2>2. QED
      BY <1>1, <1>2, <2>1
  <1>3. CASE x \in S /\ x \notin T
    <2>1. T = S \ {x}
      BY <1>3
    <2>2. QED
      BY <1>1, <1>3, <2>1, FS_RemoveElement
  <1>4. CASE x \notin S /\ x \in T
    <2>1. T = S \cup {x}
      BY <1>4
    <2>2. QED
      BY <1>1, <1>4, <2>1, FS_AddElement
  <1>5. CASE x \notin S /\ x \notin T
    <2>1. S = T
      BY <1>5
    <2>2. QED
      BY <1>1, <1>5, <2>1
  <1>6. QED
    BY <1>2, <1>3, <1>4, <1>5

(* There are finitely many references.                                     *)
LEMMA RefsFinite ==
    ASSUME NEW f
    PROVE  IsFiniteSet(SlotRefs(f)) /\ IsFiniteSet(TodoRefs(f)) /\ IsFiniteSet(MineRefs(f))
  <1>1. IsFiniteSet(Tables \X Fds) /\ IsFiniteSet(Actors \X Fds) /\ IsFiniteSet(Actors)
    BY FdsFinite, FDTableAssumption, FS_Product
  <1>2. SlotRefs(f) \in SUBSET (Tables \X Fds)
    BY DEF SlotRefs
  <1>3. TodoRefs(f) \in SUBSET (Actors \X Fds)
    BY DEF TodoRefs
  <1>4. MineRefs(f) \in SUBSET Actors
    BY DEF MineRefs
  <1>5. QED
    BY <1>1, <1>2, <1>3, <1>4, FS_Subset

(* What is referred to is counted.                                         *)
LEMMA ReferredIsCounted ==
    ASSUME TypeOK, RefCountExact
    PROVE  /\ \A t \in Tables, n \in Fds :
                Installed(t, n) /\ files[t][n] \in Files => count[files[t][n]] >= 1
           /\ \A a \in Actors : \A n \in DOMAIN todo[a] :
                ~ (pc[a] = "release" /\ n = First(a)) => count[todo[a][n]] >= 1
           /\ \A a \in Actors : mine[a] \in Files => count[mine[a]] >= 1
  <1>1. ASSUME NEW f \in Files
        PROVE  /\ count[f] >= 0
               /\ count[f] = 0 => SlotRefs(f) = {} /\ TodoRefs(f) = {} /\ MineRefs(f) = {}
    <2>1. /\ Cardinality(SlotRefs(f)) \in Nat
          /\ Cardinality(TodoRefs(f)) \in Nat
          /\ Cardinality(MineRefs(f)) \in Nat
      BY RefsFinite, FS_CardinalityType
    <2>2. count[f] = 0 => /\ Cardinality(SlotRefs(f)) = 0
                          /\ Cardinality(TodoRefs(f)) = 0
                          /\ Cardinality(MineRefs(f)) = 0
      BY <1>1, <2>1 DEF RefCountExact
    <2>3. count[f] = 0 => SlotRefs(f) = {} /\ TodoRefs(f) = {} /\ MineRefs(f) = {}
      BY <2>2, RefsFinite, FS_EmptySet
    <2>4. QED
      BY <2>3 DEF TypeOK
  <1>2. ASSUME NEW t \in Tables, NEW n \in Fds, Installed(t, n), files[t][n] \in Files
        PROVE  count[files[t][n]] >= 1
    <2>1. <<t, n>> \in SlotRefs(files[t][n])
      BY <1>2 DEF SlotRefs
    <2>2. QED
      BY <1>1, <1>2, <2>1 DEF TypeOK
  <1>3. ASSUME NEW a \in Actors, NEW n \in DOMAIN todo[a], ~ (pc[a] = "release" /\ n = First(a))
        PROVE  count[todo[a][n]] >= 1
    <2>1. n \in Fds /\ todo[a][n] \in Files
      BY <1>3 DEF TypeOK
    <2>2. <<a, n>> \in TodoRefs(todo[a][n])
      BY <1>3, <2>1 DEF TodoRefs
    <2>3. QED
      BY <1>1, <1>3, <2>1, <2>2 DEF TypeOK
  <1>4. ASSUME NEW a \in Actors, mine[a] \in Files
        PROVE  count[mine[a]] >= 1
    <2>1. a \in MineRefs(mine[a])
      BY <1>4 DEF MineRefs
    <2>2. QED
      BY <1>1, <1>4, <2>1 DEF TypeOK
  <1>5. QED
    BY <1>2, <1>3, <1>4

(* A step that changes at most one slot, one pending drop and one new file *)
(* keeps the count exact if it changes it by the difference.               *)
LEMMA CountStep ==
    ASSUME NEW f \in Files, TypeOK, RefCountExact, NEW x, NEW y, NEW z,
           \A s : s # x => (s \in SlotRefs(f)' <=> s \in SlotRefs(f)),
           \A s : s # y => (s \in TodoRefs(f)' <=> s \in TodoRefs(f)),
           \A s : s # z => (s \in MineRefs(f)' <=> s \in MineRefs(f)),
           count'[f] = count[f] - (IF x \in SlotRefs(f) THEN 1 ELSE 0)
                                + (IF x \in SlotRefs(f)' THEN 1 ELSE 0)
                                - (IF y \in TodoRefs(f) THEN 1 ELSE 0)
                                + (IF y \in TodoRefs(f)' THEN 1 ELSE 0)
                                - (IF z \in MineRefs(f) THEN 1 ELSE 0)
                                + (IF z \in MineRefs(f)' THEN 1 ELSE 0)
    PROVE  count'[f] = Cardinality(SlotRefs(f)') + Cardinality(TodoRefs(f)')
                                                 + Cardinality(MineRefs(f)')
  <1>1. /\ Cardinality(SlotRefs(f)) \in Nat
        /\ Cardinality(TodoRefs(f)) \in Nat
        /\ Cardinality(MineRefs(f)) \in Nat
    BY RefsFinite, FS_CardinalityType
  <1>2. Cardinality(SlotRefs(f)') = Cardinality(SlotRefs(f))
            - (IF x \in SlotRefs(f) THEN 1 ELSE 0) + (IF x \in SlotRefs(f)' THEN 1 ELSE 0)
    BY RefsFinite, OneChange
  <1>3. Cardinality(TodoRefs(f)') = Cardinality(TodoRefs(f))
            - (IF y \in TodoRefs(f) THEN 1 ELSE 0) + (IF y \in TodoRefs(f)' THEN 1 ELSE 0)
    BY RefsFinite, OneChange
  <1>4. Cardinality(MineRefs(f)') = Cardinality(MineRefs(f))
            - (IF z \in MineRefs(f) THEN 1 ELSE 0) + (IF z \in MineRefs(f)' THEN 1 ELSE 0)
    BY RefsFinite, OneChange
  <1>5. count[f] = Cardinality(SlotRefs(f)) + Cardinality(TodoRefs(f)) + Cardinality(MineRefs(f))
    BY DEF RefCountExact
  <1>6. QED
    BY <1>1, <1>2, <1>3, <1>4, <1>5

(* The reference that a thread drops next is one to a live file.           *)
LEMMA CurrentIsPending ==
    ASSUME TypeOK, ThreadControl, NEW a \in Actors, pc[a] \in Dropping
    PROVE  First(a) \in DOMAIN todo[a] /\ First(a) \in Fds /\ Current(a) \in Files
  <1>1. First(a) \in DOMAIN todo[a]
    BY LowestIsOne DEF TypeOK, ThreadControl, ThreadAt, First
  <1>2. QED
    BY <1>1 DEF TypeOK, Current

-----------------------------------------------------------------------------
(* Nothing is open before the first process.                               *)
LEMMA InitIInv == Init => IInv
  <1> SUFFICES ASSUME Init PROVE IInv
    OBVIOUS
  <1>1. TypeOK
    BY FdsFinite, FDTableAssumption DEF Init, TypeOK, Nothing
  <1>2. \A a \in Actors : todo[a] = Nothing /\ DOMAIN todo[a] = {}
    BY DEF Init, Nothing
  <1>3. ThreadControl /\ TableControl /\ LifeControl
    BY <1>2, FDTableAssumption DEF Init, ThreadControl, ThreadAt, TableControl, LifeControl, Dropping
  <1>4. FlagOnlyWhileOpen /\ NoUseAfterFree /\ LastDropReleases
    BY <1>2, FDTableAssumption DEF Init, FlagOnlyWhileOpen, NoUseAfterFree, LastDropReleases
  <1>5. ASSUME NEW f \in Files
        PROVE  SlotRefs(f) = {} /\ TodoRefs(f) = {} /\ MineRefs(f) = {}
    BY <1>2, <1>5, FDTableAssumption DEF Init, SlotRefs, TodoRefs, MineRefs, Installed
  <1>6. RefCountExact
    <2>1. ASSUME NEW f \in Files
          PROVE  /\ Cardinality(SlotRefs(f)) = 0
                 /\ Cardinality(TodoRefs(f)) = 0
                 /\ Cardinality(MineRefs(f)) = 0
      BY <1>5, FS_EmptySet
    <2>2. QED
      BY <2>1 DEF Init, RefCountExact
  <1>7. QED
    BY <1>1, <1>3, <1>4, <1>6 DEF IInv

(* The first process: each file that was made is in one of its slots.      *)
LEMMA CreateRootKeeps ==
    ASSUME IInv, CreateRoot
    PROVE  IInv'
  <1>0. PICK made \in [StdFds -> Files \union (IF "file" \in Failures THEN {Err} ELSE {})] :
            /\ \A m, n \in StdFds : made[m] = made[n] => m = n \/ made[m] = Err
            /\ state' = [state EXCEPT ![Root] =
                            [n \in Fds |-> IF n \in StdFds THEN "INSTALLED" ELSE "FREE"]]
            /\ files' = [files EXCEPT ![Root] =
                            [n \in Fds |-> IF n \in StdFds THEN made[n] ELSE Null]]
            /\ life' = [f \in Files |-> IF f \in Range(made) THEN "live" ELSE "unused"]
            /\ count' = [f \in Files |-> IF f \in Range(made) THEN 1 ELSE 0]
    BY DEF CreateRoot
  <1>1. StdFds \subseteq Fds /\ Root \in Tables /\ Null \notin Files /\ Err \notin Files
    BY FDTableAssumption DEF Fds
  <1>2. /\ \A t \in Tables : status[t] = "none"
        /\ status' = [status EXCEPT ![Root] = "live"]
        /\ UNCHANGED <<coe, pc, fd, mine, todo, old, victim>>
    BY DEF CreateRoot
  <1>3. \A a \in Actors : pc[a] = "user" /\ DOMAIN todo[a] = {} /\ mine[a] = Null /\ victim[a] = Null
    BY <1>2, FDTableAssumption DEF IInv, LifeControl, ThreadControl, ThreadAt, Dropping
  <1>4. \A f \in Files : life[f] = "unused" /\ count[f] = 0
    BY <1>2 DEF IInv, LifeControl
  <1>5. \A t \in Tables, n \in Fds : state[t][n] = "FREE" /\ files[t][n] \notin Files /\ ~ coe[t][n]
    BY <1>2 DEF IInv, TableControl, FlagOnlyWhileOpen, Installed
  <1>6. TypeOK'
    BY <1>0, <1>1, <1>2 DEF IInv, TypeOK
  <1>7. \A t \in Tables, n \in Fds :
            /\ Installed(t, n)' <=> t = Root /\ n \in StdFds
            /\ files'[t][n] = IF t = Root THEN (IF n \in StdFds THEN made[n] ELSE Null)
                                          ELSE files[t][n]
    BY <1>0, <1>1, <1>5 DEF IInv, TypeOK, Installed
  <1>8. ThreadControl' /\ TableControl' /\ LifeControl'
    BY <1>0, <1>1, <1>2, <1>3, <1>5, <1>7
       DEF IInv, TypeOK, ThreadControl, ThreadAt, TableControl, LifeControl, Dropping, Installed
  <1>9. FlagOnlyWhileOpen'
    BY <1>2, <1>5 DEF FlagOnlyWhileOpen
  <1>10. NoUseAfterFree'
    BY <1>0, <1>1, <1>2, <1>3, <1>5, <1>7 DEF NoUseAfterFree, Range
  <1>11. LastDropReleases'
    BY <1>0 DEF LastDropReleases
  <1>12. ASSUME NEW f \in Files
         PROVE  count'[f] = Cardinality(SlotRefs(f)') + Cardinality(TodoRefs(f)')
                                                      + Cardinality(MineRefs(f)')
    <2>1. TodoRefs(f)' = {} /\ MineRefs(f)' = {}
      BY <1>1, <1>2, <1>3, <1>12 DEF TodoRefs, MineRefs
    <2>2. CASE f \in Range(made)
      <3>1. PICK n \in StdFds : made[n] = f
        BY <2>2 DEF Range
      <3>2. ASSUME NEW s
            PROVE  s \in SlotRefs(f)' <=> s = <<Root, n>>
        <4>1. ASSUME s \in SlotRefs(f)'
              PROVE  s = <<Root, n>>
          <5>1. s[1] \in Tables /\ s[2] \in Fds /\ s = <<s[1], s[2]>>
            BY <4>1 DEF SlotRefs
          <5>2. Installed(s[1], s[2])' /\ files'[s[1]][s[2]] = f
            BY <4>1 DEF SlotRefs
          <5>3. s[1] = Root /\ s[2] \in StdFds /\ made[s[2]] = f
            BY <1>7, <5>1, <5>2
          <5>4. s[2] = n
            BY <1>0, <1>1, <3>1, <5>3
          <5>5. QED
            BY <5>1, <5>3, <5>4
        <4>2. <<Root, n>> \in SlotRefs(f)'
          BY <1>1, <1>7, <3>1 DEF SlotRefs
        <4>3. QED
          BY <4>1, <4>2
      <3>3. SlotRefs(f)' = {<<Root, n>>}
        BY <3>2
      <3>4. /\ Cardinality(SlotRefs(f)') = 1
            /\ Cardinality(TodoRefs(f)') = 0
            /\ Cardinality(MineRefs(f)') = 0
        BY <2>1, <3>3, FS_EmptySet, FS_Singleton, Zenon
      <3>5. count'[f] = 1
        BY <1>0, <2>2
      <3>6. QED
        BY <3>4, <3>5
    <2>3. CASE f \notin Range(made)
      <3>1. \A t \in Tables, n \in Fds : ~ (Installed(t, n)' /\ files'[t][n] = f)
        BY <1>7, <2>3 DEF Range
      <3>2. SlotRefs(f)' = {}
        BY <3>1 DEF SlotRefs
      <3>3. QED
        BY <1>0, <2>1, <2>3, <3>2, FS_EmptySet
    <2>4. QED
      BY <2>2, <2>3
  <1>13. RefCountExact'
    BY <1>12 DEF RefCountExact
  <1>14. QED
    BY <1>6, <1>8, <1>9, <1>10, <1>11, <1>13 DEF IInv

(* A step of thread a that changes at most slot x of its table.            *)
OnlyThread(a) ==
    \A b \in Actors \ {a} :
        /\ pc'[b] = pc[b] /\ mine'[b] = mine[b] /\ todo'[b] = todo[b]
        /\ old'[b] = old[b] /\ victim'[b] = victim[b]

OnlySlot(t, x) ==
    \A s \in Tables, n \in Fds :
        <<s, n>> # <<t, x>> =>
            state'[s][n] = state[s][n] /\ files'[s][n] = files[s][n] /\ coe'[s][n] = coe[s][n]

\* The references of the thread are to live files.
HoldsLive(a) ==
    /\ \A n \in DOMAIN todo[a] : life[todo[a][n]] = "live"
    /\ mine[a] # Null => life[mine[a]] = "live"

\* Thread a is at the release of f.
Released(a, f) == pc[a] = "release" /\ Current(a) = f

(* What such a step has to show of its thread, its slot and its files, and *)
(* that the rest of the invariant follows.                                 *)
LEMMA ThreadStep ==
    ASSUME IInv, NEW a \in Actors, NEW x \in Fds, TypeOK', RefCountExact',
           UNCHANGED status, status[TableOf[a]] # "none",
           OnlyThread(a), OnlySlot(TableOf[a], x), pc[a] # "exited",
           files'[TableOf[a]][x] \in Files =>
                Installed(TableOf[a], x)' /\ life'[files'[TableOf[a]][x]] = "live",
           coe'[TableOf[a]][x] => Installed(TableOf[a], x)',
           ThreadAt(a)', HoldsLive(a)',
           victim'[a] = victim[a],
           \A f \in Files : life[f] = "live" => life'[f] = "live" \/ Released(a, f),
           \A f \in Files : life[f] = "live" /\ count[f] = 0 => count'[f] = 0,
           \A f \in Files : life'[f] # "live" => count'[f] = 0,
           \A f \in Files : life'[f] = "live" /\ count'[f] = 0 =>
                \/ pc'[a] = "release" /\ Current(a)' = f
                \/ life[f] = "live" /\ count[f] = 0 /\ ~ Released(a, f),
           pc'[a] = "release" => Current(a)' \in Files /\ count[Current(a)'] # 0
    PROVE  IInv'
  <1> DEFINE t == TableOf[a]
  <1>1. t \in Tables /\ Null \notin Files \union Tables
    BY FDTableAssumption
  <1>2. \A b \in Actors \ {a} : Current(b)' = Current(b) /\ First(b)' = First(b)
    BY DEF OnlyThread, Current, First
  <1>3. \A b \in Actors : pc[b] = "release" =>
            Current(b) \in Files /\ life[Current(b)] = "live" /\ count[Current(b)] = 0
    BY CurrentIsPending DEF IInv, ThreadControl, ThreadAt, NoUseAfterFree, Dropping, Current
  <1>4. ThreadControl'
    <2> SUFFICES ASSUME NEW b \in Actors \ {a} PROVE ThreadAt(b)'
      BY DEF ThreadControl
    <2>1. ThreadAt(b)
      BY DEF IInv, ThreadControl
    <2>2. pc[b] = "release" => count'[Current(b)] = 0
      BY <1>3
    <2>3. QED
      BY <1>2, <2>1, <2>2 DEF OnlyThread, ThreadAt
  <1>5. TableControl'
    <2>1. \A s \in Tables, n \in Fds : files'[s][n] \in Files => Installed(s, n)'
      BY DEF OnlySlot, Installed, IInv, TableControl
    <2>2. \A s \in Tables : status'[s] = "none" => \A n \in Fds : state'[s][n] = "FREE"
      BY <1>1 DEF OnlySlot, IInv, TableControl
    <2>3. ASSUME NEW b \in Actors, victim'[b] # Null
          PROVE  /\ status'[victim'[b]] # "none"
                 /\ \A n \in Fds : state'[victim'[b]][n] = "FREE"
                 /\ \A c \in Actors : TableOf[c] = victim'[b] => pc'[c] = "exited"
      <3>1. victim'[b] = victim[b] /\ victim[b] \in Tables
        BY <2>3 DEF OnlyThread, IInv, TypeOK
      <3>2. /\ status[victim[b]] # "none"
            /\ \A n \in Fds : state[victim[b]][n] = "FREE"
            /\ \A c \in Actors : TableOf[c] = victim[b] => pc[c] = "exited"
        BY <2>3, <3>1 DEF IInv, TableControl
      <3>3. victim[b] # t
        BY <3>2
      <3>4. QED
        BY <1>1, <3>1, <3>2, <3>3 DEF OnlySlot, OnlyThread
    <2>4. QED
      BY <2>1, <2>2, <2>3 DEF TableControl
  <1>6. LifeControl'
    BY <1>1 DEF IInv, LifeControl, OnlyThread
  <1>7. FlagOnlyWhileOpen'
    BY <1>1 DEF OnlySlot, IInv, FlagOnlyWhileOpen, Installed
  <1>8. NoUseAfterFree'
    <2>0. \A f \in Files : Released(a, f) => count[f] = 0
      BY <1>3 DEF Released
    <2>1. ASSUME NEW s \in Tables, NEW n \in Fds, files'[s][n] \in Files
          PROVE  life'[files'[s][n]] = "live"
      <3>1. CASE s = t /\ n = x
        BY <2>1, <3>1
      <3>2. CASE ~ (s = t /\ n = x)
        <4>1. files'[s][n] = files[s][n] /\ files[s][n] \in Files
          BY <2>1, <3>2 DEF OnlySlot
        <4>2. Installed(s, n) /\ life[files[s][n]] = "live"
          BY <4>1 DEF IInv, TableControl, NoUseAfterFree
        <4>3. count[files[s][n]] >= 1
          BY <4>1, <4>2, ReferredIsCounted DEF IInv
        <4>4. QED
          BY <2>0, <4>1, <4>2, <4>3 DEF IInv, TypeOK
      <3>3. QED
        BY <3>1, <3>2
    <2>2. ASSUME NEW b \in Actors \ {a}
          PROVE  HoldsLive(b)'
      <3>1. HoldsLive(b)
        BY DEF IInv, NoUseAfterFree, HoldsLive
      <3>2. \A n \in DOMAIN todo[b] : todo[b][n] \in Files
        BY DEF IInv, TypeOK
      <3>3. mine[b] # Null => mine[b] \in Files
        BY DEF IInv, TypeOK
      <3>4. \A n \in DOMAIN todo[b] : ~ Released(a, todo[b][n])
        <4> SUFFICES ASSUME NEW n \in DOMAIN todo[b], Released(a, todo[b][n]) PROVE FALSE
          OBVIOUS
        <4>1. count[todo[b][n]] = 0
          BY <2>0, <3>2
        <4>2. pc[b] = "release" /\ n = First(b)
          BY <4>1, ReferredIsCounted DEF IInv
        <4>3. QED
          BY <4>2 DEF Released, Current, IInv, NoUseAfterFree
      <3>5. mine[b] # Null => ~ Released(a, mine[b])
        BY <2>0, <3>3, ReferredIsCounted DEF IInv
      <3>6. QED
        BY <3>1, <3>2, <3>3, <3>4, <3>5 DEF HoldsLive, OnlyThread
    <2>3. ASSUME NEW b \in Actors, NEW c \in Actors, pc'[b] = "release", pc'[c] = "release",
                 Current(b)' = Current(c)'
          PROVE  b = c
      <3>1. \A d \in Actors \ {a} : pc'[d] = "release" => pc[d] = "release" /\ count[Current(d)'] = 0
        BY <1>2, <1>3 DEF OnlyThread
      <3>2. CASE b # a /\ c # a
        BY <1>2, <2>3, <3>2 DEF OnlyThread, IInv, NoUseAfterFree
      <3>3. QED
        BY <2>3, <3>1, <3>2
    <2>4. QED
      BY <2>1, <2>2, <2>3 DEF NoUseAfterFree, HoldsLive
  <1>9. LastDropReleases'
    <2> SUFFICES ASSUME NEW f \in Files, life'[f] = "live", count'[f] = 0
                 PROVE  \E b \in Actors : pc'[b] = "release" /\ Current(b)' = f
      BY DEF LastDropReleases
    <2>1. CASE life[f] = "live" /\ count[f] = 0 /\ ~ Released(a, f)
      <3>1. PICK b \in Actors : pc[b] = "release" /\ Current(b) = f
        BY <2>1 DEF IInv, LastDropReleases
      <3>2. QED
        BY <1>2, <2>1, <3>1 DEF OnlyThread, Released
    <2>2. QED
      BY <2>1
  <1>10. QED
    BY <1>4, <1>5, <1>6, <1>7, <1>8, <1>9 DEF IInv

(* The reference number n that thread a is to drop is one to f.            *)
Pending(a, n, f) ==
    n \in DOMAIN todo[a] /\ todo[a][n] = f /\ ~ (pc[a] = "release" /\ n = First(a))

(* Such a step keeps the counts exact if it changes at most one pending    *)
(* drop and adds to each count what it adds to the references.             *)
LEMMA ThreadCount ==
    ASSUME IInv, NEW a \in Actors, NEW x \in Fds, NEW k \in Fds,
           OnlyThread(a), OnlySlot(TableOf[a], x),
           \A f \in Files, n \in Fds \ {k} : Pending(a, n, f)' <=> Pending(a, n, f),
           \A f \in Files :
                LET t == TableOf[a]
                IN  count'[f] = count[f]
                        - (IF Installed(t, x) /\ files[t][x] = f THEN 1 ELSE 0)
                        + (IF Installed(t, x)' /\ files'[t][x] = f THEN 1 ELSE 0)
                        - (IF Pending(a, k, f) THEN 1 ELSE 0)
                        + (IF Pending(a, k, f)' THEN 1 ELSE 0)
                        - (IF mine[a] = f THEN 1 ELSE 0)
                        + (IF mine'[a] = f THEN 1 ELSE 0)
    PROVE  RefCountExact'
  <1> DEFINE t == TableOf[a]
  <1>1. t \in Tables
    BY FDTableAssumption
  <1> SUFFICES ASSUME NEW f \in Files
               PROVE  count'[f] = Cardinality(SlotRefs(f)') + Cardinality(TodoRefs(f)')
                                                            + Cardinality(MineRefs(f)')
    BY DEF RefCountExact
  <1>2. <<t, x>> \in SlotRefs(f) <=> Installed(t, x) /\ files[t][x] = f
    BY <1>1 DEF SlotRefs
  <1>3. <<t, x>> \in SlotRefs(f)' <=> Installed(t, x)' /\ files'[t][x] = f
    BY <1>1 DEF SlotRefs
  <1>4. ASSUME NEW s, s # <<t, x>>
        PROVE  s \in SlotRefs(f)' <=> s \in SlotRefs(f)
    BY <1>4 DEF SlotRefs, OnlySlot, Installed
  <1>5. <<a, k>> \in TodoRefs(f) <=> Pending(a, k, f)
    BY DEF TodoRefs, Pending
  <1>6. <<a, k>> \in TodoRefs(f)' <=> Pending(a, k, f)'
    BY DEF TodoRefs, Pending
  <1>7. ASSUME NEW s, s # <<a, k>>
        PROVE  s \in TodoRefs(f)' <=> s \in TodoRefs(f)
    <2> SUFFICES ASSUME NEW b \in Actors, NEW n \in Fds, s = <<b, n>>
                 PROVE  s \in TodoRefs(f)' <=> s \in TodoRefs(f)
      BY DEF TodoRefs
    <2>1. s \in TodoRefs(f) <=> Pending(b, n, f)
      BY DEF TodoRefs, Pending
    <2>2. s \in TodoRefs(f)' <=> Pending(b, n, f)'
      BY DEF TodoRefs, Pending
    <2>3. CASE b = a
      BY <1>7, <2>1, <2>2, <2>3
    <2>4. CASE b # a
      BY <2>1, <2>2, <2>4 DEF Pending, First, OnlyThread
    <2>5. QED
      BY <2>3, <2>4
  <1>8. a \in MineRefs(f) <=> mine[a] = f
    BY DEF MineRefs
  <1>9. a \in MineRefs(f)' <=> mine'[a] = f
    BY DEF MineRefs
  <1>10. ASSUME NEW s, s # a
         PROVE  s \in MineRefs(f)' <=> s \in MineRefs(f)
    BY <1>10 DEF MineRefs, OnlyThread
  <1>11. count'[f] = count[f] - (IF <<t, x>> \in SlotRefs(f) THEN 1 ELSE 0)
                              + (IF <<t, x>> \in SlotRefs(f)' THEN 1 ELSE 0)
                              - (IF <<a, k>> \in TodoRefs(f) THEN 1 ELSE 0)
                              + (IF <<a, k>> \in TodoRefs(f)' THEN 1 ELSE 0)
                              - (IF a \in MineRefs(f) THEN 1 ELSE 0)
                              + (IF a \in MineRefs(f)' THEN 1 ELSE 0)
    BY <1>2, <1>3, <1>5, <1>6, <1>8, <1>9
  <1>12. QED
    BY <1>4, <1>7, <1>10, <1>11, CountStep DEF IInv

(* An assignment to one element of a table of tables.                      *)
LEMMA SetAt ==
    ASSUME NEW D, NEW E, NEW R, NEW F \in [D -> [E -> R]], NEW d \in D, NEW e \in E, NEW v \in R
    PROVE  /\ [F EXCEPT ![d][e] = v] \in [D -> [E -> R]]
           /\ [F EXCEPT ![d][e] = v][d][e] = v
           /\ \A i \in D, j \in E : <<i, j>> # <<d, e>> => [F EXCEPT ![d][e] = v][i][j] = F[i][j]
  OBVIOUS

(* What SetSlot does to the table.                                         *)
SlotSet(t, n, s, f, c) ==
    /\ state' \in [Tables -> [Fds -> {"FREE", "RESERVED", "INSTALLED"}]]
    /\ files' \in [Tables -> [Fds -> Files \union {Null, Err}]]
    /\ coe' \in [Tables -> [Fds -> BOOLEAN]]
    /\ state'[t][n] = s /\ files'[t][n] = f /\ coe'[t][n] = c
    /\ OnlySlot(t, n)

LEMMA SlotIsSet ==
    ASSUME IInv, NEW t \in Tables, NEW n \in Fds, NEW s \in {"FREE", "RESERVED", "INSTALLED"},
           NEW f \in Files \union {Null, Err}, NEW c \in BOOLEAN, SetSlot(t, n, s, f, c)
    PROVE  SlotSet(t, n, s, f, c)
  <1>1. /\ state \in [Tables -> [Fds -> {"FREE", "RESERVED", "INSTALLED"}]]
        /\ files \in [Tables -> [Fds -> Files \union {Null, Err}]]
        /\ coe \in [Tables -> [Fds -> BOOLEAN]]
    BY DEF IInv, TypeOK
  <1>2. /\ state' \in [Tables -> [Fds -> {"FREE", "RESERVED", "INSTALLED"}]]
        /\ state'[t][n] = s
        /\ \A i \in Tables, j \in Fds : <<i, j>> # <<t, n>> => state'[i][j] = state[i][j]
    BY <1>1 DEF SetSlot
  <1>3. /\ files' \in [Tables -> [Fds -> Files \union {Null, Err}]]
        /\ files'[t][n] = f
        /\ \A i \in Tables, j \in Fds : <<i, j>> # <<t, n>> => files'[i][j] = files[i][j]
    BY <1>1 DEF SetSlot
  <1>4. /\ coe' \in [Tables -> [Fds -> BOOLEAN]]
        /\ coe'[t][n] = c
        /\ \A i \in Tables, j \in Fds : <<i, j>> # <<t, n>> => coe'[i][j] = coe[i][j]
    BY <1>1 DEF SetSlot
  <1>5. QED
    BY <1>2, <1>3, <1>4 DEF SlotSet, OnlySlot

(* A thread in its process holds nothing, and its process has a table.     *)
LEMMA UserHoldsNothing ==
    ASSUME IInv, NEW a \in Actors, InUser(a)
    PROVE  /\ pc[a] = "user" /\ DOMAIN todo[a] = {} /\ mine[a] = Null /\ victim[a] = Null
           /\ TableOf[a] \in Tables /\ status[TableOf[a]] = "live"
           /\ \A n, f : ~ Pending(a, n, f)
  BY FDTableAssumption DEF IInv, ThreadControl, ThreadAt, InUser, Dropping, Pending

-----------------------------------------------------------------------------
(* One lemma for each system call and each step of the kernel.             *)
LEMMA SilentStep ==
    ASSUME IInv, NEW a \in Actors, UNCHANGED <<status, state, files, life, count, mine, todo, victim>>,
           OnlyThread(a), NEW x \in Fds, OnlySlot(TableOf[a], x),
           coe'[TableOf[a]][x] => Installed(TableOf[a], x),
           status[TableOf[a]] # "none",
           pc[a] \notin {"release", "exited"}, pc'[a] # "release", TypeOK', ThreadAt(a)'
    PROVE  IInv'
  <1>1. \A f \in Files : SlotRefs(f)' = SlotRefs(f) /\ MineRefs(f)' = MineRefs(f)
    BY DEF SlotRefs, MineRefs, Installed
  <1>2. \A b \in Actors : pc'[b] = "release" <=> pc[b] = "release"
    BY DEF OnlyThread
  <1>3. \A f \in Files : TodoRefs(f)' = TodoRefs(f)
    BY <1>2 DEF TodoRefs, First
  <1>4. RefCountExact'
    BY <1>1, <1>3 DEF IInv, RefCountExact
  <1>5. HoldsLive(a)'
    BY DEF IInv, NoUseAfterFree, HoldsLive
  <1>6. TableOf[a] \in Tables
    BY FDTableAssumption
  <1>7. QED
    BY <1>4, <1>5, <1>6, ThreadStep
       DEF IInv, TableControl, NoUseAfterFree, LifeControl, Installed, Released

LEMMA WriteFileKeeps ==
    ASSUME IInv, NEW a \in Actors, WriteFile(a)
    PROVE  IInv'
  <1>1. /\ pc[a] = "write" /\ pc' = [pc EXCEPT ![a] = "load"]
        /\ UNCHANGED <<status, state, files, coe, life, count, fd, mine, todo, old, victim>>
    BY DEF WriteFile, tableVars, fileVars
  <1>2. pc'[a] = "load" /\ OnlyThread(a) /\ OnlySlot(TableOf[a], 0) /\ 0 \in Fds
    BY <1>1, FdsFinite DEF OnlyThread, OnlySlot, IInv, TypeOK
  <1>3. TypeOK'
    BY <1>1 DEF IInv, TypeOK
  <1>4. TableOf[a] \in Tables /\ status[TableOf[a]] # "none"
    BY <1>1, FDTableAssumption DEF IInv, LifeControl
  <1>5. ThreadAt(a)'
    BY <1>1, <1>2 DEF IInv, ThreadControl, ThreadAt, Dropping
  <1>6. QED
    BY <1>1, <1>2, <1>3, <1>4, <1>5, SilentStep DEF IInv, FlagOnlyWhileOpen

LEMMA ExitKeeps ==
    ASSUME IInv, NEW a \in Actors, Exit(a)
    PROVE  IInv'
  <1>1. /\ InUser(a) /\ pc' = [pc EXCEPT ![a] = "exited"]
        /\ UNCHANGED <<status, state, files, coe, life, count, fd, mine, todo, old, victim>>
    BY DEF Exit, tableVars, fileVars
  <1>2. pc'[a] = "exited" /\ OnlyThread(a) /\ OnlySlot(TableOf[a], 0) /\ 0 \in Fds
    BY <1>1, FdsFinite DEF OnlyThread, OnlySlot, IInv, TypeOK
  <1>3. TypeOK'
    BY <1>1 DEF IInv, TypeOK
  <1>4. TableOf[a] \in Tables /\ status[TableOf[a]] # "none" /\ pc[a] = "user"
    BY <1>1, FDTableAssumption DEF InUser
  <1>5. ThreadAt(a)'
    BY <1>1, <1>2, <1>4 DEF IInv, ThreadControl, ThreadAt, Dropping
  <1>6. QED
    BY <1>1, <1>2, <1>3, <1>4, <1>5, SilentStep DEF IInv, FlagOnlyWhileOpen

LEMMA SetCloseOnExecKeeps ==
    ASSUME IInv, NEW a \in Actors, NEW n \in Fds, NEW c \in BOOLEAN, SetCloseOnExec(a, n, c)
    PROVE  IInv'
  <1>1. /\ InUser(a) /\ Installed(TableOf[a], n) /\ coe' = [coe EXCEPT ![TableOf[a]][n] = c]
        /\ UNCHANGED <<status, state, files, life, count, pc, fd, mine, todo, old, victim>>
    BY DEF SetCloseOnExec, tableVars, fileVars
  <1>2. TableOf[a] \in Tables /\ status[TableOf[a]] # "none" /\ pc[a] = "user"
    BY <1>1, FDTableAssumption DEF InUser
  <1>3. coe \in [Tables -> [Fds -> BOOLEAN]]
    BY DEF IInv, TypeOK
  <1>4. /\ coe' \in [Tables -> [Fds -> BOOLEAN]]
        /\ \A i \in Tables, j \in Fds : <<i, j>> # <<TableOf[a], n>> => coe'[i][j] = coe[i][j]
    BY <1>1, <1>2, <1>3, SetAt
  <1>5. TypeOK'
    BY <1>1, <1>4 DEF IInv, TypeOK
  <1>6. OnlyThread(a) /\ OnlySlot(TableOf[a], n)
    BY <1>1, <1>4 DEF OnlyThread, OnlySlot
  <1>7. ThreadAt(a)'
    BY <1>1 DEF IInv, ThreadControl, ThreadAt, Current, First
  <1>8. QED
    BY <1>1, <1>2, <1>5, <1>6, <1>7, SilentStep

(* After a drop the thread has the other references left.                  *)
LEMMA DroppedLeaves ==
    ASSUME IInv, NEW a \in Actors, pc[a] \in Dropping, Dropped(a)
    PROVE  /\ DOMAIN todo' = Actors
           /\ \A b \in Actors \ {a} : todo'[b] = todo[b] /\ pc'[b] = pc[b]
           /\ DOMAIN todo'[a] = DOMAIN todo[a] \ {First(a)}
           /\ \A n \in DOMAIN todo'[a] : todo'[a][n] = todo[a][n]
           /\ todo'[a] \in [DOMAIN todo'[a] -> Files]
           /\ pc' \in [Actors -> {"user", "reserved", "write", "load", "exchange",
                                  "release", "destroy", "exited", "panic"}]
           /\ pc'[a] = IF DOMAIN todo'[a] # {} THEN "load"
                       ELSE IF victim[a] # Null THEN "destroy" ELSE "user"
  <1> DEFINE rest == DOMAIN todo[a] \ {First(a)}
  <1>1. /\ todo' = [todo EXCEPT ![a] = [n \in rest |-> todo[a][n]]]
        /\ pc' = [pc EXCEPT ![a] = IF rest # {} THEN "load"
                                   ELSE IF victim[a] # Null THEN "destroy" ELSE "user"]
    BY DEF Dropped
  <1> HIDE DEF rest
  <1>2. DOMAIN todo = Actors /\ todo[a] \in [DOMAIN todo[a] -> Files]
    BY DEF IInv, TypeOK
  <1>3. todo'[a] = [n \in rest |-> todo[a][n]]
    BY <1>1, <1>2
  <1>4. DOMAIN todo'[a] = rest
    BY <1>3
  <1>5. pc \in [Actors -> {"user", "reserved", "write", "load", "exchange",
                                  "release", "destroy", "exited", "panic"}]
    BY DEF IInv, TypeOK
  <1>6. todo'[a] \in [rest -> Files]
    BY <1>2, <1>3 DEF rest
  <1>7. \A n \in rest : todo'[a][n] = todo[a][n]
    BY <1>3
  <1>8. QED
    BY <1>1, <1>2, <1>4, <1>5, <1>6, <1>7 DEF rest

(* With a reference of its own the thread never finds the count at 0.      *)
LEMMA PutLoadKeeps ==
    ASSUME IInv, NEW a \in Actors, PutLoad(a)
    PROVE  IInv'
  <1>1. pc[a] = "load" /\ First(a) \in DOMAIN todo[a] /\ Current(a) \in Files
    BY CurrentIsPending DEF PutLoad, IInv, Dropping
  <1>2. count[Current(a)] \in Nat /\ count[Current(a)] >= 1
    BY <1>1, ReferredIsCounted DEF IInv, TypeOK, Current
  <1>3. /\ old' = [old EXCEPT ![a] = count[Current(a)]]
        /\ pc' = [pc EXCEPT ![a] = "exchange"]
        /\ UNCHANGED <<status, state, files, coe, life, count, fd, mine, todo, victim>>
    BY <1>2 DEF PutLoad, tableVars, fileVars
  <1>4. pc'[a] = "exchange" /\ old'[a] = count[Current(a)]
        /\ OnlyThread(a) /\ OnlySlot(TableOf[a], 0) /\ 0 \in Fds
    BY <1>3, FdsFinite DEF OnlyThread, OnlySlot, IInv, TypeOK
  <1>5. TypeOK'
    BY <1>2, <1>3 DEF IInv, TypeOK
  <1>6. TableOf[a] \in Tables /\ status[TableOf[a]] # "none"
    BY <1>1, FDTableAssumption DEF IInv, LifeControl
  <1>7. ThreadAt(a)'
    BY <1>1, <1>2, <1>3, <1>4 DEF IInv, ThreadControl, ThreadAt, Dropping
  <1>8. QED
    BY <1>1, <1>3, <1>4, <1>5, <1>6, <1>7, SilentStep DEF IInv, FlagOnlyWhileOpen

(* The exchange succeeds only against the count that was read: it takes    *)
(* one reference away, and the thread that takes the last one releases.    *)
LEMMA PutExchangeKeeps ==
    ASSUME IInv, NEW a \in Actors, PutExchange(a)
    PROVE  IInv'
  <1>0. pc[a] = "exchange" /\ First(a) \in DOMAIN todo[a] /\ First(a) \in Fds /\ Current(a) \in Files
    BY CurrentIsPending DEF PutExchange, IInv, Dropping
  <1> PICK k \in Fds, f \in Files : k = First(a) /\ f = Current(a)
    BY <1>0
  <1>1. pc[a] = "exchange" /\ k \in DOMAIN todo[a] /\ todo[a][k] = f
    BY <1>0 DEF Current
  <1>2. count[f] \in Nat /\ count[f] >= 1 /\ old[a] \in Nat /\ old[a] >= 1 /\ life[f] = "live"
    BY <1>1, ReferredIsCounted
       DEF IInv, TypeOK, ThreadControl, ThreadAt, NoUseAfterFree, Current
  <1>3. TableOf[a] \in Tables /\ status[TableOf[a]] # "none" /\ 0 \in Fds
    BY <1>1, FDTableAssumption, FdsFinite DEF IInv, LifeControl
  <1>4. UNCHANGED <<status, state, files, coe, life, fd, mine, victim>>
    BY DEF PutExchange, tableVars
  <1>5. OnlySlot(TableOf[a], 0)
    BY <1>4 DEF OnlySlot
  <1>6. CASE count[f] # old[a]
    <2>1. /\ old' = [old EXCEPT ![a] = count[f]]
          /\ UNCHANGED <<count, pc, todo>>
      BY <1>2, <1>6 DEF PutExchange
    <2>2. OnlyThread(a) /\ old'[a] = count[f]
      BY <1>4, <2>1 DEF OnlyThread, IInv, TypeOK
    <2>3. TypeOK'
      BY <1>2, <1>4, <2>1 DEF IInv, TypeOK
    <2>4. ThreadAt(a)'
      BY <1>1, <1>2, <1>4, <2>1, <2>2 DEF IInv, ThreadControl, ThreadAt
    <2>5. QED
      BY <1>1, <1>3, <1>4, <1>5, <2>1, <2>2, <2>3, <2>4, SilentStep DEF IInv, FlagOnlyWhileOpen
  <1>7. CASE count[f] = old[a]
    <2>1. /\ count' = [count EXCEPT ![f] = old[a] - 1]
          /\ old' = [old EXCEPT ![a] = 0]
          /\ IF old[a] = 1
             THEN pc' = [pc EXCEPT ![a] = "release"] /\ UNCHANGED todo
             ELSE Dropped(a)
      BY <1>7 DEF PutExchange
    <2>2. \A g \in Files : count'[g] = IF g = f THEN count[f] - 1 ELSE count[g]
      BY <1>1, <1>2, <1>7, <2>1 DEF IInv, TypeOK
    <2>3. pc[a] \in Dropping /\ pc \in [Actors -> {"user", "reserved", "write", "load", "exchange",
                                  "release", "destroy", "exited", "panic"}]
      BY <1>1 DEF Dropping, IInv, TypeOK
    <2>4. /\ \A b \in Actors \ {a} : todo'[b] = todo[b] /\ pc'[b] = pc[b]
          /\ DOMAIN todo' = Actors
          /\ todo'[a] \in [DOMAIN todo'[a] -> Files]
          /\ DOMAIN todo'[a] \subseteq Fds
          /\ pc' \in [Actors -> {"user", "reserved", "write", "load", "exchange",
                                  "release", "destroy", "exited", "panic"}]
          /\ pc'[a] \notin {"write", "exchange", "reserved", "exited"}
      <3>1. CASE old[a] = 1
        BY <2>1, <2>3, <3>1 DEF IInv, TypeOK
      <3>2. CASE old[a] # 1
        <4>1. Dropped(a)
          BY <2>1, <3>2
        <4>2. /\ DOMAIN todo' = Actors
              /\ \A b \in Actors \ {a} : todo'[b] = todo[b] /\ pc'[b] = pc[b]
              /\ DOMAIN todo'[a] = DOMAIN todo[a] \ {First(a)}
              /\ todo'[a] \in [DOMAIN todo'[a] -> Files]
              /\ pc' \in [Actors -> {"user", "reserved", "write", "load", "exchange",
                                      "release", "destroy", "exited", "panic"}]
              /\ pc'[a] = IF DOMAIN todo'[a] # {} THEN "load"
                          ELSE IF victim[a] # Null THEN "destroy" ELSE "user"
          BY <2>3, <4>1, DroppedLeaves
        <4>3. DOMAIN todo'[a] \subseteq Fds
          BY <4>2 DEF IInv, TypeOK
        <4>4. pc'[a] \in {"load", "destroy", "user"}
          BY <4>2, Zenon
        <4>5. QED
          BY <4>2, <4>3, <4>4
      <3>3. QED
        BY <3>1, <3>2
    <2>5. OnlyThread(a)
      BY <1>4, <2>1, <2>4 DEF OnlyThread, IInv, TypeOK
    <2>6. TypeOK'
      <3>1. count' \in [Files -> Nat] /\ old' \in [Actors -> Nat]
        <4>1. old[a] - 1 \in Nat
          BY <1>2
        <4>2. QED
          BY <2>1, <4>1 DEF IInv, TypeOK
      <3>2. \A b \in Actors : DOMAIN todo'[b] \subseteq Fds /\ todo'[b] \in [DOMAIN todo'[b] -> Files]
        BY <2>4 DEF IInv, TypeOK
      <3>3. QED
        BY <1>4, <2>4, <3>1, <3>2 DEF IInv, TypeOK
    <2>7. \A g \in Files, n \in Fds \ {k} : Pending(a, n, g)' <=> Pending(a, n, g)
      <3>1. CASE old[a] = 1
        <4>1. todo' = todo /\ First(a)' = k
          BY <2>1, <3>1 DEF First
        <4>2. QED
          BY <1>1, <4>1 DEF Pending
      <3>2. CASE old[a] # 1
        <4>1. /\ DOMAIN todo'[a] = DOMAIN todo[a] \ {k}
              /\ \A n \in DOMAIN todo'[a] : todo'[a][n] = todo[a][n]
              /\ pc'[a] # "release"
          BY <2>1, <2>3, <3>2, DroppedLeaves
        <4>2. QED
          BY <1>1, <4>1 DEF Pending
      <3>3. QED
        BY <3>1, <3>2
    <2>8. \A g \in Files : Pending(a, k, g) <=> g = f
      BY <1>1 DEF Pending, Current
    <2>9. \A g \in Files : ~ Pending(a, k, g)'
      <3>1. CASE old[a] = 1
        <4>1. pc'[a] = "release" /\ First(a)' = k
          BY <2>1, <2>3, <3>1 DEF First
        <4>2. QED
          BY <4>1 DEF Pending
      <3>2. CASE old[a] # 1
        <4>1. DOMAIN todo'[a] = DOMAIN todo[a] \ {k}
          BY <2>1, <2>3, <3>2, DroppedLeaves
        <4>2. QED
          BY <4>1 DEF Pending
      <3>3. QED
        BY <3>1, <3>2
    <2>10. RefCountExact'
      <3>1. \A g \in Files : count'[g] = count[g] - (IF Pending(a, k, g) THEN 1 ELSE 0)
                                                 + (IF Pending(a, k, g)' THEN 1 ELSE 0)
        BY <1>2, <2>2, <2>8, <2>9 DEF IInv, TypeOK
      <3>2. \A g \in Files : count[g] \in Nat
        BY DEF IInv, TypeOK
      <3>3. (Installed(TableOf[a], 0) <=> Installed(TableOf[a], 0)') /\ UNCHANGED <<files, mine>>
        BY <1>4 DEF Installed
      <3>4. QED
        BY <1>1, <1>3, <1>5, <2>5, <2>7, <3>1, <3>2, <3>3, ThreadCount
    <2>11. old[a] = 1 => Current(a)' = f /\ pc'[a] = "release"
      BY <2>1, <2>3 DEF Current, First
    <2>12. old[a] # 1 => /\ pc'[a] = IF DOMAIN todo'[a] # {} THEN "load"
                                     ELSE IF victim[a] # Null THEN "destroy" ELSE "user"
                         /\ DOMAIN todo'[a] \subseteq DOMAIN todo[a]
                         /\ \A n \in DOMAIN todo'[a] : todo'[a][n] = todo[a][n]
      BY <2>1, <2>3, DroppedLeaves
    <2>13. ThreadAt(a)'
      <3>1. CASE old[a] = 1
        BY <1>1, <1>4, <1>7, <2>1, <2>2, <2>11, <3>1 DEF IInv, ThreadControl, ThreadAt, Dropping
      <3>2. CASE old[a] # 1
        BY <1>1, <1>4, <2>12, <3>2 DEF IInv, ThreadControl, ThreadAt, Dropping
      <3>3. QED
        BY <3>1, <3>2
    <2>14. HoldsLive(a)'
      BY <1>4, <2>1, <2>12 DEF IInv, NoUseAfterFree, HoldsLive
    <2>15. \A g \in Files : life[g] # "live" \/ count[g] = 0 => g # f
      BY <1>2
    <2>16. pc'[a] = "release" => old[a] = 1
      BY <2>12
    <2>17. \A g \in Files : count'[g] = 0 => (g = f /\ old[a] = 1) \/ (g # f /\ count[g] = 0)
      BY <1>2, <1>7, <2>2
    <2>18. QED
      BY <1>1, <1>2, <1>3, <1>4, <1>5, <1>7, <2>2, <2>5, <2>6, <2>10, <2>11, <2>13, <2>14, <2>15,
         <2>16, <2>17, ThreadStep
         DEF IInv, TableControl, NoUseAfterFree, FlagOnlyWhileOpen, LifeControl, Installed, Released
  <1>8. QED
    BY <1>6, <1>7

(* The file that is released has no reference left.                        *)
LEMMA ReleaseKeeps ==
    ASSUME IInv, NEW a \in Actors, Release(a)
    PROVE  IInv'
  <1>0. pc[a] = "release" /\ First(a) \in DOMAIN todo[a] /\ First(a) \in Fds /\ Current(a) \in Files
    BY CurrentIsPending DEF Release, IInv, Dropping
  <1> PICK k \in Fds, f \in Files : k = First(a) /\ f = Current(a)
    BY <1>0
  <1>1. k \in DOMAIN todo[a] /\ todo[a][k] = f /\ pc[a] \in Dropping
    BY <1>0 DEF Current, Dropping
  <1>2. count[f] = 0
    BY <1>0 DEF IInv, ThreadControl, ThreadAt
  <1>3. TableOf[a] \in Tables /\ status[TableOf[a]] # "none" /\ 0 \in Fds
    BY <1>0, FDTableAssumption, FdsFinite DEF IInv, LifeControl
  <1>4. /\ UNCHANGED <<status, state, files, coe, count, fd, mine, old, victim>>
        /\ life' = [life EXCEPT ![f] = "freed"]
        /\ Dropped(a)
    BY DEF Release, tableVars
  <1>5. /\ DOMAIN todo' = Actors
        /\ \A b \in Actors \ {a} : todo'[b] = todo[b] /\ pc'[b] = pc[b]
        /\ DOMAIN todo'[a] = DOMAIN todo[a] \ {k}
        /\ \A n \in DOMAIN todo'[a] : todo'[a][n] = todo[a][n]
        /\ todo'[a] \in [DOMAIN todo'[a] -> Files]
        /\ pc' \in [Actors -> {"user", "reserved", "write", "load", "exchange",
                               "release", "destroy", "exited", "panic"}]
        /\ pc'[a] = IF DOMAIN todo'[a] # {} THEN "load"
                    ELSE IF victim[a] # Null THEN "destroy" ELSE "user"
    BY <1>1, <1>4, DroppedLeaves
  <1>6. OnlySlot(TableOf[a], 0) /\ OnlyThread(a)
    BY <1>4, <1>5 DEF OnlySlot, OnlyThread
  <1>7. TypeOK'
    <2>1. \A b \in Actors : DOMAIN todo'[b] \subseteq Fds /\ todo'[b] \in [DOMAIN todo'[b] -> Files]
      BY <1>5 DEF IInv, TypeOK
    <2>2. QED
      BY <1>4, <1>5, <2>1 DEF IInv, TypeOK
  <1>8. \A g \in Files : ~ Pending(a, k, g) /\ ~ Pending(a, k, g)'
    BY <1>0, <1>5 DEF Pending
  <1>9. \A g \in Files, n \in Fds \ {k} : Pending(a, n, g)' <=> Pending(a, n, g)
    BY <1>5 DEF Pending
  <1>10. RefCountExact'
    <2>1. (Installed(TableOf[a], 0) <=> Installed(TableOf[a], 0)') /\ UNCHANGED <<files, mine>>
      BY <1>4 DEF Installed
    <2>2. \A g \in Files : count[g] \in Nat
      BY DEF IInv, TypeOK
    <2>3. QED
      BY <1>3, <1>4, <1>6, <1>8, <1>9, <2>1, <2>2, ThreadCount
  <1>11. ThreadAt(a)'
    BY <1>0, <1>4, <1>5 DEF IInv, ThreadControl, ThreadAt, Dropping
  <1>12. ASSUME NEW n \in DOMAIN todo'[a]
         PROVE  todo[a][n] \in Files /\ todo[a][n] # f
    <2>1. n \in DOMAIN todo[a] /\ n # First(a)
      BY <1>5
    <2>2. count[todo[a][n]] >= 1
      BY <2>1, ReferredIsCounted DEF IInv
    <2>3. QED
      BY <1>2, <2>1, <2>2 DEF IInv, TypeOK
  <1>13. HoldsLive(a)'
    <2>1. \A n \in DOMAIN todo'[a] : life'[todo'[a][n]] = "live"
      BY <1>4, <1>5, <1>12 DEF IInv, TypeOK, NoUseAfterFree
    <2>2. mine'[a] = Null
      BY <1>0, <1>4 DEF IInv, ThreadControl, ThreadAt
    <2>3. QED
      BY <2>1, <2>2 DEF HoldsLive
  <1>14. files'[TableOf[a]][0] \in Files =>
            Installed(TableOf[a], 0)' /\ life'[files'[TableOf[a]][0]] = "live"
    <2> SUFFICES ASSUME files[TableOf[a]][0] \in Files
                 PROVE  Installed(TableOf[a], 0)' /\ life'[files[TableOf[a]][0]] = "live"
      BY <1>4
    <2>1. Installed(TableOf[a], 0) /\ life[files[TableOf[a]][0]] = "live"
      BY <1>3 DEF IInv, TableControl, NoUseAfterFree
    <2>2. count[files[TableOf[a]][0]] >= 1
      BY <1>3, <2>1, ReferredIsCounted DEF IInv
    <2>3. QED
      BY <1>2, <1>4, <2>1, <2>2 DEF IInv, TypeOK, Installed
  <1>15. coe'[TableOf[a]][0] => Installed(TableOf[a], 0)'
    BY <1>3, <1>4 DEF IInv, FlagOnlyWhileOpen, Installed
  <1>16. \A g \in Files : life'[g] = IF g = f THEN "freed" ELSE life[g]
    BY <1>4 DEF IInv, TypeOK
  <1>17. Released(a, f) /\ pc'[a] # "release" /\ pc[a] # "exited" /\ \A g \in Files : g # f => ~ Released(a, g)
    BY <1>0, <1>5 DEF Released
  <1>18. \A g \in Files : life'[g] # "live" => count'[g] = 0
    BY <1>2, <1>4, <1>16 DEF IInv, LifeControl
  <1>19. QED
    BY <1>3, <1>4, <1>6, <1>7, <1>10, <1>11, <1>13, <1>14, <1>15, <1>16, <1>17, <1>18, ThreadStep

(* A thread that holds nothing takes one reference to drop.                *)
LEMMA TakesOne ==
    ASSUME IInv, NEW a \in Actors, NEW f \in Files, todo' = [todo EXCEPT ![a] = One(f)]
    PROVE  /\ DOMAIN todo' = Actors
           /\ \A b \in Actors : DOMAIN todo'[b] \subseteq Fds /\ todo'[b] \in [DOMAIN todo'[b] -> Files]
           /\ \A b \in Actors \ {a} : todo'[b] = todo[b]
           /\ DOMAIN todo'[a] = {0} /\ todo'[a][0] = f
  <1>1. DOMAIN One(f) = {0} /\ One(f)[0] = f /\ One(f) \in [{0} -> Files]
    BY DEF One
  <1>2. DOMAIN todo = Actors
    BY DEF IInv, TypeOK
  <1>3. todo'[a] = One(f) /\ DOMAIN todo' = Actors /\ \A b \in Actors \ {a} : todo'[b] = todo[b]
    BY <1>2
  <1>4. QED
    BY <1>1, <1>3, FdsFinite DEF IInv, TypeOK

(* write: the thread gets a reference of its own.                          *)
LEMMA GetFileKeeps ==
    ASSUME IInv, NEW a \in Actors, NEW n \in Fds, GetFile(a, n)
    PROVE  IInv'
  <1> DEFINE t == TableOf[a]
  <1>0. /\ InUser(a) /\ Installed(t, n) /\ files[t][n] \in Files
        /\ count' = [count EXCEPT ![files[t][n]] = @ + 1]
        /\ todo' = [todo EXCEPT ![a] = One(files[t][n])]
        /\ pc' = [pc EXCEPT ![a] = "write"]
        /\ UNCHANGED <<status, state, files, coe, life, fd, mine, old, victim>>
    BY DEF GetFile, FileGet, tableVars
  <1> PICK f \in Files : f = files[t][n]
    BY <1>0
  <1>1. /\ pc[a] = "user" /\ mine[a] = Null /\ victim[a] = Null /\ t \in Tables /\ status[t] # "none"
        /\ \A k, g : ~ Pending(a, k, g)
    BY <1>0, UserHoldsNothing
  <1>2. /\ DOMAIN todo' = Actors
        /\ \A b \in Actors : DOMAIN todo'[b] \subseteq Fds /\ todo'[b] \in [DOMAIN todo'[b] -> Files]
        /\ \A b \in Actors \ {a} : todo'[b] = todo[b]
        /\ DOMAIN todo'[a] = {0} /\ todo'[a][0] = f
    BY <1>0, TakesOne
  <1>3. life[f] = "live" /\ count[f] >= 1 /\ \A g \in Files : count[g] \in Nat
    BY <1>0, <1>1, ReferredIsCounted DEF IInv, TypeOK, NoUseAfterFree
  <1>4. \A g \in Files : count'[g] = IF g = f THEN count[g] + 1 ELSE count[g]
    BY <1>0 DEF IInv, TypeOK
  <1>5. TypeOK'
    <2>1. count' \in [Files -> Nat]
      BY <1>0, <1>3 DEF IInv, TypeOK
    <2>2. QED
      BY <1>0, <1>2, <2>1 DEF IInv, TypeOK
  <1>6. pc'[a] = "write" /\ OnlyThread(a) /\ OnlySlot(t, n)
    BY <1>0, <1>2 DEF OnlyThread, OnlySlot, IInv, TypeOK
  <1>7. RefCountExact'
    <2>1. \A g \in Files : Pending(a, 0, g)' <=> g = f
      BY <1>2, <1>6 DEF Pending
    <2>2. \A g \in Files, k \in Fds \ {0} : ~ Pending(a, k, g)'
      BY <1>2 DEF Pending
    <2>3. (Installed(t, n) <=> Installed(t, n)') /\ UNCHANGED <<files, mine>> /\ 0 \in Fds
      BY <1>0, FdsFinite DEF Installed
    <2>4. QED
      BY <1>1, <1>3, <1>4, <1>6, <2>1, <2>2, <2>3, ThreadCount
  <1>8. ThreadAt(a)' /\ HoldsLive(a)'
    BY <1>0, <1>1, <1>2, <1>3, <1>6 DEF ThreadAt, HoldsLive, Dropping
  <1>9. QED
    BY <1>0, <1>1, <1>3, <1>4, <1>5, <1>6, <1>7, <1>8, ThreadStep
       DEF IInv, TableControl, NoUseAfterFree, FlagOnlyWhileOpen, LifeControl, Installed, Released

(* close: the reference of the slot becomes one to drop.                   *)
LEMMA CloseFileKeeps ==
    ASSUME IInv, NEW a \in Actors, NEW n \in Fds, CloseFile(a, n)
    PROVE  IInv'
  <1> DEFINE t == TableOf[a]
  <1>0. /\ InUser(a) /\ Installed(t, n) /\ files[t][n] \in Files
        /\ SetSlot(t, n, "FREE", Null, FALSE)
        /\ PutNext(a, One(files[t][n]))
        /\ UNCHANGED <<status, life, count, fd, mine, old, victim>>
    BY DEF CloseFile, fileVars
  <1> PICK f \in Files : f = files[t][n]
    BY <1>0
  <1>1. /\ pc[a] = "user" /\ mine[a] = Null /\ victim[a] = Null /\ t \in Tables /\ status[t] # "none"
        /\ \A k, g : ~ Pending(a, k, g)
    BY <1>0, UserHoldsNothing
  <1>2. /\ DOMAIN todo' = Actors
        /\ \A b \in Actors : DOMAIN todo'[b] \subseteq Fds /\ todo'[b] \in [DOMAIN todo'[b] -> Files]
        /\ \A b \in Actors \ {a} : todo'[b] = todo[b]
        /\ DOMAIN todo'[a] = {0} /\ todo'[a][0] = f
    BY <1>0, TakesOne DEF PutNext
  <1>3. pc' = [pc EXCEPT ![a] = "load"] /\ pc'[a] = "load"
    BY <1>0 DEF PutNext, One, IInv, TypeOK
  <1>4. SlotSet(t, n, "FREE", Null, FALSE)
    BY <1>0, <1>1, SlotIsSet
  <1>5. TypeOK'
    BY <1>0, <1>2, <1>3, <1>4 DEF IInv, TypeOK, SlotSet
  <1>6. OnlyThread(a) /\ OnlySlot(t, n)
    BY <1>0, <1>2, <1>3, <1>4 DEF OnlyThread, SlotSet, IInv, TypeOK
  <1>7. life[f] = "live" /\ \A g \in Files : count[g] \in Nat
    BY <1>0, <1>1 DEF IInv, TypeOK, NoUseAfterFree
  <1>8. RefCountExact'
    <2>1. \A g \in Files : Pending(a, 0, g)' <=> g = f
      BY <1>2, <1>3 DEF Pending
    <2>2. \A g \in Files, k \in Fds \ {0} : ~ Pending(a, k, g)'
      BY <1>2 DEF Pending
    <2>3. ~ Installed(t, n)' /\ UNCHANGED <<mine, count>> /\ 0 \in Fds
      BY <1>0, <1>4, FdsFinite DEF Installed, SlotSet
    <2>4. QED
      BY <1>0, <1>1, <1>6, <1>7, <2>1, <2>2, <2>3, ThreadCount
  <1>9. ThreadAt(a)' /\ HoldsLive(a)'
    BY <1>0, <1>1, <1>2, <1>3, <1>7 DEF ThreadAt, HoldsLive, Dropping
  <1>10. files'[t][n] \notin Files /\ coe'[t][n] = FALSE
    BY <1>4, FDTableAssumption DEF SlotSet
  <1>11. QED
    BY <1>0, <1>1, <1>3, <1>5, <1>6, <1>8, <1>9, <1>10, ThreadStep DEF IInv, LifeControl, Released

(* dup: another slot of the table refers to the file.                      *)
LEMMA DupKeeps ==
    ASSUME IInv, NEW a \in Actors, NEW n \in Fds, Dup(a, n)
    PROVE  IInv'
  <1> DEFINE t == TableOf[a]
  <1>0. /\ InUser(a) /\ Installed(t, n) /\ files[t][n] \in Files /\ FreeFrom(t, 0) # {}
        /\ SetSlot(t, Lowest(FreeFrom(t, 0)), "INSTALLED", files[t][n], FALSE)
        /\ count' = [count EXCEPT ![files[t][n]] = @ + 1]
        /\ UNCHANGED <<status, life, pc, fd, mine, todo, old, victim>>
    BY DEF Dup, FileGet
  <1>1. Lowest(FreeFrom(t, 0)) \in FreeFrom(t, 0)
    BY <1>0, LowestIsOne DEF FreeFrom
  <1> PICK f \in Files, x \in Fds : f = files[t][n] /\ x = Lowest(FreeFrom(t, 0)) /\ state[t][x] = "FREE"
    BY <1>0, <1>1 DEF FreeFrom
  <1>2. /\ pc[a] = "user" /\ mine[a] = Null /\ victim[a] = Null /\ t \in Tables /\ status[t] # "none"
        /\ \A k, g : ~ Pending(a, k, g)
    BY <1>0, UserHoldsNothing
  <1>3. life[f] = "live" /\ count[f] >= 1 /\ \A g \in Files : count[g] \in Nat
    BY <1>0, <1>2, ReferredIsCounted DEF IInv, TypeOK, NoUseAfterFree
  <1>4. \A g \in Files : count'[g] = IF g = f THEN count[g] + 1 ELSE count[g]
    BY <1>0 DEF IInv, TypeOK
  <1>5. SlotSet(t, x, "INSTALLED", f, FALSE)
    BY <1>0, <1>2, SlotIsSet
  <1>6. TypeOK'
    <2>1. count' \in [Files -> Nat]
      BY <1>0, <1>3 DEF IInv, TypeOK
    <2>2. QED
      BY <1>0, <1>5, <2>1 DEF IInv, TypeOK, SlotSet
  <1>7. OnlyThread(a) /\ OnlySlot(t, x)
    BY <1>0, <1>5 DEF OnlyThread, SlotSet
  <1>8. ~ Installed(t, x) /\ Installed(t, x)' /\ files'[t][x] = f /\ ~ coe'[t][x]
    BY <1>5 DEF SlotSet, Installed
  <1>9. RefCountExact'
    <2>1. \A g \in Files, k \in Fds : ~ Pending(a, k, g)'
      BY <1>0, <1>2 DEF Pending, First
    <2>2. UNCHANGED mine /\ 0 \in Fds
      BY <1>0, FdsFinite
    <2>3. QED
      BY <1>2, <1>3, <1>4, <1>7, <1>8, <2>1, <2>2, ThreadCount
  <1>10. ThreadAt(a)' /\ HoldsLive(a)'
    BY <1>0, <1>2 DEF IInv, NoUseAfterFree, ThreadControl, ThreadAt, HoldsLive, Dropping
  <1>11. QED
    BY <1>0, <1>2, <1>3, <1>4, <1>6, <1>7, <1>8, <1>9, <1>10, ThreadStep DEF IInv, LifeControl, Released

(* dup2 and dup3: the reference of the replaced file becomes one to drop.  *)
LEMMA DupAtKeeps ==
    ASSUME IInv, NEW a \in Actors, NEW m \in Fds, NEW n \in Fds, NEW c \in BOOLEAN, DupAt(a, m, n, c)
    PROVE  IInv'
  <1> DEFINE t == TableOf[a]
  <1>0. /\ InUser(a) /\ Installed(t, m) /\ m # n /\ files[t][m] \in Files
        /\ Installed(t, n) => files[t][n] \in Files
        /\ SetSlot(t, n, "INSTALLED", files[t][m], c)
        /\ count' = [count EXCEPT ![files[t][m]] = @ + 1]
        /\ IF Installed(t, n) THEN PutNext(a, One(files[t][n])) ELSE UNCHANGED <<pc, todo>>
        /\ UNCHANGED <<status, life, fd, mine, old, victim>>
    BY DEF DupAt, FileGet, Usable
  <1> PICK f \in Files : f = files[t][m]
    BY <1>0
  <1>1. /\ pc[a] = "user" /\ mine[a] = Null /\ victim[a] = Null /\ t \in Tables /\ status[t] # "none"
        /\ \A k, g : ~ Pending(a, k, g)
    BY <1>0, UserHoldsNothing
  <1>2. life[f] = "live" /\ count[f] >= 1 /\ \A g \in Files : count[g] \in Nat
    BY <1>0, <1>1, ReferredIsCounted DEF IInv, TypeOK, NoUseAfterFree
  <1>3. \A g \in Files : count'[g] = IF g = f THEN count[g] + 1 ELSE count[g]
    BY <1>0 DEF IInv, TypeOK
  <1>4. SlotSet(t, n, "INSTALLED", f, c)
    BY <1>0, <1>1, SlotIsSet
  <1>5. count' \in [Files -> Nat]
    BY <1>0, <1>2 DEF IInv, TypeOK
  <1>6. Installed(t, n)' /\ files'[t][n] = f /\ OnlySlot(t, n) /\ 0 \in Fds
    BY <1>4, FdsFinite DEF SlotSet, Installed
  <1>7. CASE ~ Installed(t, n)
    <2>1. TypeOK'
      BY <1>0, <1>4, <1>5, <1>7 DEF IInv, TypeOK, SlotSet
    <2>2. OnlyThread(a)
      BY <1>0, <1>7 DEF OnlyThread
    <2>3. \A g \in Files, k \in Fds : ~ Pending(a, k, g)'
      BY <1>0, <1>1, <1>7 DEF Pending, First
    <2>4. RefCountExact'
      BY <1>0, <1>1, <1>2, <1>3, <1>6, <1>7, <2>2, <2>3, ThreadCount
    <2>5. ThreadAt(a)' /\ HoldsLive(a)'
      BY <1>0, <1>1, <1>7 DEF IInv, NoUseAfterFree, ThreadControl, ThreadAt, HoldsLive, Dropping
    <2>6. QED
      BY <1>0, <1>1, <1>2, <1>3, <1>6, <1>7, <2>1, <2>2, <2>4, <2>5, ThreadStep
         DEF IInv, LifeControl, Released
  <1>8. CASE Installed(t, n)
    <2> PICK h \in Files : h = files[t][n]
      BY <1>0, <1>8
    <2>0. todo' = [todo EXCEPT ![a] = One(h)] /\ pc' = [pc EXCEPT ![a] = "load"] /\ pc'[a] = "load"
      BY <1>0, <1>8 DEF PutNext, One, IInv, TypeOK
    <2>1. /\ DOMAIN todo' = Actors
          /\ \A b \in Actors : DOMAIN todo'[b] \subseteq Fds /\ todo'[b] \in [DOMAIN todo'[b] -> Files]
          /\ \A b \in Actors \ {a} : todo'[b] = todo[b]
          /\ DOMAIN todo'[a] = {0} /\ todo'[a][0] = h
      BY <2>0, TakesOne
    <2>2. TypeOK'
      BY <1>0, <1>4, <1>5, <2>0, <2>1 DEF IInv, TypeOK, SlotSet
    <2>3. OnlyThread(a)
      BY <1>0, <2>0, <2>1 DEF OnlyThread, IInv, TypeOK
    <2>4. life[h] = "live"
      BY <1>1 DEF IInv, NoUseAfterFree
    <2>5. RefCountExact'
      <3>1. \A g \in Files : Pending(a, 0, g)' <=> g = h
        BY <2>0, <2>1 DEF Pending
      <3>2. \A g \in Files, k \in Fds \ {0} : ~ Pending(a, k, g)'
        BY <2>1 DEF Pending
      <3>3. QED
        BY <1>0, <1>1, <1>2, <1>3, <1>6, <1>8, <2>3, <3>1, <3>2, ThreadCount
    <2>6. ThreadAt(a)' /\ HoldsLive(a)'
      BY <1>0, <1>1, <2>0, <2>1, <2>4 DEF ThreadAt, HoldsLive, Dropping
    <2>7. QED
      BY <1>0, <1>1, <1>2, <1>3, <1>6, <2>0, <2>2, <2>3, <2>5, <2>6, ThreadStep
         DEF IInv, LifeControl, Released
  <1>9. QED
    BY <1>7, <1>8

(* A new file has one reference, in the hands of the thread, or, when all  *)
(* slots are taken, one to drop.                                           *)
LEMMA ReserveKeeps ==
    ASSUME IInv, NEW a \in Actors, NEW m \in Fds, Reserve(a, m)
    PROVE  IInv'
  <1> DEFINE t == TableOf[a]
  <1>0. PICK f \in Files :
            /\ InUser(a)
            /\ life[f] = "unused"
            /\ life' = [life EXCEPT ![f] = "live"]
            /\ count' = [count EXCEPT ![f] = 1]
            /\ IF FreeFrom(t, m) = {}
               THEN /\ PutNext(a, One(f))
                    /\ UNCHANGED <<state, files, fd, mine>>
               ELSE /\ state' = [state EXCEPT ![t][Lowest(FreeFrom(t, m))] = "RESERVED"]
                    /\ files' = [files EXCEPT ![t][Lowest(FreeFrom(t, m))] = Null]
                    /\ fd' = [fd EXCEPT ![a] = Lowest(FreeFrom(t, m))]
                    /\ mine' = [mine EXCEPT ![a] = f]
                    /\ pc' = [pc EXCEPT ![a] = "reserved"]
                    /\ UNCHANGED todo
            /\ UNCHANGED <<status, coe, old, victim>>
    BY DEF Reserve
  <1>1. /\ pc[a] = "user" /\ mine[a] = Null /\ victim[a] = Null /\ t \in Tables /\ status[t] # "none"
        /\ \A k, g : ~ Pending(a, k, g)
        /\ DOMAIN todo[a] = {}
    BY <1>0, UserHoldsNothing
  <1>2. count[f] = 0 /\ \A g \in Files : count[g] \in Nat
    BY <1>0 DEF IInv, LifeControl, TypeOK
  <1>3. \A g \in Files : count'[g] = (IF g = f THEN count[g] + 1 ELSE count[g])
                         /\ life'[g] = IF g = f THEN "live" ELSE life[g]
    BY <1>0, <1>2 DEF IInv, TypeOK
  <1>4. count' \in [Files -> Nat] /\ life' \in [Files -> {"unused", "live", "freed"}]
    BY <1>0 DEF IInv, TypeOK
  <1>5. 0 \in Fds /\ Null \notin Files
    BY FdsFinite, FDTableAssumption
  <1>6. CASE FreeFrom(t, m) = {}
    <2>0. /\ todo' = [todo EXCEPT ![a] = One(f)] /\ pc' = [pc EXCEPT ![a] = "load"] /\ pc'[a] = "load"
          /\ UNCHANGED <<state, files, fd, mine>>
      BY <1>0, <1>6 DEF PutNext, One, IInv, TypeOK
    <2>1. /\ DOMAIN todo' = Actors
          /\ \A b \in Actors : DOMAIN todo'[b] \subseteq Fds /\ todo'[b] \in [DOMAIN todo'[b] -> Files]
          /\ \A b \in Actors \ {a} : todo'[b] = todo[b]
          /\ DOMAIN todo'[a] = {0} /\ todo'[a][0] = f
      BY <2>0, TakesOne
    <2>2. TypeOK'
      BY <1>0, <1>4, <2>0, <2>1 DEF IInv, TypeOK
    <2>3. OnlyThread(a) /\ OnlySlot(t, 0)
      BY <1>0, <2>0, <2>1 DEF OnlyThread, OnlySlot, IInv, TypeOK
    <2>4. RefCountExact'
      <3>1. \A g \in Files : Pending(a, 0, g)' <=> g = f
        BY <2>0, <2>1 DEF Pending
      <3>2. \A g \in Files, k \in Fds \ {0} : ~ Pending(a, k, g)'
        BY <2>1 DEF Pending
      <3>3. (Installed(t, 0)' <=> Installed(t, 0)) /\ UNCHANGED <<files, mine>>
        BY <2>0 DEF Installed
      <3>4. QED
        BY <1>1, <1>2, <1>3, <1>5, <2>3, <3>1, <3>2, <3>3, ThreadCount
    <2>5. ThreadAt(a)' /\ HoldsLive(a)'
      BY <1>0, <1>1, <1>3, <2>0, <2>1 DEF ThreadAt, HoldsLive, Dropping
    <2>6. files'[t][0] \in Files => Installed(t, 0)' /\ life'[files'[t][0]] = "live"
      BY <1>1, <1>3, <1>5, <2>0 DEF IInv, TableControl, NoUseAfterFree, Installed
    <2>7. coe'[t][0] => Installed(t, 0)'
      BY <1>0, <1>1, <1>5, <2>0 DEF IInv, FlagOnlyWhileOpen, Installed
    <2>8. \A g \in Files : life[g] = "live" => g # f
      BY <1>0
    <2>9. QED
      BY <1>0, <1>1, <1>2, <1>3, <1>5, <2>0, <2>2, <2>3, <2>4, <2>5, <2>6, <2>7, <2>8, ThreadStep
         DEF IInv, LifeControl, Released
  <1>7. CASE FreeFrom(t, m) # {}
    <2>0. Lowest(FreeFrom(t, m)) \in FreeFrom(t, m)
      BY <1>7, LowestIsOne DEF FreeFrom
    <2> PICK x \in Fds : x = Lowest(FreeFrom(t, m)) /\ state[t][x] = "FREE"
      BY <2>0 DEF FreeFrom
    <2>1. /\ state' = [state EXCEPT ![t][x] = "RESERVED"]
          /\ files' = [files EXCEPT ![t][x] = Null]
          /\ fd' = [fd EXCEPT ![a] = x]
          /\ mine' = [mine EXCEPT ![a] = f]
          /\ pc' = [pc EXCEPT ![a] = "reserved"]
          /\ UNCHANGED todo
      BY <1>0, <1>7
    <2>2. ~ coe[t][x] /\ coe[t][x] \in BOOLEAN
      BY <1>1 DEF IInv, TypeOK, FlagOnlyWhileOpen, Installed
    <2>3. [coe EXCEPT ![t][x] = coe[t][x]] = coe
      BY <1>1 DEF IInv, TypeOK
    <2>4. SlotSet(t, x, "RESERVED", Null, coe[t][x])
      <3>1. SetSlot(t, x, "RESERVED", Null, coe[t][x])
        BY <1>0, <2>1, <2>3 DEF SetSlot
      <3>2. QED
        BY <1>1, <2>2, <3>1, SlotIsSet
    <2>5. TypeOK'
      BY <1>0, <1>4, <2>1, <2>4 DEF IInv, TypeOK, SlotSet
    <2>6. OnlyThread(a) /\ OnlySlot(t, x) /\ mine'[a] = f /\ pc'[a] = "reserved"
      BY <1>0, <2>1, <2>4 DEF OnlyThread, SlotSet, IInv, TypeOK
    <2>7. ~ Installed(t, x) /\ ~ Installed(t, x)' /\ files'[t][x] \notin Files /\ ~ coe'[t][x]
      BY <1>0, <1>5, <2>2, <2>4 DEF SlotSet, Installed
    <2>8. RefCountExact'
      <3>1. \A g \in Files, k \in Fds : ~ Pending(a, k, g)'
        BY <1>1, <2>1 DEF Pending
      <3>2. QED
        BY <1>1, <1>2, <1>3, <1>5, <2>6, <2>7, <3>1, ThreadCount
    <2>9. ThreadAt(a)' /\ HoldsLive(a)'
      BY <1>0, <1>1, <1>3, <1>5, <2>1, <2>6 DEF ThreadAt, HoldsLive, Dropping
    <2>10. \A g \in Files : life[g] = "live" => g # f
      BY <1>0
    <2>11. QED
      BY <1>0, <1>1, <1>2, <1>3, <1>5, <2>5, <2>6, <2>7, <2>8, <2>9, <2>10, ThreadStep
         DEF IInv, LifeControl, Released
  <1>8. QED
    BY <1>6, <1>7

(* The second half of fdtable_add: the reference goes into the slot, or is *)
(* one to drop when somebody else took the slot.                           *)
LEMMA InstallAtKeeps ==
    ASSUME IInv, NEW a \in Actors, InstallAt(a)
    PROVE  IInv'
  <1> DEFINE t == TableOf[a]
  <1>0. pc[a] = "reserved" /\ mine[a] \in Files /\ fd[a] \in Fds
    BY DEF InstallAt, IInv, TypeOK, ThreadControl, ThreadAt
  <1> PICK f \in Files, x \in Fds : f = mine[a] /\ x = fd[a]
    BY <1>0
  <1>1. /\ IF state[t][x] = "RESERVED"
           THEN /\ state' = [state EXCEPT ![t][x] = "INSTALLED"]
                /\ files' = [files EXCEPT ![t][x] = f]
                /\ pc' = [pc EXCEPT ![a] = "user"]
                /\ UNCHANGED todo
           ELSE /\ PutNext(a, One(f))
                /\ UNCHANGED <<state, files>>
        /\ mine' = [mine EXCEPT ![a] = Null]
        /\ fd' = [fd EXCEPT ![a] = 0]
        /\ UNCHANGED <<status, coe, life, count, old, victim>>
    BY DEF InstallAt, fileVars
  <1>2. t \in Tables /\ status[t] # "none" /\ 0 \in Fds /\ Null \notin Files
    BY <1>0, FDTableAssumption, FdsFinite DEF IInv, LifeControl
  <1>3. DOMAIN todo[a] = {} /\ victim[a] = Null /\ life[f] = "live"
    BY <1>0 DEF IInv, ThreadControl, ThreadAt, Dropping, NoUseAfterFree, TypeOK
  <1>4. mine'[a] = Null /\ \A b \in Actors \ {a} : mine'[b] = mine[b]
    BY <1>1 DEF IInv, TypeOK
  <1>5. \A g \in Files : count[g] \in Nat
    BY DEF IInv, TypeOK
  <1>6. \A g, k : ~ Pending(a, k, g)
    BY <1>3 DEF Pending
  <1>7. CASE state[t][x] = "RESERVED"
    <2>1. [coe EXCEPT ![t][x] = coe[t][x]] = coe /\ coe[t][x] \in BOOLEAN
      <3>1. coe \in [Tables -> [Fds -> BOOLEAN]] /\ t \in Tables /\ x \in Fds
        BY <1>2 DEF IInv, TypeOK
      <3>2. coe[t] \in [Fds -> BOOLEAN]
        BY ONLY <3>1
      <3>3. coe[t][x] \in BOOLEAN
        BY ONLY <3>1, <3>2
      <3>4. [coe[t] EXCEPT ![x] = coe[t][x]] = coe[t]
        BY ONLY <3>1, <3>2
      <3>5. [coe EXCEPT ![t] = coe[t]] = coe
        BY ONLY <3>1
      <3>6. QED
        BY ONLY <3>1, <3>3, <3>4, <3>5
    <2>2. SlotSet(t, x, "INSTALLED", f, coe[t][x])
      <3>1. SetSlot(t, x, "INSTALLED", f, coe[t][x])
        BY <1>1, <1>7, <2>1 DEF SetSlot
      <3>2. QED
        BY <1>2, <2>1, <3>1, SlotIsSet
    <2>3. pc'[a] = "user" /\ OnlyThread(a) /\ OnlySlot(t, x)
      BY <1>1, <1>4, <1>7, <2>2 DEF OnlyThread, SlotSet, IInv, TypeOK
    <2>4. TypeOK'
      BY <1>1, <1>2, <1>7, <2>2 DEF IInv, TypeOK, SlotSet
    <2>5. ~ Installed(t, x) /\ Installed(t, x)' /\ files'[t][x] = f
      BY <1>7, <2>2 DEF SlotSet, Installed
    <2>6. RefCountExact'
      <3>1. \A g \in Files, k \in Fds : ~ Pending(a, k, g)'
        BY <1>1, <1>3, <1>7 DEF Pending
      <3>2. QED
        BY <1>1, <1>2, <1>4, <1>5, <1>6, <2>3, <2>5, <3>1, ThreadCount
    <2>7. ThreadAt(a)' /\ HoldsLive(a)'
      BY <1>1, <1>3, <1>4, <1>7, <2>3 DEF ThreadAt, HoldsLive, Dropping
    <2>8. QED
      BY <1>0, <1>1, <1>2, <1>3, <2>3, <2>4, <2>5, <2>6, <2>7, ThreadStep DEF IInv, LifeControl, Released
  <1>8. CASE state[t][x] # "RESERVED"
    <2>0. /\ todo' = [todo EXCEPT ![a] = One(f)] /\ pc' = [pc EXCEPT ![a] = "load"] /\ pc'[a] = "load"
          /\ UNCHANGED <<state, files>>
      BY <1>1, <1>8 DEF PutNext, One, IInv, TypeOK
    <2>1. /\ DOMAIN todo' = Actors
          /\ \A b \in Actors : DOMAIN todo'[b] \subseteq Fds /\ todo'[b] \in [DOMAIN todo'[b] -> Files]
          /\ \A b \in Actors \ {a} : todo'[b] = todo[b]
          /\ DOMAIN todo'[a] = {0} /\ todo'[a][0] = f
      BY <2>0, TakesOne
    <2>2. TypeOK'
      BY <1>1, <1>2, <2>0, <2>1 DEF IInv, TypeOK
    <2>3. OnlyThread(a) /\ OnlySlot(t, 0)
      BY <1>1, <1>4, <2>0, <2>1 DEF OnlyThread, OnlySlot, IInv, TypeOK
    <2>4. RefCountExact'
      <3>1. \A g \in Files : Pending(a, 0, g)' <=> g = f
        BY <2>0, <2>1 DEF Pending
      <3>2. \A g \in Files, k \in Fds \ {0} : ~ Pending(a, k, g)'
        BY <2>1 DEF Pending
      <3>3. (Installed(t, 0)' <=> Installed(t, 0)) /\ UNCHANGED files
        BY <2>0 DEF Installed
      <3>4. QED
        BY <1>1, <1>2, <1>4, <1>5, <1>6, <2>3, <3>1, <3>2, <3>3, ThreadCount
    <2>5. ThreadAt(a)' /\ HoldsLive(a)'
      BY <1>1, <1>3, <1>4, <2>0, <2>1 DEF ThreadAt, HoldsLive, Dropping
    <2>6. files'[t][0] \in Files => Installed(t, 0)' /\ life'[files'[t][0]] = "live"
      BY <1>1, <1>2, <2>0 DEF IInv, TableControl, NoUseAfterFree, Installed
    <2>7. coe'[t][0] => Installed(t, 0)'
      BY <1>1, <1>2, <2>0 DEF IInv, FlagOnlyWhileOpen, Installed
    <2>8. QED
      BY <1>0, <1>1, <1>2, <1>3, <2>0, <2>2, <2>3, <2>4, <2>5, <2>6, <2>7, ThreadStep
         DEF IInv, LifeControl, Released
  <1>9. QED
    BY <1>7, <1>8

-----------------------------------------------------------------------------
(* The pairs of one thing with some slots are as many as the slots.        *)
LEMMA ColumnSize ==
    ASSUME NEW u, NEW N \in SUBSET Fds
    PROVE  IsFiniteSet({u} \X N) /\ Cardinality({u} \X N) = Cardinality(N) /\ Cardinality(N) \in Nat
  <1>1. IsFiniteSet(N)
    BY FdsFinite, FS_Subset
  <1>2. IsFiniteSet({u}) /\ Cardinality({u}) = 1
    BY FS_Singleton
  <1>3. Cardinality(N) \in Nat
    BY <1>1, FS_CardinalityType
  <1>4. IsFiniteSet({u} \X N) /\ Cardinality({u} \X N) = Cardinality({u}) * Cardinality(N)
    BY <1>1, <1>2, FS_Product
  <1>5. QED
    BY <1>2, <1>3, <1>4

(* fdtable_destroy: nobody uses the table of the process that is reaped.   *)
LEMMA DestroyKeeps ==
    ASSUME IInv, NEW a \in Actors, Destroy(a)
    PROVE  IInv'
  <1>0. pc[a] = "destroy" /\ victim[a] \in Tables
    BY DEF Destroy, IInv, TypeOK, ThreadControl, ThreadAt
  <1> PICK u \in Tables : u = victim[a]
    BY <1>0
  <1>1. u # Null /\ \A n \in Fds : state[u][n] = "FREE"
    BY FDTableAssumption DEF IInv, TableControl
  <1>2. /\ status' = [status EXCEPT ![u] = "destroyed"]
        /\ pc' = [pc EXCEPT ![a] = "user"]
        /\ victim' = [victim EXCEPT ![a] = Null]
        /\ UNCHANGED <<state, files, coe, life, count, fd, mine, todo, old>>
    BY <1>1 DEF Destroy, fileVars
  <1>3. /\ pc'[a] = "user" /\ victim'[a] = Null
        /\ \A b \in Actors \ {a} : pc'[b] = pc[b] /\ victim'[b] = victim[b]
        /\ \A s \in Tables : status'[s] = IF s = u THEN "destroyed" ELSE status[s]
    BY <1>2 DEF IInv, TypeOK
  <1>4. TypeOK'
    BY <1>2 DEF IInv, TypeOK
  <1>5. \A b \in Actors : Current(b)' = Current(b) /\ First(b)' = First(b)
                          /\ (pc'[b] = "release" <=> pc[b] = "release")
    BY <1>0, <1>2, <1>3 DEF Current, First
  <1>6. RefCountExact'
    <2>1. \A f \in Files : SlotRefs(f)' = SlotRefs(f) /\ MineRefs(f)' = MineRefs(f)
      BY <1>2 DEF SlotRefs, MineRefs, Installed
    <2>2. \A f \in Files : TodoRefs(f)' = TodoRefs(f)
      BY <1>2, <1>5 DEF TodoRefs
    <2>3. QED
      BY <1>2, <2>1, <2>2 DEF IInv, RefCountExact
  <1>7. ThreadControl'
    <2> SUFFICES ASSUME NEW b \in Actors PROVE ThreadAt(b)'
      BY DEF ThreadControl
    <2>1. ThreadAt(b)
      BY DEF IInv, ThreadControl
    <2>2. CASE b = a
      BY <1>0, <1>2, <1>3, <2>1, <2>2 DEF ThreadAt, Dropping
    <2>3. CASE b # a
      BY <1>2, <1>3, <1>5, <2>1, <2>3 DEF ThreadAt
    <2>4. QED
      BY <2>2, <2>3
  <1>8. TableControl'
    <2>1. \A s \in Tables, n \in Fds : files'[s][n] \in Files => Installed(s, n)'
      BY <1>2 DEF IInv, TableControl, Installed
    <2>2. \A s \in Tables : status'[s] = "none" => \A n \in Fds : state'[s][n] = "FREE"
      BY <1>2, <1>3 DEF IInv, TableControl
    <2>3. ASSUME NEW b \in Actors, victim'[b] # Null
          PROVE  /\ status'[victim'[b]] # "none"
                 /\ \A n \in Fds : state'[victim'[b]][n] = "FREE"
                 /\ \A c \in Actors : TableOf[c] = victim'[b] => pc'[c] = "exited"
      <3>1. b # a /\ victim'[b] = victim[b] /\ victim[b] \in Tables
        BY <1>3, <2>3 DEF IInv, TypeOK
      <3>2. /\ status[victim[b]] # "none"
            /\ \A n \in Fds : state[victim[b]][n] = "FREE"
            /\ \A c \in Actors : TableOf[c] = victim[b] => pc[c] = "exited"
        BY <2>3, <3>1 DEF IInv, TableControl
      <3>3. QED
        BY <1>0, <1>2, <1>3, <3>1, <3>2
    <2>4. QED
      BY <2>1, <2>2, <2>3 DEF TableControl
  <1>9. LifeControl'
    BY <1>2, <1>3, FDTableAssumption DEF IInv, LifeControl
  <1>10. FlagOnlyWhileOpen' /\ NoUseAfterFree'
    BY <1>2, <1>5 DEF IInv, FlagOnlyWhileOpen, NoUseAfterFree, Installed
  <1>11. LastDropReleases'
    BY <1>2, <1>5 DEF IInv, LastDropReleases
  <1>12. QED
    BY <1>4, <1>6, <1>7, <1>8, <1>9, <1>10, <1>11 DEF IInv

(* fork: the copy of the table has a reference for each installed file,    *)
(* whatever becomes of the copy.                                           *)
LEMMA ForkKeeps ==
    ASSUME IInv, NEW a \in Actors, NEW u \in Tables, NEW failed, Fork(a, u, failed)
    PROVE  IInv'
  <1> DEFINE t == TableOf[a]
  <1>0. /\ InUser(a) /\ status[u] = "none"
        /\ state' = [state EXCEPT ![u] = state[t]]
        /\ files' = [files EXCEPT ![u] = files[t]]
        /\ coe' = [coe EXCEPT ![u] = coe[t]]
        /\ count' = [f \in Files |-> count[f] + SlotsOf(t, f)]
        /\ UNCHANGED <<life, fd, mine, todo, old, victim>>
    BY DEF Fork
  <1>1. /\ \E s \in {"live", "destroyed", "leaked"} : status' = [status EXCEPT ![u] = s]
        /\ \E p \in {"user", "panic"} : pc' = [pc EXCEPT ![a] = p]
    BY DEF Fork
  <1>2. /\ pc[a] = "user" /\ mine[a] = Null /\ victim[a] = Null /\ t \in Tables /\ status[t] = "live"
        /\ DOMAIN todo[a] = {} /\ t # u
    BY <1>0, UserHoldsNothing
  <1>3. /\ pc'[a] \in {"user", "panic"} /\ \A b \in Actors \ {a} : pc'[b] = pc[b]
        /\ \A s \in Tables : IF s = u THEN status'[s] \in {"live", "destroyed", "leaked"}
                                      ELSE status'[s] = status[s]
    BY <1>1 DEF IInv, TypeOK
  <1>4. \A s \in Tables, n \in Fds :
            /\ state'[s][n] = IF s = u THEN state[t][n] ELSE state[s][n]
            /\ files'[s][n] = IF s = u THEN files[t][n] ELSE files[s][n]
            /\ coe'[s][n] = IF s = u THEN coe[t][n] ELSE coe[s][n]
    BY <1>0, <1>2 DEF IInv, TypeOK
  <1>5. \A n \in Fds : ~ Installed(u, n)
    BY <1>0 DEF IInv, TableControl, Installed
  <1> DEFINE N(f) == {n \in Fds : Installed(t, n) /\ files[t][n] = f}
  <1>6. ASSUME NEW f \in Files
        PROVE  /\ count'[f] = count[f] + Cardinality(N(f)) /\ count[f] \in Nat
               /\ Cardinality(N(f)) \in Nat
               /\ count[f] = 0 => count'[f] = 0
    <2>1. N(f) \in SUBSET Fds
      OBVIOUS
    <2>2. Cardinality(N(f)) \in Nat
      BY <2>1, ColumnSize
    <2>3. count[f] \in Nat
      BY DEF IInv, TypeOK
    <2>4. count'[f] = count[f] + Cardinality(N(f))
      BY <1>0 DEF SlotsOf
    <2>5. ASSUME count[f] = 0 PROVE N(f) = {}
      BY <1>2, <2>5, ReferredIsCounted DEF IInv
    <2>6. count[f] = 0 => Cardinality(N(f)) = 0
      BY <2>5, FS_EmptySet
    <2> HIDE DEF N
    <2>7. QED
      BY <2>2, <2>3, <2>4, <2>6
  <1>7. TypeOK'
    <2>1. count' \in [Files -> Nat]
      <3>1. \A f \in Files : count[f] + SlotsOf(t, f) \in Nat
        BY <1>6 DEF SlotsOf
      <3>2. QED
        BY <1>0, <3>1
    <2>2. QED
      BY <1>0, <1>1, <1>2, <2>1 DEF IInv, TypeOK
  <1>8. \A b \in Actors : Current(b)' = Current(b) /\ First(b)' = First(b)
                          /\ (pc'[b] = "release" <=> pc[b] = "release")
    BY <1>0, <1>2, <1>3 DEF Current, First
  <1>9. \A b \in Actors : pc[b] = "release" => Current(b) \in Files
    BY CurrentIsPending DEF IInv, Dropping
  <1>10. RefCountExact'
    <2> SUFFICES ASSUME NEW f \in Files
                 PROVE  count'[f] = Cardinality(SlotRefs(f)') + Cardinality(TodoRefs(f)')
                                                              + Cardinality(MineRefs(f)')
      BY DEF RefCountExact
    <2>1. TodoRefs(f)' = TodoRefs(f) /\ MineRefs(f)' = MineRefs(f)
      BY <1>0, <1>8 DEF TodoRefs, MineRefs
    <2>2. SlotRefs(f)' = SlotRefs(f) \cup ({u} \X N(f))
      <3>1. ASSUME NEW s \in Tables, NEW n \in Fds
            PROVE  <<s, n>> \in SlotRefs(f)' <=> <<s, n>> \in SlotRefs(f) \cup ({u} \X N(f))
        <4>1. <<s, n>> \in SlotRefs(f)' <=> Installed(s, n)' /\ files'[s][n] = f
          BY DEF SlotRefs
        <4>2. <<s, n>> \in SlotRefs(f) <=> Installed(s, n) /\ files[s][n] = f
          BY DEF SlotRefs
        <4>3. <<s, n>> \in {u} \X N(f) <=> s = u /\ Installed(t, n) /\ files[t][n] = f
          OBVIOUS
        <4>4. QED
          BY <1>4, <1>5, <4>1, <4>2, <4>3 DEF Installed
      <3>2. SlotRefs(f)' \subseteq Tables \X Fds /\ SlotRefs(f) \subseteq Tables \X Fds
        BY DEF SlotRefs
      <3>3. {u} \X N(f) \subseteq Tables \X Fds
        OBVIOUS
      <3> HIDE DEF N
      <3>4. QED
        BY <3>1, <3>2, <3>3
    <2>3. SlotRefs(f) \cap ({u} \X N(f)) = {}
      BY <1>5 DEF SlotRefs
    <2>4. N(f) \in SUBSET Fds
      OBVIOUS
    <2> HIDE DEF N
    <2>5. IsFiniteSet({u} \X N(f)) /\ Cardinality({u} \X N(f)) = Cardinality(N(f))
      BY <2>4, ColumnSize
    <2>6. Cardinality(SlotRefs(f)') = Cardinality(SlotRefs(f)) + Cardinality(N(f))
                                      - Cardinality(SlotRefs(f) \cap ({u} \X N(f)))
      BY <2>2, <2>5, RefsFinite, FS_Union
    <2>7. Cardinality(SlotRefs(f) \cap ({u} \X N(f))) = 0
      BY <2>3, FS_EmptySet
    <2>8. count[f] = Cardinality(SlotRefs(f)) + Cardinality(TodoRefs(f)) + Cardinality(MineRefs(f))
      BY DEF IInv, RefCountExact
    <2>9. /\ Cardinality(SlotRefs(f)) \in Nat
          /\ Cardinality(TodoRefs(f)) \in Nat
          /\ Cardinality(MineRefs(f)) \in Nat
      BY RefsFinite, FS_CardinalityType
    <2>10. QED
      BY <1>6, <2>1, <2>6, <2>7, <2>8, <2>9
  <1> HIDE DEF N
  <1>11. ThreadControl'
    <2> SUFFICES ASSUME NEW b \in Actors PROVE ThreadAt(b)'
      BY DEF ThreadControl
    <2>1. ThreadAt(b)
      BY DEF IInv, ThreadControl
    <2>2. CASE b = a
      BY <1>0, <1>2, <1>3, <2>2 DEF ThreadAt, Dropping
    <2>3. CASE b # a
      BY <1>0, <1>3, <1>6, <1>8, <1>9, <2>1, <2>3 DEF ThreadAt
    <2>4. QED
      BY <2>2, <2>3
  <1>12. TableControl'
    <2>1. \A s \in Tables, n \in Fds : files'[s][n] \in Files => Installed(s, n)'
      BY <1>2, <1>4 DEF IInv, TableControl, Installed
    <2>2. \A s \in Tables : status'[s] = "none" => \A n \in Fds : state'[s][n] = "FREE"
      BY <1>3, <1>4 DEF IInv, TableControl
    <2>3. ASSUME NEW b \in Actors, victim'[b] # Null
          PROVE  /\ status'[victim'[b]] # "none"
                 /\ \A n \in Fds : state'[victim'[b]][n] = "FREE"
                 /\ \A c \in Actors : TableOf[c] = victim'[b] => pc'[c] = "exited"
      <3>1. victim'[b] = victim[b] /\ victim[b] \in Tables
        BY <1>0, <2>3 DEF IInv, TypeOK
      <3>2. /\ status[victim[b]] # "none"
            /\ \A n \in Fds : state[victim[b]][n] = "FREE"
            /\ \A c \in Actors : TableOf[c] = victim[b] => pc[c] = "exited"
        BY <2>3, <3>1 DEF IInv, TableControl
      <3>3. victim[b] # u /\ victim[b] # t
        BY <1>0, <1>2, <3>2
      <3>4. QED
        BY <1>2, <1>3, <1>4, <3>1, <3>2, <3>3
    <2>4. QED
      BY <2>1, <2>2, <2>3 DEF TableControl
  <1>13. LifeControl'
    <2>1. \A f \in Files : life'[f] # "live" => count'[f] = 0
      BY <1>0, <1>6 DEF IInv, LifeControl
    <2>2. \A b \in Actors : pc'[b] # "user" => status'[TableOf[b]] # "none"
      BY <1>2, <1>3, FDTableAssumption DEF IInv, LifeControl
    <2>3. QED
      BY <1>3, <2>1, <2>2 DEF LifeControl
  <1>14. FlagOnlyWhileOpen'
    BY <1>2, <1>4 DEF IInv, FlagOnlyWhileOpen, Installed
  <1>15. NoUseAfterFree'
    <2>1. \A s \in Tables, n \in Fds : files'[s][n] \in Files => life'[files'[s][n]] = "live"
      BY <1>0, <1>2, <1>4 DEF IInv, NoUseAfterFree
    <2>2. QED
      BY <1>0, <1>8, <2>1 DEF IInv, NoUseAfterFree
  <1>16. LastDropReleases'
    <2>1. \A f \in Files : count'[f] = 0 => count[f] = 0
      BY <1>6
    <2>2. QED
      BY <1>0, <1>8, <2>1 DEF IInv, LastDropReleases
  <1>17. QED
    BY <1>7, <1>10, <1>11, <1>12, <1>13, <1>14, <1>15, <1>16 DEF IInv

(* fdtable_close_all: the references of the slots become references to     *)
(* drop, under the numbers of the slots.                                   *)
LEMMA CloseAllKeeps ==
    ASSUME IInv, NEW a \in Actors, NEW u \in Tables, CloseAll(a, u)
    PROVE  IInv'
  <1>0. /\ InUser(a) /\ u # TableOf[a] /\ status[u] = "live"
        /\ \A b \in Actors : TableOf[b] = u => pc[b] = "exited"
        /\ \A b \in Actors : victim[b] # u
        /\ \A n \in Fds : Installed(u, n) => files[u][n] \in Files
        /\ state' = [state EXCEPT ![u] = [n \in Fds |-> "FREE"]]
        /\ files' = [files EXCEPT ![u] = [n \in Fds |-> Null]]
        /\ coe' = [coe EXCEPT ![u] = [n \in Fds |-> FALSE]]
        /\ victim' = [victim EXCEPT ![a] = u]
        /\ todo' = [todo EXCEPT ![a] = InstalledFiles(u)]
        /\ pc' = [pc EXCEPT ![a] = IF DOMAIN InstalledFiles(u) = {} THEN "destroy" ELSE "load"]
        /\ UNCHANGED <<status, life, count, fd, mine, old>>
    BY DEF CloseAll, PutNext, Usable, fileVars
  <1>1. /\ pc[a] = "user" /\ mine[a] = Null /\ DOMAIN todo[a] = {} /\ TableOf[a] \in Tables
        /\ status[TableOf[a]] = "live" /\ Null \notin Files \union Tables /\ u # Null
    BY <1>0, UserHoldsNothing, FDTableAssumption
  <1> DEFINE D == {k \in Fds : Installed(u, k)}
  <1>2. /\ DOMAIN InstalledFiles(u) = D
        /\ \A n \in D : InstalledFiles(u)[n] = files[u][n] /\ files[u][n] \in Files
        /\ InstalledFiles(u) \in [D -> Files]
    BY <1>0 DEF InstalledFiles
  <1>3. /\ \A b \in Actors \ {a} : todo'[b] = todo[b] /\ pc'[b] = pc[b] /\ victim'[b] = victim[b]
        /\ todo'[a] = InstalledFiles(u) /\ victim'[a] = u /\ DOMAIN todo' = Actors
        /\ pc'[a] = IF DOMAIN todo'[a] = {} THEN "destroy" ELSE "load"
    BY <1>0 DEF IInv, TypeOK
  <1>4. DOMAIN todo'[a] = D /\ \A n \in D : todo'[a][n] = files[u][n]
    BY <1>2, <1>3
  <1>5. \A s \in Tables, n \in Fds :
            /\ s = u => state'[s][n] = "FREE" /\ files'[s][n] = Null /\ ~ coe'[s][n]
            /\ s # u => /\ state'[s][n] = state[s][n]
                       /\ files'[s][n] = files[s][n]
                       /\ coe'[s][n] = coe[s][n]
    BY <1>0 DEF IInv, TypeOK
  <1> HIDE DEF D
  <1>6. TypeOK'
    <2>1. \A b \in Actors : DOMAIN todo'[b] \subseteq Fds /\ todo'[b] \in [DOMAIN todo'[b] -> Files]
      BY <1>2, <1>3 DEF IInv, TypeOK, D
    <2>2. pc' \in [Actors -> {"user", "reserved", "write", "load", "exchange",
                              "release", "destroy", "exited", "panic"}]
      BY <1>0 DEF IInv, TypeOK
    <2>3. QED
      BY <1>0, <1>3, <2>1, <2>2 DEF IInv, TypeOK
  <1>7. /\ \A b \in Actors \ {a} : Current(b)' = Current(b) /\ First(b)' = First(b)
        /\ \A b \in Actors : pc'[b] = "release" <=> pc[b] = "release"
        /\ pc'[a] # "release" /\ pc[a] # "release"
    BY <1>1, <1>3 DEF Current, First
  <1>8. RefCountExact'
    <2> SUFFICES ASSUME NEW f \in Files
                 PROVE  count'[f] = Cardinality(SlotRefs(f)') + Cardinality(TodoRefs(f)')
                                                              + Cardinality(MineRefs(f)')
      BY DEF RefCountExact
    <2> DEFINE N == {n \in Fds : Installed(u, n) /\ files[u][n] = f}
    <2>1. MineRefs(f)' = MineRefs(f)
      BY <1>0 DEF MineRefs
    <2>2. SlotRefs(f)' = SlotRefs(f) \ ({u} \X N)
      <3>1. ASSUME NEW s \in Tables, NEW n \in Fds
            PROVE  <<s, n>> \in SlotRefs(f)' <=> <<s, n>> \in SlotRefs(f) \ ({u} \X N)
        <4>1. <<s, n>> \in SlotRefs(f)' <=> Installed(s, n)' /\ files'[s][n] = f
          BY DEF SlotRefs
        <4>2. <<s, n>> \in SlotRefs(f) <=> Installed(s, n) /\ files[s][n] = f
          BY DEF SlotRefs
        <4>3. <<s, n>> \in {u} \X N <=> s = u /\ Installed(u, n) /\ files[u][n] = f
          OBVIOUS
        <4>4. QED
          BY <1>5, <4>1, <4>2, <4>3 DEF Installed
      <3>2. SlotRefs(f)' \subseteq Tables \X Fds /\ SlotRefs(f) \subseteq Tables \X Fds
        BY DEF SlotRefs
      <3> HIDE DEF N
      <3>3. QED
        BY <3>1, <3>2
    <2>3. TodoRefs(f)' = TodoRefs(f) \cup ({a} \X N)
      <3>1. ASSUME NEW b \in Actors, NEW n \in Fds
            PROVE  <<b, n>> \in TodoRefs(f)' <=> <<b, n>> \in TodoRefs(f) \cup ({a} \X N)
        <4>1. <<b, n>> \in TodoRefs(f)' <=> Pending(b, n, f)'
          BY DEF TodoRefs, Pending
        <4>2. <<b, n>> \in TodoRefs(f) <=> Pending(b, n, f)
          BY DEF TodoRefs, Pending
        <4>3. <<b, n>> \in {a} \X N <=> b = a /\ Installed(u, n) /\ files[u][n] = f
          OBVIOUS
        <4>4. CASE b = a
          <5>1. ~ Pending(a, n, f)
            BY <1>1 DEF Pending
          <5>2. Pending(a, n, f)' <=> n \in D /\ files[u][n] = f
            BY <1>4, <1>7 DEF Pending, D
          <5>3. QED
            BY <4>1, <4>2, <4>3, <4>4, <5>1, <5>2 DEF D
        <4>5. CASE b # a
          <5>1. Pending(b, n, f)' <=> Pending(b, n, f)
            BY <1>3, <1>7, <4>5 DEF Pending
          <5>2. QED
            BY <4>1, <4>2, <4>3, <4>5, <5>1
        <4>6. QED
          BY <4>4, <4>5
      <3>2. TodoRefs(f)' \subseteq Actors \X Fds /\ TodoRefs(f) \subseteq Actors \X Fds
        BY DEF TodoRefs
      <3>3. {a} \X N \subseteq Actors \X Fds
        OBVIOUS
      <3> HIDE DEF N
      <3>4. QED
        BY <3>1, <3>2, <3>3
    <2>4. SlotRefs(f) \cap ({u} \X N) = {u} \X N
      BY DEF SlotRefs
    <2>5. TodoRefs(f) \cap ({a} \X N) = {}
      BY <1>1 DEF TodoRefs
    <2>6. N \in SUBSET Fds
      OBVIOUS
    <2> HIDE DEF N
    <2>7. /\ IsFiniteSet({u} \X N) /\ Cardinality({u} \X N) = Cardinality(N)
          /\ IsFiniteSet({a} \X N) /\ Cardinality({a} \X N) = Cardinality(N)
          /\ Cardinality(N) \in Nat
      BY <2>6, ColumnSize
    <2>8. Cardinality(SlotRefs(f)') = Cardinality(SlotRefs(f)) - Cardinality(N)
      <3>1. Cardinality(SlotRefs(f) \ ({u} \X N))
                = Cardinality(SlotRefs(f)) - Cardinality(SlotRefs(f) \cap ({u} \X N))
        BY RefsFinite, FS_Difference
      <3>2. QED
        BY <2>2, <2>4, <2>7, <3>1
    <2>9. Cardinality(TodoRefs(f)') = Cardinality(TodoRefs(f)) + Cardinality(N)
                                      - Cardinality(TodoRefs(f) \cap ({a} \X N))
      BY <2>3, <2>7, RefsFinite, FS_Union
    <2>10. Cardinality(TodoRefs(f) \cap ({a} \X N)) = 0
      BY <2>5, FS_EmptySet
    <2>11. count'[f] = Cardinality(SlotRefs(f)) + Cardinality(TodoRefs(f)) + Cardinality(MineRefs(f))
      BY <1>0 DEF IInv, RefCountExact
    <2>12. /\ Cardinality(SlotRefs(f)) \in Nat
           /\ Cardinality(TodoRefs(f)) \in Nat
           /\ Cardinality(MineRefs(f)) \in Nat
      BY RefsFinite, FS_CardinalityType
    <2>13. QED
      BY <2>1, <2>7, <2>8, <2>9, <2>10, <2>11, <2>12
  <1>9. ThreadControl'
    <2> SUFFICES ASSUME NEW b \in Actors PROVE ThreadAt(b)'
      BY DEF ThreadControl
    <2>1. ThreadAt(b)
      BY DEF IInv, ThreadControl
    <2>2. CASE b = a
      BY <1>0, <1>1, <1>3, <1>7, <2>2 DEF ThreadAt, Dropping
    <2>3. CASE b # a
      BY <1>0, <1>3, <1>7, <2>1, <2>3 DEF ThreadAt
    <2>4. QED
      BY <2>2, <2>3
  <1>10. TableControl'
    <2>1. \A s \in Tables, n \in Fds : files'[s][n] \in Files => Installed(s, n)'
      BY <1>1, <1>5 DEF IInv, TableControl, Installed
    <2>2. \A s \in Tables : status'[s] = "none" => \A n \in Fds : state'[s][n] = "FREE"
      BY <1>0, <1>5 DEF IInv, TableControl
    <2>3. ASSUME NEW b \in Actors, victim'[b] # Null
          PROVE  /\ status'[victim'[b]] # "none"
                 /\ \A n \in Fds : state'[victim'[b]][n] = "FREE"
                 /\ \A c \in Actors : TableOf[c] = victim'[b] => pc'[c] = "exited"
      <3>1. CASE b = a
        <4>1. victim'[b] = u /\ status' = status /\ status[u] = "live" /\ u # TableOf[a]
          BY <1>0, <1>3, <3>1
        <4>2. \A c \in Actors : TableOf[c] = u => c # a /\ pc[c] = "exited"
          BY <1>0
        <4>3. QED
          BY <1>3, <1>5, <4>1, <4>2
      <3>2. CASE b # a
        <4>1. victim'[b] = victim[b] /\ victim[b] \in Tables /\ victim[b] # u
          BY <1>0, <1>3, <2>3, <3>2 DEF IInv, TypeOK
        <4>2. /\ status[victim[b]] # "none"
              /\ \A n \in Fds : state[victim[b]][n] = "FREE"
              /\ \A c \in Actors : TableOf[c] = victim[b] => pc[c] = "exited"
          BY <2>3, <4>1 DEF IInv, TableControl
        <4>3. TableOf[a] # victim[b]
          BY <1>1, <4>2
        <4>4. QED
          BY <1>0, <1>3, <1>5, <4>1, <4>2, <4>3
      <3>3. QED
        BY <3>1, <3>2
    <2>4. QED
      BY <2>1, <2>2, <2>3 DEF TableControl
  <1>11. LifeControl'
    BY <1>0, <1>1, <1>3 DEF IInv, LifeControl
  <1>12. FlagOnlyWhileOpen'
    BY <1>5 DEF IInv, FlagOnlyWhileOpen, Installed
  <1>13. NoUseAfterFree'
    <2>1. \A s \in Tables, n \in Fds : files'[s][n] \in Files => life'[files'[s][n]] = "live"
      BY <1>0, <1>1, <1>5 DEF IInv, NoUseAfterFree
    <2>2. \A n \in DOMAIN todo'[a] : life'[todo'[a][n]] = "live"
      BY <1>0, <1>2, <1>4 DEF IInv, NoUseAfterFree, D
    <2>3. \A b \in Actors : /\ \A n \in DOMAIN todo'[b] : life'[todo'[b][n]] = "live"
                            /\ mine'[b] # Null => life'[mine'[b]] = "live"
      BY <1>0, <1>3, <2>2 DEF IInv, NoUseAfterFree
    <2>4. QED
      BY <1>7, <2>1, <2>3 DEF IInv, NoUseAfterFree
  <1>14. LastDropReleases'
    BY <1>0, <1>7 DEF IInv, LastDropReleases
  <1>15. QED
    BY <1>6, <1>8, <1>9, <1>10, <1>11, <1>12, <1>13, <1>14 DEF IInv

-----------------------------------------------------------------------------
(* Every step keeps the invariant.                                         *)
LEMMA NextIInv == IInv /\ [Next]_vars => IInv'
  <1> SUFFICES ASSUME IInv, [Next]_vars PROVE IInv'
    OBVIOUS
  <1>1. CASE CreateRoot
    BY <1>1, CreateRootKeeps
  <1>2. ASSUME NEW a \in Actors, Kernel(a)
        PROVE  IInv'
    BY <1>2, InstallAtKeeps, WriteFileKeeps, PutLoadKeeps, PutExchangeKeeps, ReleaseKeeps, DestroyKeeps
       DEF Kernel
  <1>3. ASSUME NEW a \in Actors, Syscall(a)
        PROVE  IInv'
    BY <1>3, ExitKeeps, ReserveKeeps, GetFileKeeps, CloseFileKeeps, DupKeeps, SetCloseOnExecKeeps,
       DupAtKeeps, CloseAllKeeps, ForkKeeps
       DEF Syscall
  <1>4. CASE UNCHANGED vars
    BY SMTT(30), <1>4 DEF vars, tableVars, fileVars, IInv, TypeOK, ThreadControl, ThreadAt, TableControl,
       LifeControl, FlagOnlyWhileOpen, RefCountExact, NoUseAfterFree, LastDropReleases, Current,
       First, SlotRefs, TodoRefs, MineRefs, Installed
  <1>5. QED
    BY <1>1, <1>2, <1>3, <1>4 DEF Next

LEMMA IInvHolds == Spec => []IInv
  BY InitIInv, NextIInv, PTL DEF Spec

(* The reference count of every file is the number of its references, and  *)
(* what refers to a file, or is about to drop it, finds it alive: file_put *)
(* frees a file neither early nor twice, for every number of threads,      *)
(* processes, files and descriptors, whichever allocations fail.           *)
THEOREM FilesOutliveReferences == Spec => []FileLifetime
  <1>1. IInv => FileLifetime
    BY DEF IInv, FileLifetime
  <1>2. QED
    BY <1>1, IInvHolds, PTL

(* A file without references is in the hands of a thread that releases it: *)
(* none is leaked.                                                         *)
THEOREM FilesAreReleased == Spec => []LastDropReleases
  <1>1. IInv => LastDropReleases
    BY DEF IInv
  <1>2. QED
    BY <1>1, IInvHolds, PTL

(* The variables keep their types, only an open descriptor is marked       *)
(* close-on-exec, and the assertion of fdtable_destroy holds for a process *)
(* that is reaped.                                                         *)
THEOREM DescriptorsClean == Spec => []SlotsClean
  <1>1. IInv => SlotsClean
    BY DEF IInv, SlotsClean, ReapedIsEmpty, ThreadControl, ThreadAt, TableControl
  <1>2. QED
    BY <1>1, IInvHolds, PTL
=============================================================================
