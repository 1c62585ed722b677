----------------------------- MODULE LibProofs ------------------------------
(***************************************************************************)
(* The data structures of lib/: its lists and the heap.                    *)
(*                                                                         *)
(* The intrusive list is well linked after every operation, for every set  *)
(* of nodes and every integer key (lib/ds/intrusivelist.c), and the list   *)
(* built on it owns exactly the nodes it links (lib/ds/linkedlist.c).      *)
(*                                                                         *)
(* The kernel heap, for every region, page size, header and length: the    *)
(* free list is sorted and merged, the free blocks and those of the        *)
(* callers tile the pool, and kalloc and kfree keep their promise (the     *)
(* specification Heap), so that no two callers share a word.  A list is    *)
(* described by the words it covers.  Splitting and merging are lemmas     *)
(* about one list: what an insertion covers is what the list and the block *)
(* covered, and it leaves no two blocks that touch.                        *)
(***************************************************************************)
EXTENDS FreeList, LinkedList, SequenceTheorems, FunctionTheorems, FiniteSetTheorems,
        WellFoundedInduction, TLAPS

-----------------------------------------------------------------------------
(* The lists                                                               *)

\* Links are nodes or null, and the recorded order is a list of nodes.
ListType ==
    /\ len \in Nat
    /\ order \in [1 .. len -> Nodes]
    /\ next \in [Nodes -> Nodes \cup {Null}]
    /\ prev \in [Nodes -> Nodes \cup {Null}]

\* The loop of an insertion is at a node of the list or behind the last one,
\* and inserts a node that is in no list.
WalkInside ==
    \/ walk = Idle
    \/ /\ walk \in [kind: {"sorted", "at"}, node: Nodes, cur: Nodes \cup {Null},
                    counting: Nat, index: Nat]
       /\ ~Member(walk.node)
       /\ walk.counting <= len
       /\ walk.cur = IF walk.counting = len THEN Null ELSE order[walk.counting + 1]
       /\ walk.kind = "at" => walk.counting <= walk.index /\ walk.index \in 1 .. len - 1

ListInv == ListType /\ WellLinked /\ WalkInside

-----------------------------------------------------------------------------
(* The initial list is empty and every node is outside of it.              *)
LEMMA InitListInv == ListInit => ListInv
  BY ListAssumption DEF ListInit, ListInv, ListType, WellLinked, WalkInside, Member, Idle

(* The order with node n inserted at place p: what is where, that no node  *)
(* is twice in it, and who is in it.                                       *)
LEMMA InsertedOrder ==
    ASSUME NEW n \in Nodes, NEW p \in 1 .. len + 1, ListType, WellLinked, ~Member(n),
           len' = len + 1, order' = Inserted(p, n)
    PROVE  /\ len' \in Nat
           /\ order' \in [1 .. len' -> Nodes]
           /\ \A i \in 1 .. len': i < p => i \in 1 .. len /\ order'[i] = order[i]
           /\ order'[p] = n
           /\ \A i \in 1 .. len': i > p => i - 1 \in 1 .. len /\ order'[i] = order[i - 1]
           /\ \A i, j \in 1 .. len': order'[i] = order'[j] => i = j
           /\ \A m: Member(m)' <=> m = n \/ Member(m)
  <1>1. len \in Nat /\ len' \in Nat /\ p \in Nat
    BY DEF ListType
  <1>2. \A i \in 1 .. len: order[i] \in Nodes /\ order[i] # n
    BY DEF ListType, Member
  <1>3. \A i \in 1 .. len': i < p => i \in 1 .. len /\ order'[i] = order[i]
    BY <1>1 DEF Inserted
  <1>4. p \in 1 .. len' /\ order'[p] = n
    BY <1>1 DEF Inserted
  <1>5. \A i \in 1 .. len': i > p => i - 1 \in 1 .. len /\ order'[i] = order[i - 1]
    BY <1>1 DEF Inserted
  <1>6. \A i \in 1 .. len': order'[i] \in Nodes
    BY <1>1, <1>2, <1>3, <1>4, <1>5
  <1>7. order' \in [1 .. len' -> Nodes]
    BY <1>6 DEF Inserted
  <1>8. \A i, j \in 1 .. len': order'[i] = order'[j] => i = j
    <2> SUFFICES ASSUME NEW i \in 1 .. len', NEW j \in 1 .. len', order'[i] = order'[j], i < j
                 PROVE  FALSE
      BY <1>1
    <2>1. \A k, l \in 1 .. len: order[k] = order[l] => k = l
      BY DEF WellLinked
    <2> QED
      BY <1>1, <1>2, <1>3, <1>4, <1>5, <2>1
  <1>9. \A m: Member(m)' <=> m = n \/ Member(m)
    <2> SUFFICES ASSUME NEW m PROVE Member(m)' <=> m = n \/ Member(m)
      OBVIOUS
    <2>1. ASSUME NEW i \in 1 .. len, order[i] = m PROVE Member(m)'
      <3>1. CASE i < p
        BY <1>1, <1>3, <2>1, <3>1 DEF Member
      <3>2. CASE i >= p
        <4>1. i + 1 \in 1 .. len' /\ i + 1 > p /\ (i + 1) - 1 = i
          BY <1>1, <3>2
        <4> QED
          BY <1>5, <2>1, <4>1 DEF Member
      <3> QED
        BY <1>1, <3>1, <3>2
    <2>2. Member(n)'
      BY <1>4 DEF Member
    <2>3. ASSUME NEW i \in 1 .. len', order'[i] = m PROVE m = n \/ Member(m)
      <3>1. CASE i < p
        BY <1>3, <2>3, <3>1 DEF Member
      <3>2. CASE i = p
        BY <1>4, <2>3, <3>2
      <3>3. CASE i > p
        BY <1>5, <2>3, <3>3 DEF Member
      <3> QED
        BY <1>1, <3>1, <3>2, <3>3
    <2> QED
      BY <2>1, <2>2, <2>3 DEF Member
  <1> QED
    BY <1>1, <1>3, <1>4, <1>5, <1>7, <1>8, <1>9

\* The neighbours of a node at place p, or null at the ends.
Left(p) == IF p = 1 THEN Null ELSE order[p - 1]
Right(p) == IF p = len + 1 THEN Null ELSE order[p]

(* Every insertion of the code ties its node between two neighbours.       *)
LEMMA InsertLinks ==
    ASSUME NEW n \in Nodes, NEW p \in 1 .. len + 1, ListType, WellLinked, ~Member(n),
           len' = len + 1, order' = Inserted(p, n), count' = count + 1,
           next' = [m \in Nodes |-> IF m = n THEN Right(p) ELSE IF m = Left(p) THEN n ELSE next[m]],
           prev' = [m \in Nodes |-> IF m = n THEN Left(p) ELSE IF m = Right(p) THEN n ELSE prev[m]],
           head' = IF p = 1 THEN n ELSE head,
           tail' = IF p = len + 1 THEN n ELSE tail
    PROVE  ListType' /\ WellLinked'
  <1>0. Null \notin Nodes
    BY ListAssumption
  <1>1. len \in Nat /\ len' \in Nat /\ p \in Nat
    BY DEF ListType
  <1>2. \A i \in 1 .. len: order[i] \in Nodes /\ order[i] # n
    BY DEF ListType, Member
  <1>3. Left(p) \in Nodes \cup {Null} /\ Right(p) \in Nodes \cup {Null}
    BY <1>1, <1>2 DEF Left, Right
  <1>4. ListType'
    BY <1>3, InsertedOrder DEF ListType
  <1>5. \A i, j \in 1 .. len: order[i] = order[j] => i = j
    BY DEF WellLinked
  <1>6. \A i \in 1 .. len: /\ next[order[i]] = IF i = len THEN Null ELSE order[i + 1]
                           /\ prev[order[i]] = IF i = 1 THEN Null ELSE order[i - 1]
    BY DEF WellLinked
  <1>7. /\ \A i \in 1 .. len': i < p => i \in 1 .. len /\ order'[i] = order[i]
        /\ order'[p] = n
        /\ \A i \in 1 .. len': i > p => i - 1 \in 1 .. len /\ order'[i] = order[i - 1]
    BY InsertedOrder
  <1>8. ASSUME NEW i \in 1 .. len'
        PROVE  next'[order'[i]] = IF i = len' THEN Null ELSE order'[i + 1]
    <2>1. CASE i = p
      BY <1>1, <1>7, <2>1 DEF Right
    <2>2. CASE i < p
      <3>1. order'[i] = order[i] /\ order[i] \in Nodes /\ order[i] # n /\ i \in 1 .. len
        BY <1>2, <1>7, <2>2
      <3>2. order[i] = Left(p) <=> i = p - 1
        BY <1>0, <1>1, <1>5, <2>2, <3>1 DEF Left
      <3>3. next'[order'[i]] = IF i = p - 1 THEN n ELSE next[order[i]]
        BY <3>1, <3>2
      <3>4. CASE i = p - 1
        BY <1>1, <1>7, <3>3, <3>4
      <3>5. CASE i < p - 1
        <4>1. i + 1 \in 1 .. len' /\ i + 1 < p /\ i # len
          BY <1>1, <3>5
        <4> QED
          BY <1>1, <1>6, <1>7, <3>1, <3>3, <3>5, <4>1
      <3> QED
        BY <1>1, <2>2, <3>4, <3>5
    <2>3. CASE i > p
      <3>1. order'[i] = order[i - 1] /\ order[i - 1] \in Nodes /\ order[i - 1] # n /\ i - 1 \in 1 .. len
        BY <1>2, <1>7, <2>3
      <3>2. order[i - 1] # Left(p)
        BY <1>0, <1>1, <1>5, <2>3, <3>1 DEF Left
      <3>3. next'[order'[i]] = next[order[i - 1]]
        BY <3>1, <3>2
      <3>4. next[order[i - 1]] = IF i - 1 = len THEN Null ELSE order[i]
        BY <1>1, <1>6, <3>1
      <3>5. i # len' => order'[i + 1] = order[i]
        BY <1>1, <1>7, <2>3
      <3> QED
        BY <1>1, <3>3, <3>4, <3>5
    <2> QED
      BY <1>1, <2>1, <2>2, <2>3
  <1>9. ASSUME NEW i \in 1 .. len'
        PROVE  prev'[order'[i]] = IF i = 1 THEN Null ELSE order'[i - 1]
    <2>1. CASE i = p
      BY <1>1, <1>7, <2>1 DEF Left
    <2>2. CASE i < p
      <3>1. order'[i] = order[i] /\ order[i] \in Nodes /\ order[i] # n /\ i \in 1 .. len
        BY <1>2, <1>7, <2>2
      <3>2. order[i] # Right(p)
        BY <1>0, <1>1, <1>5, <2>2, <3>1 DEF Right
      <3>3. prev'[order'[i]] = prev[order[i]]
        BY <3>1, <3>2
      <3>4. i # 1 => order'[i - 1] = order[i - 1]
        BY <1>1, <1>7, <2>2
      <3> QED
        BY <1>6, <3>1, <3>3, <3>4
    <2>3. CASE i > p
      <3>1. order'[i] = order[i - 1] /\ order[i - 1] \in Nodes /\ order[i - 1] # n /\ i - 1 \in 1 .. len
        BY <1>2, <1>7, <2>3
      <3>2. order[i - 1] = Right(p) <=> i = p + 1
        BY <1>0, <1>1, <1>5, <2>3, <3>1 DEF Right
      <3>3. prev'[order'[i]] = IF i = p + 1 THEN n ELSE prev[order[i - 1]]
        BY <3>1, <3>2
      <3>4. CASE i = p + 1
        BY <1>1, <1>7, <3>3, <3>4
      <3>5. CASE i > p + 1
        <4>1. prev[order[i - 1]] = order[i - 2]
          BY <1>1, <1>6, <3>1, <3>5
        <4>2. order'[i - 1] = order[i - 2]
          BY <1>1, <1>7, <3>5
        <4> QED
          BY <1>1, <3>3, <3>5, <4>1, <4>2
      <3> QED
        BY <1>1, <2>3, <3>4, <3>5
    <2> QED
      BY <1>1, <2>1, <2>2, <2>3
  <1>10. ASSUME NEW m \in Nodes, ~Member(m)'
         PROVE  next'[m] = Null /\ prev'[m] = Null
    <2>1. m # n /\ ~Member(m)
      BY <1>10, InsertedOrder
    <2>2. m # Left(p) /\ m # Right(p)
      BY <1>0, <1>1, <2>1 DEF Left, Right, Member
    <2> QED
      BY <2>1, <2>2 DEF WellLinked
  <1>11. head' = IF len' = 0 THEN Null ELSE order'[1]
    <2>1. CASE p = 1
      BY <1>1, <1>7, <2>1
    <2>2. CASE p # 1
      BY <1>1, <1>7, <2>2 DEF WellLinked
    <2> QED
      BY <2>1, <2>2
  <1>12. tail' = IF len' = 0 THEN Null ELSE order'[len']
    <2>1. CASE p = len + 1
      BY <1>1, <1>7, <2>1
    <2>2. CASE p # len + 1
      BY <1>1, <1>7, <2>2 DEF WellLinked
    <2> QED
      BY <2>1, <2>2
  <1>13. count' = len' /\ \A i, j \in 1 .. len': order'[i] = order'[j] => i = j
    BY InsertedOrder DEF WellLinked
  <1> QED
    BY <1>4, <1>8, <1>9, <1>10, <1>11, <1>12, <1>13 DEF WellLinked

-----------------------------------------------------------------------------
(* The three insertions of the code are insertions between neighbours.     *)
LEMMA AddHeadLinks ==
    ASSUME NEW n \in Nodes, ListType, WellLinked, ~Member(n), AddHead(n)
    PROVE  ListType' /\ WellLinked'
  <1>1. Null \notin Nodes /\ len \in Nat /\ 1 \in 1 .. len + 1
    BY ListAssumption DEF ListType
  <1>2. head = Right(1) /\ Left(1) = Null
    BY <1>1 DEF Right, Left, WellLinked
  <1>3. head # Null => head \in Nodes /\ head # n
    BY <1>1 DEF WellLinked, ListType, Member
  <1>4. next' = [m \in Nodes |-> IF m = n THEN Right(1) ELSE IF m = Left(1) THEN n ELSE next[m]]
    BY <1>1, <1>2 DEF AddHead, ListType
  <1>5. prev' = [m \in Nodes |-> IF m = n THEN Left(1) ELSE IF m = Right(1) THEN n ELSE prev[m]]
    BY <1>1, <1>2, <1>3 DEF AddHead, ListType
  <1>6. tail' = IF 1 = len + 1 THEN n ELSE tail
    BY <1>1 DEF AddHead, WellLinked, ListType
  <1> QED
    BY <1>1, <1>4, <1>5, <1>6, InsertLinks DEF AddHead

LEMMA AddTailLinks ==
    ASSUME NEW n \in Nodes, ListType, WellLinked, ~Member(n), AddTail(n)
    PROVE  ListType' /\ WellLinked'
  <1>1. Null \notin Nodes /\ len \in Nat /\ len + 1 \in 1 .. len + 1
    BY ListAssumption DEF ListType
  <1>2. tail = Left(len + 1) /\ Right(len + 1) = Null
    BY <1>1 DEF Right, Left, WellLinked
  <1>3. tail # Null => tail \in Nodes /\ tail # n
    BY <1>1 DEF WellLinked, ListType, Member
  <1>4. next' = [m \in Nodes |-> IF m = n THEN Right(len + 1) ELSE IF m = Left(len + 1) THEN n ELSE next[m]]
    BY <1>1, <1>2, <1>3 DEF AddTail, ListType
  <1>5. prev' = [m \in Nodes |-> IF m = n THEN Left(len + 1) ELSE IF m = Right(len + 1) THEN n ELSE prev[m]]
    BY <1>1, <1>2 DEF AddTail, ListType
  <1>6. head' = IF len + 1 = 1 THEN n ELSE head
    BY <1>1 DEF AddTail, WellLinked, ListType
  <1> QED
    BY <1>1, <1>4, <1>5, <1>6, InsertLinks DEF AddTail

LEMMA AddBeforeLinks ==
    ASSUME NEW n \in Nodes, NEW e \in Nodes, ListType, WellLinked, ~Member(n), AddBefore(n, e)
    PROVE  ListType' /\ WellLinked'
  <1>1. PICK p \in 1 .. len: order[p] = e /\ order' = Inserted(p, n)
    BY DEF AddBefore
  <1>2. Null \notin Nodes /\ len \in Nat /\ p \in 1 .. len + 1 /\ p # len + 1
    BY ListAssumption DEF ListType
  <1>3. Right(p) = e /\ Left(p) = prev[e] /\ e # n
    BY <1>1, <1>2 DEF Right, Left, WellLinked, Member
  <1>4. prev[e] # Null => prev[e] \in Nodes /\ prev[e] # n
    BY <1>1, <1>2 DEF WellLinked, ListType, Member
  <1>5. next' = [m \in Nodes |-> IF m = n THEN Right(p) ELSE IF m = Left(p) THEN n ELSE next[m]]
    BY <1>2, <1>3, <1>4 DEF AddBefore, ListType
  <1>6. prev' = [m \in Nodes |-> IF m = n THEN Left(p) ELSE IF m = Right(p) THEN n ELSE prev[m]]
    BY <1>2, <1>3 DEF AddBefore, ListType
  <1>7. prev[e] = Null <=> p = 1
    BY <1>1, <1>2 DEF WellLinked, ListType
  <1>8. head' = IF p = 1 THEN n ELSE head
    BY <1>7 DEF AddBefore
  <1> QED
    BY <1>1, <1>2, <1>5, <1>6, <1>8, InsertLinks DEF AddBefore

(* Removal ties the two neighbours of the node together.                   *)
LEMMA UnlinkLinks ==
    ASSUME NEW n \in Nodes, ListType, WellLinked, Unlink(n)
    PROVE  ListType' /\ WellLinked'
  <1>1. PICK p \in 1 .. len: order[p] = n /\ order' = Removed(p)
    BY DEF Unlink
  <1>2. Null \notin Nodes /\ len \in Nat /\ p \in Nat /\ len' = len - 1 /\ len' \in Nat
    BY ListAssumption DEF ListType, Unlink
  <1>3. \A i \in 1 .. len: order[i] \in Nodes
    BY DEF ListType
  <1>4. \A i, j \in 1 .. len: order[i] = order[j] => i = j
    BY DEF WellLinked
  <1>5. \A i \in 1 .. len: /\ next[order[i]] = IF i = len THEN Null ELSE order[i + 1]
                           /\ prev[order[i]] = IF i = 1 THEN Null ELSE order[i - 1]
    BY DEF WellLinked
  <1>6. \A i \in 1 .. len': i < p => i \in 1 .. len /\ order'[i] = order[i]
    BY <1>1, <1>2 DEF Removed
  <1>7. \A i \in 1 .. len': i >= p => i + 1 \in 1 .. len /\ order'[i] = order[i + 1]
    BY <1>1, <1>2 DEF Removed
  <1>8. order' \in [1 .. len' -> Nodes]
    <2>1. \A i \in 1 .. len': order'[i] \in Nodes
      BY <1>2, <1>3, <1>6, <1>7
    <2> QED
      BY <1>1, <1>2, <2>1 DEF Removed
  <1>9. prev[n] = (IF p = 1 THEN Null ELSE order[p - 1]) /\ next[n] = (IF p = len THEN Null ELSE order[p + 1])
    BY <1>1, <1>5
  <1>10. /\ prev[n] \in Nodes \cup {Null} /\ prev[n] # n /\ (prev[n] = Null <=> p = 1)
         /\ next[n] \in Nodes \cup {Null} /\ next[n] # n /\ (next[n] = Null <=> p = len)
    BY <1>1, <1>2, <1>3, <1>4, <1>9
  <1>11. next' = [m \in Nodes |-> IF m = n THEN Null ELSE IF m = prev[n] THEN next[n] ELSE next[m]]
    BY <1>2, <1>10 DEF Unlink, ListType
  <1>12. prev' = [m \in Nodes |-> IF m = n THEN Null ELSE IF m = next[n] THEN prev[n] ELSE prev[m]]
    BY <1>2, <1>10 DEF Unlink, ListType
  <1>13. ListType'
    BY <1>2, <1>8, <1>10, <1>11, <1>12 DEF ListType
  <1>14. \A i, j \in 1 .. len': order'[i] = order'[j] => i = j
    <2> SUFFICES ASSUME NEW i \in 1 .. len', NEW j \in 1 .. len', order'[i] = order'[j], i < j
                 PROVE  FALSE
      BY <1>2
    <2> QED
      BY <1>2, <1>4, <1>6, <1>7
  <1>15. ASSUME NEW i \in 1 .. len'
         PROVE  /\ next'[order'[i]] = IF i = len' THEN Null ELSE order'[i + 1]
                /\ prev'[order'[i]] = IF i = 1 THEN Null ELSE order'[i - 1]
    <2>1. CASE i < p
      <3>1. order'[i] = order[i] /\ order[i] \in Nodes /\ i \in 1 .. len /\ order[i] # n
        BY <1>1, <1>2, <1>3, <1>4, <1>6, <2>1
      <3>2. order[i] = prev[n] <=> i = p - 1
        BY <1>2, <1>4, <1>9, <2>1, <3>1
      <3>3. order[i] # next[n]
        BY <1>2, <1>4, <1>9, <2>1, <3>1
      <3>4. next'[order'[i]] = IF i = p - 1 THEN next[n] ELSE next[order[i]]
        BY <1>11, <3>1, <3>2
      <3>5. prev'[order'[i]] = prev[order[i]]
        BY <1>12, <3>1, <3>3
      <3>6. i # 1 => order'[i - 1] = order[i - 1]
        BY <1>2, <1>6, <2>1
      <3>7. CASE i = p - 1
        <4>1. i = len' <=> p = len
          BY <1>2, <3>7
        <4>2. i # len' => order'[i + 1] = order[p + 1]
          BY <1>2, <1>7, <3>7
        <4> QED
          BY <1>5, <1>9, <3>1, <3>4, <3>5, <3>6, <3>7, <4>1, <4>2
      <3>8. CASE i < p - 1
        <4>1. i # len' /\ i # len /\ i + 1 \in 1 .. len' /\ i + 1 < p
          BY <1>2, <3>8
        <4>2. order'[i + 1] = order[i + 1]
          BY <1>6, <4>1
        <4> QED
          BY <1>2, <1>5, <3>1, <3>4, <3>5, <3>6, <3>8, <4>1, <4>2
      <3> QED
        BY <1>2, <2>1, <3>7, <3>8
    <2>2. CASE i >= p
      <3>1. order'[i] = order[i + 1] /\ order[i + 1] \in Nodes /\ i + 1 \in 1 .. len /\ order[i + 1] # n
        BY <1>1, <1>2, <1>3, <1>4, <1>7, <2>2
      <3>2. order[i + 1] # prev[n]
        BY <1>2, <1>4, <1>9, <2>2, <3>1
      <3>3. order[i + 1] = next[n] <=> i = p
        BY <1>2, <1>4, <1>9, <2>2, <3>1
      <3>4. next'[order'[i]] = next[order[i + 1]]
        BY <1>11, <3>1, <3>2
      <3>5. prev'[order'[i]] = IF i = p THEN prev[n] ELSE prev[order[i + 1]]
        BY <1>12, <3>1, <3>3
      <3>6. next[order[i + 1]] = IF i + 1 = len THEN Null ELSE order[i + 2]
        BY <1>2, <1>5, <3>1
      <3>7. i # len' => order'[i + 1] = order[i + 2]
        BY <1>2, <1>7, <2>2
      <3>8. CASE i = p
        <4>1. i # 1 => order'[i - 1] = order[i - 1]
          BY <1>2, <1>6, <3>8
        <4> QED
          BY <1>2, <1>9, <3>4, <3>5, <3>6, <3>7, <3>8, <4>1
      <3>9. CASE i > p
        <4>1. i # 1 /\ prev[order[i + 1]] = order[i]
          BY <1>2, <1>5, <3>1, <3>9
        <4>2. order'[i - 1] = order[i]
          BY <1>2, <1>7, <3>9
        <4> QED
          BY <1>2, <3>4, <3>5, <3>6, <3>7, <3>9, <4>1, <4>2
      <3> QED
        BY <1>2, <2>2, <3>8, <3>9
    <2> QED
      BY <1>2, <2>1, <2>2
  <1>16. head' = IF len' = 0 THEN Null ELSE order'[1]
    <2>1. CASE p = 1
      BY <1>2, <1>7, <1>9, <1>10, <2>1 DEF Unlink
    <2>2. CASE p # 1
      BY <1>2, <1>6, <1>10, <2>2 DEF Unlink, WellLinked
    <2> QED
      BY <2>1, <2>2
  <1>17. tail' = IF len' = 0 THEN Null ELSE order'[len']
    <2>1. CASE p = len
      BY <1>2, <1>6, <1>9, <1>10, <2>1 DEF Unlink
    <2>2. CASE p # len
      BY <1>2, <1>7, <1>10, <2>2 DEF Unlink, WellLinked
    <2> QED
      BY <2>1, <2>2
  <1>18. ASSUME NEW m \in Nodes, ~Member(m)'
         PROVE  next'[m] = Null /\ prev'[m] = Null
    <2>1. CASE m = n
      BY <1>11, <1>12, <2>1
    <2>2. CASE m # n
      <3>1. ASSUME NEW i \in 1 .. len, order[i] = m PROVE FALSE
        <4>1. CASE i < p
          BY <1>2, <1>6, <1>18, <3>1, <4>1 DEF Member
        <4>2. CASE i = p
          BY <1>1, <2>2, <3>1, <4>2
        <4>3. CASE i > p
          <5>1. i - 1 \in 1 .. len' /\ i - 1 >= p /\ (i - 1) + 1 = i
            BY <1>2, <4>3
          <5> QED
            BY <1>7, <1>18, <3>1, <5>1 DEF Member
        <4> QED
          BY <1>2, <4>1, <4>2, <4>3
      <3>2. ~Member(m)
        BY <3>1 DEF Member
      <3>3. m # prev[n] /\ m # next[n]
        BY <1>2, <1>9, <3>2 DEF Member
      <3> QED
        BY <1>11, <1>12, <2>2, <3>2, <3>3 DEF WellLinked
    <2> QED
      BY <2>1, <2>2
  <1>19. count' = len'
    BY <1>2 DEF Unlink, WellLinked
  <1> QED
    BY <1>13, <1>14, <1>15, <1>16, <1>17, <1>18, <1>19 DEF WellLinked

-----------------------------------------------------------------------------
(* A search moves to the next node: it stays inside the list.              *)
LEMMA WalkOn ==
    ASSUME ListInv, walk # Idle, walk.cur # Null,
           walk.kind = "at" => walk.counting # walk.index,
           walk' = Loop(walk.kind, walk.node, next[walk.cur], walk.counting + 1, walk.index),
           UNCHANGED <<links, len, order>>
    PROVE  ListInv'
  <1>1. ListType' /\ WellLinked'
    BY DEF ListInv, ListType, WellLinked, Member, links
  <1>2. /\ walk \in [kind: {"sorted", "at"}, node: Nodes, cur: Nodes \cup {Null},
                     counting: Nat, index: Nat]
        /\ len \in Nat
        /\ walk.counting < len
        /\ walk.cur = order[walk.counting + 1]
    BY DEF ListInv, WalkInside, ListType
  <1>3. walk.counting + 1 \in 1 .. len /\ walk.counting + 1 \in Nat
    BY <1>2
  <1>4. next[walk.cur] = IF walk.counting + 1 = len THEN Null ELSE order[(walk.counting + 1) + 1]
    BY <1>2, <1>3 DEF ListInv, WellLinked
  <1>5. next[walk.cur] \in Nodes \cup {Null}
    BY <1>2, <1>3 DEF ListInv, ListType
  <1>6. walk.kind = "at" => walk.counting + 1 <= walk.index /\ walk.index \in 1 .. len - 1
    BY <1>2 DEF ListInv, WalkInside
  <1>7. WalkInside'
    BY <1>2, <1>3, <1>4, <1>5, <1>6 DEF ListInv, WalkInside, Loop, Member
  <1> QED
    BY <1>1, <1>7 DEF ListInv

(* A search begins at the head of a list that is not empty.                *)
LEMMA WalkStarts ==
    ASSUME NEW n \in Nodes, NEW kind \in {"sorted", "at"}, NEW index \in Nat,
           ListInv, ~Member(n), len > 0, kind = "at" => index \in 1 .. len - 1,
           walk' = Loop(kind, n, head, 0, index),
           UNCHANGED <<links, len, order>>
    PROVE  ListInv'
  <1>1. ListType' /\ WellLinked'
    BY DEF ListInv, ListType, WellLinked, Member, links
  <1>2. len \in Nat /\ head = order[1] /\ head \in Nodes
    BY DEF ListInv, ListType, WellLinked
  <1>3. WalkInside'
    BY <1>2 DEF WalkInside, Loop, Member, links
  <1> QED
    BY <1>1, <1>3 DEF ListInv

(* Every step of the list preserves the invariant.                         *)
LEMMA NextListInv == ListInv /\ [ListNext]_listVars => ListInv'
  <1> SUFFICES ASSUME ListInv, [ListNext]_listVars PROVE ListInv'
    OBVIOUS
  <1>0. ListType /\ WellLinked /\ WalkInside /\ len \in Nat /\ count = len
    BY DEF ListInv, ListType, WellLinked
  <1>1. ASSUME NEW n \in Nodes, intrusivelist_insert_head(n) PROVE ListInv'
    BY <1>0, <1>1, AddHeadLinks DEF intrusivelist_insert_head, ListInv, WalkInside
  <1>2. ASSUME NEW n \in Nodes, intrusivelist_insert_tail(n) PROVE ListInv'
    BY <1>0, <1>2, AddTailLinks DEF intrusivelist_insert_tail, ListInv, WalkInside
  <1>3. ASSUME NEW n \in Nodes, intrusivelist_insert_sorted(n) PROVE ListInv'
    <2>1. CASE count = 0
      BY <1>0, <1>3, <2>1, AddHeadLinks DEF intrusivelist_insert_sorted, ListInv, WalkInside
    <2>2. CASE count # 0
      <3>1. ~Member(n) /\ len > 0 /\ walk' = Loop("sorted", n, head, 0, 0) /\ UNCHANGED <<links, len, order>>
        BY <1>0, <1>3, <2>2 DEF intrusivelist_insert_sorted
      <3> QED
        BY <3>1, WalkStarts
    <2> QED
      BY <2>1, <2>2
  <1>4. ASSUME NEW n \in Nodes, intrusivelist_remove(n) PROVE ListInv'
    BY <1>0, <1>4, UnlinkLinks DEF intrusivelist_remove, ListInv, WalkInside
  <1>5. ASSUME NEW n \in Nodes, NEW index \in 0 .. len, intrusivelist_insert_at(n, index)
        PROVE  ListInv'
    <2>1. CASE index = 0
      BY <1>0, <1>5, <2>1, AddHeadLinks DEF intrusivelist_insert_at, ListInv, WalkInside
    <2>2. CASE index # 0 /\ index = count
      BY <1>0, <1>5, <2>2, AddTailLinks DEF intrusivelist_insert_at, ListInv, WalkInside
    <2>3. CASE index # 0 /\ index # count
      <3>1. /\ ~Member(n) /\ len > 0 /\ index \in Nat /\ index \in 1 .. len - 1
            /\ walk' = Loop("at", n, head, 0, index) /\ UNCHANGED <<links, len, order>>
        BY <1>0, <1>5, <2>3 DEF intrusivelist_insert_at
      <3> QED
        BY <3>1, WalkStarts
    <2> QED
      BY <2>1, <2>2, <2>3
  <1>6. ASSUME SortedStep PROVE ListInv'
    <2>1. walk # Idle /\ walk.kind = "sorted"
      BY <1>6 DEF SortedStep, Idle
    <2>2. /\ walk \in [kind: {"sorted", "at"}, node: Nodes, cur: Nodes \cup {Null},
                       counting: Nat, index: Nat]
          /\ ~Member(walk.node)
      BY <1>0, <2>1 DEF WalkInside
    <2>3. CASE walk.cur = Null
      BY <1>0, <1>6, <2>2, <2>3, AddTailLinks DEF SortedStep, ListInv, WalkInside
    <2>4. CASE walk.cur # Null /\ Key[walk.cur] > Key[walk.node]
      BY <1>0, <1>6, <2>2, <2>4, AddBeforeLinks DEF SortedStep, ListInv, WalkInside
    <2>5. CASE walk.cur # Null /\ ~(Key[walk.cur] > Key[walk.node])
      <3>1. /\ walk' = Loop("sorted", walk.node, next[walk.cur], walk.counting + 1, 0)
            /\ UNCHANGED <<links, len, order>>
        BY <1>6, <2>5 DEF SortedStep
      <3>2. ListType' /\ WellLinked'
        BY <1>0, <3>1 DEF ListType, WellLinked, Member, links
      <3>3. walk.counting < len /\ walk.cur = order[walk.counting + 1]
        BY <1>0, <2>1, <2>2, <2>5 DEF WalkInside
      <3>4. walk.counting + 1 \in 1 .. len /\ walk.counting + 1 \in Nat
        BY <1>0, <2>2, <3>3
      <3>5. next[walk.cur] = IF walk.counting + 1 = len THEN Null ELSE order[(walk.counting + 1) + 1]
        BY <1>0, <3>3, <3>4 DEF WellLinked
      <3>6. next[walk.cur] \in Nodes \cup {Null}
        BY <1>0, <2>2, <2>5 DEF ListType
      <3>7. WalkInside'
        BY <1>0, <2>2, <3>1, <3>4, <3>5, <3>6 DEF WalkInside, Loop, Member
      <3> QED
        BY <3>2, <3>7 DEF ListInv
    <2> QED
      BY <2>3, <2>4, <2>5
  <1>7. ASSUME AtStep PROVE ListInv'
    <2>1. walk # Idle /\ walk.kind = "at"
      BY <1>7 DEF AtStep, Idle
    <2>2. /\ walk \in [kind: {"sorted", "at"}, node: Nodes, cur: Nodes \cup {Null},
                       counting: Nat, index: Nat]
          /\ ~Member(walk.node)
          /\ walk.counting < len
          /\ walk.cur = order[walk.counting + 1]
      BY <1>0, <2>1 DEF WalkInside
    <2>3. walk.cur \in Nodes /\ walk.cur # Null
      BY <1>0, <2>2, ListAssumption DEF ListType
    <2>4. CASE walk.counting = walk.index
      BY <1>0, <1>7, <2>2, <2>3, <2>4, AddBeforeLinks DEF AtStep, ListInv, WalkInside
    <2>5. CASE walk.counting # walk.index
      BY <1>7, <2>1, <2>3, <2>5, WalkOn DEF AtStep
    <2> QED
      BY <2>4, <2>5
  <1>8. ASSUME intrusivelist_remove_head PROVE ListInv'
    <2>1. head \in Nodes
      BY <1>0, <1>8 DEF intrusivelist_remove_head, WellLinked, ListType
    <2> QED
      BY <1>0, <1>8, <2>1, UnlinkLinks DEF intrusivelist_remove_head, ListInv, WalkInside
  <1>9. ASSUME intrusivelist_remove_tail PROVE ListInv'
    <2>1. tail \in Nodes
      BY <1>0, <1>9 DEF intrusivelist_remove_tail, WellLinked, ListType
    <2> QED
      BY <1>0, <1>9, <2>1, UnlinkLinks DEF intrusivelist_remove_tail, ListInv, WalkInside
  <1>10. ASSUME UNCHANGED listVars PROVE ListInv'
    BY <1>0, <1>10 DEF ListInv, ListType, WellLinked, WalkInside, Member, listVars, Idle
  <1> QED
    BY <1>1, <1>2, <1>3, <1>4, <1>5, <1>6, <1>7, <1>8, <1>9, <1>10 DEF ListNext

(* What a sorted search has passed is not greater than its node, and a     *)
(* search at an index means that the list need not be sorted.              *)
SortedSoFar ==
    /\ StaysSorted
    /\ walk.kind = "sorted" => \A i \in 1 .. walk.counting: Key[order[i]] <= Key[walk.node]
    /\ walk.kind = "at" => ~sorted

(* Every step keeps a sorted list sorted.                                  *)
LEMMA NextSorted == ListInv /\ SortedSoFar /\ [ListNext]_listVars => SortedSoFar'
  <1> SUFFICES ASSUME ListInv, SortedSoFar, [ListNext]_listVars PROVE SortedSoFar'
    OBVIOUS
  <1>0. /\ ListType /\ WellLinked /\ WalkInside /\ len \in Nat /\ count = len
        /\ \A n \in Nodes: Key[n] \in Int
        /\ \A i \in 1 .. len: order[i] \in Nodes
    BY ListAssumption DEF ListInv, ListType, WellLinked
  <1>1. ASSUME NEW n \in Nodes, intrusivelist_insert_head(n) \/ intrusivelist_insert_tail(n)
        PROVE  SortedSoFar'
    BY <1>1 DEF intrusivelist_insert_head, intrusivelist_insert_tail, SortedSoFar, StaysSorted, Idle
  <1>2. ASSUME NEW n \in Nodes, intrusivelist_insert_sorted(n) PROVE SortedSoFar'
    <2>1. CASE count = 0
      <3>1. len' = 1 /\ walk' = Idle
        BY <1>0, <1>2, <2>1 DEF intrusivelist_insert_sorted, AddHead
      <3> QED
        BY <3>1 DEF SortedSoFar, StaysSorted, Idle
    <2>2. CASE count # 0
      <3>1. walk' = Loop("sorted", n, head, 0, 0) /\ UNCHANGED <<len, order, sorted>>
        BY <1>2, <2>2 DEF intrusivelist_insert_sorted
      <3> QED
        BY <3>1 DEF SortedSoFar, StaysSorted, Loop
    <2> QED
      BY <2>1, <2>2
  <1>3. ASSUME NEW n \in Nodes, NEW index \in 0 .. len, intrusivelist_insert_at(n, index)
        PROVE  SortedSoFar'
    BY <1>3 DEF intrusivelist_insert_at, SortedSoFar, StaysSorted, Idle, Loop
  <1>4. ASSUME NEW n \in Nodes, Unlink(n), walk = Idle, UNCHANGED <<walk, sorted>>
        PROVE  SortedSoFar'
    <2>1. PICK p \in 1 .. len: order[p] = n /\ order' = Removed(p)
      BY <1>4 DEF Unlink
    <2>2. len' = len - 1 /\ p \in Nat
      BY <1>4 DEF Unlink
    <2>3. /\ \A i \in 1 .. len': i < p => i \in 1 .. len /\ order'[i] = order[i]
          /\ \A i \in 1 .. len': i >= p => i + 1 \in 1 .. len /\ order'[i] = order[i + 1]
      BY <1>0, <2>1, <2>2 DEF Removed
    <2>4. StaysSorted'
      <3> SUFFICES ASSUME sorted, NEW i \in 1 .. len', NEW j \in 1 .. len', i < j
                   PROVE  Key[order'[i]] <= Key[order'[j]]
        BY <1>4 DEF StaysSorted
      <3>1. \A k, l \in 1 .. len: k < l => Key[order[k]] <= Key[order[l]]
        BY DEF SortedSoFar, StaysSorted
      <3>2. CASE j < p
        BY <1>0, <2>2, <2>3, <3>1, <3>2
      <3>3. CASE i < p /\ j >= p
        BY <1>0, <2>2, <2>3, <3>1, <3>3
      <3>4. CASE i >= p
        BY <1>0, <2>2, <2>3, <3>1, <3>4
      <3> QED
        BY <1>0, <2>2, <3>2, <3>3, <3>4
    <2> QED
      BY <1>4, <2>4 DEF SortedSoFar, Idle
  <1>5. ASSUME NEW n \in Nodes, intrusivelist_remove(n) PROVE SortedSoFar'
    BY <1>4, <1>5 DEF intrusivelist_remove
  <1>6. ASSUME intrusivelist_remove_head PROVE SortedSoFar'
    <2>1. head \in Nodes
      BY <1>0, <1>6 DEF intrusivelist_remove_head, WellLinked
    <2> QED
      BY <1>4, <1>6, <2>1 DEF intrusivelist_remove_head
  <1>7. ASSUME intrusivelist_remove_tail PROVE SortedSoFar'
    <2>1. tail \in Nodes
      BY <1>0, <1>7 DEF intrusivelist_remove_tail, WellLinked
    <2> QED
      BY <1>4, <1>7, <2>1 DEF intrusivelist_remove_tail
  <1>8. ASSUME AtStep PROVE SortedSoFar'
    <2>1. ~sorted /\ ~sorted' /\ walk.kind = "at"
      BY <1>8 DEF AtStep, SortedSoFar
    <2>2. walk'.kind # "sorted"
      BY <1>8 DEF AtStep, Idle, Loop
    <2> QED
      BY <2>1, <2>2 DEF SortedSoFar, StaysSorted
  <1>9. ASSUME SortedStep PROVE SortedSoFar'
    <2>1. /\ walk.kind = "sorted" /\ walk # Idle
          /\ walk.node \in Nodes /\ walk.counting \in Nat /\ walk.counting <= len
          /\ ~Member(walk.node)
          /\ walk.cur = IF walk.counting = len THEN Null ELSE order[walk.counting + 1]
          /\ \A i \in 1 .. walk.counting: Key[order[i]] <= Key[walk.node]
      BY <1>0, <1>9 DEF SortedStep, WalkInside, Idle, SortedSoFar
    <2>2. ASSUME NEW p \in 1 .. len + 1, p = walk.counting + 1, len' = len + 1, order' = Inserted(p, walk.node),
                 p <= len => Key[order[p]] > Key[walk.node], walk' = Idle, sorted' = sorted
          PROVE  SortedSoFar'
      <3>1. /\ \A i \in 1 .. len': i < p => i \in 1 .. len /\ order'[i] = order[i]
            /\ order'[p] = walk.node
            /\ \A i \in 1 .. len': i > p => i - 1 \in 1 .. len /\ order'[i] = order[i - 1]
        BY <1>0, <2>1, <2>2, InsertedOrder
      <3>2. StaysSorted'
        <4> SUFFICES ASSUME sorted, NEW i \in 1 .. len', NEW j \in 1 .. len', i < j
                     PROVE  Key[order'[i]] <= Key[order'[j]]
          BY <2>2 DEF StaysSorted
        <4>1. \A k, l \in 1 .. len: k < l => Key[order[k]] <= Key[order[l]]
          BY DEF SortedSoFar, StaysSorted
        <4>2. CASE j < p
          BY <1>0, <2>2, <3>1, <4>1, <4>2
        <4>3. CASE j = p
          BY <1>0, <2>1, <2>2, <3>1, <4>3
        <4>4. CASE i < p /\ j > p
          BY <1>0, <2>2, <3>1, <4>1, <4>4
        <4>5. CASE i = p
          <5>1. j - 1 \in p .. len /\ order'[j] = order[j - 1] /\ Key[order[p]] > Key[walk.node] /\ p \in 1 .. len
            BY <1>0, <2>2, <3>1, <4>5
          <5>2. Key[order[p]] <= Key[order[j - 1]]
            BY <1>0, <4>1, <5>1
          <5> QED
            BY <1>0, <2>1, <3>1, <4>5, <5>1, <5>2
        <4>6. CASE i > p
          BY <1>0, <2>2, <3>1, <4>1, <4>6
        <4> QED
          BY <1>0, <2>2, <4>2, <4>3, <4>4, <4>5, <4>6
      <3> QED
        BY <2>2, <3>2 DEF SortedSoFar, Idle
    <2>3. CASE walk.cur = Null
      <3>1. walk.counting = len
        BY <1>0, <2>1, <2>3, ListAssumption
      <3>2. len + 1 \in 1 .. len + 1 /\ len' = len + 1 /\ order' = Inserted(len + 1, walk.node) /\ walk' = Idle /\ sorted' = sorted
        BY <1>0, <1>9, <2>3 DEF SortedStep, AddTail
      <3> QED
        BY <1>0, <2>2, <3>1, <3>2
    <2>4. CASE walk.cur # Null /\ Key[walk.cur] > Key[walk.node]
      <3>1. walk.counting < len /\ walk.counting + 1 \in 1 .. len /\ walk.cur = order[walk.counting + 1]
        BY <1>0, <2>1, <2>4
      <3>2. PICK p \in 1 .. len: order[p] = walk.cur /\ order' = Inserted(p, walk.node)
        BY <1>9, <2>4 DEF SortedStep, AddBefore
      <3>3. p = walk.counting + 1
        BY <1>0, <3>1, <3>2 DEF WellLinked
      <3>4. len' = len + 1 /\ walk' = Idle /\ sorted' = sorted
        BY <1>9, <2>4 DEF SortedStep, AddBefore
      <3> QED
        BY <1>0, <2>2, <2>4, <3>2, <3>3, <3>4
    <2>5. CASE walk.cur # Null /\ ~(Key[walk.cur] > Key[walk.node])
      <3>1. walk' = Loop("sorted", walk.node, next[walk.cur], walk.counting + 1, 0) /\ UNCHANGED <<len, order, sorted>>
        BY <1>9, <2>5 DEF SortedStep
      <3>2. walk.counting + 1 \in 1 .. len /\ walk.cur = order[walk.counting + 1] /\ Key[walk.cur] <= Key[walk.node]
        BY <1>0, <2>1, <2>5
      <3>3. \A i \in 1 .. walk.counting + 1: Key[order[i]] <= Key[walk.node]
        BY <2>1, <3>2
      <3> QED
        BY <3>1, <3>3 DEF SortedSoFar, StaysSorted, Loop
    <2> QED
      BY <2>3, <2>4, <2>5
  <1>10. ASSUME UNCHANGED listVars PROVE SortedSoFar'
    BY <1>10 DEF SortedSoFar, StaysSorted, listVars
  <1> QED
    BY <1>1, <1>2, <1>3, <1>5, <1>6, <1>7, <1>8, <1>9, <1>10 DEF ListNext

(* After every call and inside every search an intrusive list is one list  *)
(* of distinct nodes linked in both directions, sorted where only sorted   *)
(* insertions were used, and the searches stay inside of it: for every set *)
(* of nodes, every integer key and every sequence of calls.                *)
THEOREM ListStaysSound == ListSpec => []ListSound
  <1>1. ListInit => SortedSoFar
    BY DEF ListInit, SortedSoFar, StaysSorted, Idle
  <1>2. ASSUME ListInv, SortedSoFar PROVE ListSound
    <2>1. SearchInside
      <3> SUFFICES ASSUME walk.kind = "at"
                   PROVE  walk.cur # Null /\ (walk.counting = walk.index => prev[walk.cur] # Null)
        BY DEF SearchInside
      <3>1. /\ walk.counting \in Nat /\ walk.index \in 1 .. len - 1 /\ walk.counting <= walk.index
            /\ len \in Nat /\ walk.counting + 1 \in 1 .. len
            /\ walk.cur = order[walk.counting + 1] /\ walk.cur \in Nodes
        BY <1>2 DEF ListInv, WalkInside, Idle, ListType
      <3>2. walk.counting = walk.index => prev[walk.cur] = order[walk.counting] /\ walk.counting \in 1 .. len
        BY <1>2, <3>1 DEF ListInv, WellLinked
      <3>3. walk.counting = walk.index => order[walk.counting] \in Nodes
        BY <1>2, <3>2 DEF ListInv, ListType
      <3> QED
        BY <3>1, <3>2, <3>3, ListAssumption
    <2> QED
      BY <1>2, <2>1 DEF ListSound, ListInv, SortedSoFar
  <1> QED
    BY InitListInv, NextListInv, NextSorted, <1>1, <1>2, PTL DEF ListSpec


-----------------------------------------------------------------------------
(* The list that owns its nodes (lib/ds/linkedlist.c)                      *)

OwnedInv == ListInv /\ OwnsItsNodes /\ DOMAIN data = Nodes

\* OwnsItsNodes, node by node and without the ends.
Owned ==
    /\ \A m : m \in live <=> Member(m)
    /\ \A i \in 1 .. len : data[order[i]] = held[i]

(* The ends are nodes of the list, so that the peeks follow.               *)
LEMMA OwnedParts == ListInv => (OwnsItsNodes <=> Owned)
  <1> SUFFICES ASSUME ListInv PROVE OwnsItsNodes <=> Owned
    OBVIOUS
  <1>1. (live = {order[i] : i \in 1 .. len}) <=> \A m : m \in live <=> Member(m)
    BY DEF Member
  <1>2. ASSUME \A i \in 1 .. len : data[order[i]] = held[i], len > 0
        PROVE  linkedlist_peek_head = held[1] /\ linkedlist_peek_tail = held[len]
    <2>1. len \in Nat /\ 1 \in 1 .. len /\ len \in 1 .. len
      BY <1>2 DEF ListInv, ListType
    <2>2. head = order[1] /\ tail = order[len] /\ order[1] \in Nodes /\ order[len] \in Nodes
      BY <2>1 DEF ListInv, ListType, WellLinked
    <2>3. head # Null /\ tail # Null
      BY <2>2, ListAssumption
    <2>4. QED
      BY <1>2, <2>1, <2>2, <2>3 DEF linkedlist_peek_head, linkedlist_peek_tail
  <1>3. QED
    BY <1>1, <1>2 DEF OwnsItsNodes, Owned

LEMMA OwnedPartsAfter == (ListInv => (OwnsItsNodes <=> Owned))'
  BY OwnedParts, PTL

(* A new node holds its data at its place.                                 *)
LEMMA FilledKeeps ==
    ASSUME OwnedInv, ListInv', NEW n \in Nodes, NEW d, NEW p \in 1 .. len + 1, ~Member(n),
           len' = len + 1, order' = Inserted(p, n), Filled(n, d, p)
    PROVE  OwnedInv'
  <1>0. ListType /\ WellLinked /\ Owned /\ len \in Nat /\ DOMAIN data = Nodes
    BY OwnedParts DEF OwnedInv, ListInv, ListType
  <1>1. /\ order' \in [1 .. len' -> Nodes]
        /\ \A i \in 1 .. len' : i < p => i \in 1 .. len /\ order'[i] = order[i]
        /\ order'[p] = n
        /\ \A i \in 1 .. len' : i > p => i - 1 \in 1 .. len /\ order'[i] = order[i - 1]
        /\ \A m : Member(m)' <=> m = n \/ Member(m)
    BY <1>0, InsertedOrder
  <1>2. /\ live' = live \cup {n} /\ DOMAIN data' = Nodes /\ data'[n] = d
        /\ \A m \in Nodes : m # n => data'[m] = data[m]
    BY <1>0 DEF Filled
  <1>3. \A i \in 1 .. len' : held'[i] = IF i < p THEN held[i] ELSE IF i = p THEN d ELSE held[i - 1]
    BY <1>0 DEF Filled
  <1>4. \A i \in 1 .. len : order[i] \in Nodes /\ order[i] # n
    BY <1>0 DEF ListType, Member
  <1>5. ASSUME NEW i \in 1 .. len' PROVE data'[order'[i]] = held'[i]
    <2>1. CASE i < p
      <3>1. i \in 1 .. len /\ order'[i] = order[i] /\ held'[i] = held[i]
        BY <2>1, <1>1, <1>3
      <3>2. QED
        BY <3>1, <1>0, <1>2, <1>4 DEF Owned
    <2>2. CASE i = p
      <3>1. held'[i] = d
        BY <2>2, <1>0, <1>3
      <3>2. QED
        BY <2>2, <3>1, <1>1, <1>2
    <2>3. CASE i > p
      <3>1. i - 1 \in 1 .. len /\ order'[i] = order[i - 1]
        BY <2>3, <1>1
      <3>2. held'[i] = held[i - 1]
        BY <2>3, <1>0, <1>3
      <3>3. QED
        BY <3>1, <3>2, <1>0, <1>2, <1>4 DEF Owned
    <2>4. QED
      BY <2>1, <2>2, <2>3, <1>0
  <1>6. Owned'
    <2>1. \A m : m \in live' <=> Member(m)'
      BY <1>0, <1>1, <1>2 DEF Owned
    <2>2. QED
      BY <2>1, <1>5 DEF Owned
  <1>7. OwnsItsNodes'
    BY <1>6, OwnedPartsAfter
  <1>8. QED
    BY <1>2, <1>7 DEF OwnedInv

(* The node that is freed is the one that has left the list.               *)
LEMMA FreedKeeps ==
    ASSUME OwnedInv, ListInv', NEW p \in 1 .. len, Unlink(order[p]), Freed(order[p], p)
    PROVE  OwnedInv'
  <1>0. /\ ListType /\ WellLinked /\ Owned /\ len \in Nat /\ DOMAIN data = Nodes
        /\ \A i, j \in 1 .. len : order[i] = order[j] => i = j
    BY OwnedParts DEF OwnedInv, ListInv, ListType, WellLinked
  <1>1. len' = len - 1 /\ order' = Removed(p)
    BY <1>0 DEF Unlink
  <1>2. live' = live \ {order[p]} /\ data' = data
    BY DEF Freed
  <1>3. \A i \in 1 .. len' : /\ i < p => i \in 1 .. len /\ order'[i] = order[i] /\ held'[i] = held[i]
                             /\ i >= p => /\ i + 1 \in 1 .. len /\ order'[i] = order[i + 1]
                                          /\ held'[i] = held[i + 1]
    BY <1>0, <1>1 DEF Removed, Freed
  <1>4. ASSUME NEW i \in 1 .. len' PROVE data'[order'[i]] = held'[i]
    <2>1. CASE i < p
      BY <2>1, <1>0, <1>2, <1>3 DEF Owned
    <2>2. CASE i >= p
      <3>1. i + 1 \in 1 .. len /\ order'[i] = order[i + 1] /\ held'[i] = held[i + 1]
        BY <2>2, <1>3
      <3>2. QED
        BY <3>1, <1>0, <1>2 DEF Owned
    <2>3. QED
      BY <2>1, <2>2, <1>0, <1>1
  <1>5. ASSUME NEW m PROVE m \in live' <=> Member(m)'
    <2>1. ASSUME NEW i \in 1 .. len, order[i] = m, i # p PROVE Member(m)'
      <3>1. CASE i < p
        <4>1. i \in 1 .. len'
          BY <3>1, <1>0, <1>1
        <4>2. QED
          BY <2>1, <3>1, <4>1, <1>3 DEF Member
      <3>2. CASE i > p
        <4>1. PICK k \in 1 .. len' : k + 1 = i /\ k >= p
          BY <3>2, <1>0, <1>1
        <4>2. order'[k] = m
          BY <2>1, <4>1, <1>3
        <4>3. QED
          BY <4>2 DEF Member
      <3>3. QED
        BY <2>1, <3>1, <3>2, <1>0
    <2>2. ASSUME NEW i \in 1 .. len', order'[i] = m PROVE Member(m) /\ m # order[p]
      <3>1. CASE i < p
        BY <2>2, <3>1, <1>0, <1>3 DEF Member
      <3>2. CASE i >= p
        <4>1. i + 1 \in 1 .. len /\ m = order[i + 1] /\ i + 1 # p
          BY <2>2, <3>2, <1>0, <1>1, <1>3
        <4>2. QED
          BY <4>1, <1>0 DEF Member
      <3>3. QED
        BY <3>1, <3>2, <1>0, <1>1
    <2>3. m \in live <=> Member(m)
      BY <1>0 DEF Owned
    <2>4. Member(m) /\ m # order[p] => Member(m)'
      BY <2>1 DEF Member
    <2>5. Member(m)' => Member(m) /\ m # order[p]
      BY <2>2 DEF Member
    <2>6. QED
      BY <2>3, <2>4, <2>5, <1>2
  <1>6. Owned'
    BY <1>4, <1>5 DEF Owned
  <1>7. OwnsItsNodes'
    BY <1>6, OwnedPartsAfter
  <1>8. QED
    BY <1>0, <1>2, <1>7 DEF OwnedInv

(* A step of a search leaves the contents alone.                           *)
LEMMA SameContents ==
    ASSUME OwnedInv, ListInv', UNCHANGED <<len, order>>, UNCHANGED ownedVars
    PROVE  OwnedInv'
  <1>1. Owned
    BY OwnedParts DEF OwnedInv
  <1>2. Owned'
    BY <1>1 DEF Owned, Member, ownedVars
  <1>3. OwnsItsNodes'
    BY <1>2, OwnedPartsAfter
  <1>4. QED
    BY <1>3 DEF OwnedInv, ownedVars

(* An owning list is a list: each of its calls is one of the intrusive list.*)
LEMMA OwnedIsList == ListInv /\ OwnedNext => ListNext
  <1>1. ASSUME NEW n \in Nodes, NEW d \in Data,
               linkedlist_insert_head(n, d) \/ linkedlist_insert_tail(n, d)
        PROVE  ListNext
    BY <1>1 DEF ListNext, linkedlist_insert_head, linkedlist_insert_tail
  <1>2. ASSUME NEW n \in Nodes, NEW d \in Data, NEW index \in 0 .. len, linkedlist_insert_at(n, d, index)
        PROVE  ListNext
    BY <1>2 DEF ListNext, linkedlist_insert_at
  <1>3. CASE linkedlist_remove_head \/ linkedlist_remove_tail
    BY <1>3 DEF ListNext, linkedlist_remove_head, linkedlist_remove_tail
  <1>4. ASSUME ListInv, NEW d \in Data, linkedlist_remove(d) PROVE ListNext
    <2>1. PICK p \in 1 .. len : intrusivelist_remove(order[p])
      BY <1>4 DEF linkedlist_remove
    <2>2. order[p] \in Nodes
      BY <1>4 DEF ListInv, ListType
    <2>3. QED
      BY <2>1, <2>2 DEF ListNext
  <1>5. QED
    BY <1>1, <1>2, <1>3, <1>4 DEF OwnedNext

LEMMA NextOwned == OwnedInv /\ [OwnedNext]_<<listVars, ownedVars>> => OwnedInv'
  <1> SUFFICES ASSUME OwnedInv, [OwnedNext]_<<listVars, ownedVars>> PROVE OwnedInv'
    OBVIOUS
  <1>0. /\ ListType /\ WellLinked /\ WalkInside /\ len \in Nat /\ count = len
        /\ Null \notin Nodes
    BY ListAssumption DEF OwnedInv, ListInv, ListType, WellLinked
  <1>1. ListInv'
    BY OwnedIsList, NextListInv DEF OwnedInv
  <1>2. ASSUME NEW n \in Nodes, NEW d \in Data, linkedlist_insert_head(n, d) PROVE OwnedInv'
    <2>1. ~Member(n) /\ len' = len + 1 /\ order' = Inserted(1, n) /\ Filled(n, d, 1) /\ 1 \in 1 .. len + 1
      BY <1>0, <1>2 DEF linkedlist_insert_head, intrusivelist_insert_head, AddHead
    <2>2. QED
      BY <2>1, <1>1, FilledKeeps
  <1>3. ASSUME NEW n \in Nodes, NEW d \in Data, linkedlist_insert_tail(n, d) PROVE OwnedInv'
    <2>1. /\ ~Member(n) /\ len' = len + 1 /\ order' = Inserted(len + 1, n) /\ Filled(n, d, len + 1)
          /\ len + 1 \in 1 .. len + 1
      BY <1>0, <1>3 DEF linkedlist_insert_tail, intrusivelist_insert_tail, AddTail
    <2>2. QED
      BY <2>1, <1>1, FilledKeeps
  <1>4. ASSUME NEW n \in Nodes, NEW d \in Data, NEW index \in 0 .. len, intrusivelist_insert_at(n, index),
               IF walk' = Idle THEN Filled(n, d, index + 1) ELSE UNCHANGED ownedVars
        PROVE  OwnedInv'
    <2>1. ~Member(n)
      BY <1>4 DEF intrusivelist_insert_at
    <2>2. CASE index = 0
      <3>1. len' = len + 1 /\ order' = Inserted(1, n) /\ Filled(n, d, 1) /\ 1 \in 1 .. len + 1
        BY <1>0, <1>4, <2>2 DEF intrusivelist_insert_at, AddHead
      <3>2. QED
        BY <2>1, <3>1, <1>1, FilledKeeps
    <2>3. CASE index # 0 /\ index = count
      <3>1. /\ len' = len + 1 /\ order' = Inserted(len + 1, n) /\ Filled(n, d, len + 1)
            /\ len + 1 \in 1 .. len + 1
        BY <1>0, <1>4, <2>3 DEF intrusivelist_insert_at, AddTail
      <3>2. QED
        BY <2>1, <3>1, <1>1, FilledKeeps
    <2>4. CASE index # 0 /\ index # count
      <3>1. walk' = Loop("at", n, head, 0, index) /\ UNCHANGED <<len, order>>
        BY <1>4, <2>4 DEF intrusivelist_insert_at
      <3>2. walk' # Idle
        BY <3>1 DEF Loop, Idle
      <3>3. UNCHANGED ownedVars
        BY <3>2, <1>4
      <3>4. QED
        BY <3>1, <3>3, <1>1, SameContents
    <2>5. QED
      BY <2>2, <2>3, <2>4
  <1>5. ASSUME NEW n \in Nodes, NEW d \in Data, AtStep, walk.node = n,
               IF walk' = Idle THEN Filled(n, d, walk.index + 1) ELSE UNCHANGED ownedVars
        PROVE  OwnedInv'
    <2>1. walk # Idle /\ walk.kind = "at"
      BY <1>5 DEF AtStep, Idle
    <2>2. /\ ~Member(n) /\ walk.counting \in Nat /\ walk.index \in Nat
          /\ walk.counting < len /\ walk.cur = order[walk.counting + 1]
      BY <1>0, <1>5, <2>1 DEF WalkInside
    <2>3. CASE walk.counting = walk.index
      <3>1. PICK p \in 1 .. len + 1 : p = walk.index + 1 /\ p \in 1 .. len
        BY <2>2, <2>3, <1>0
      <3>2. AddBefore(n, order[p]) /\ walk' = Idle
        BY <1>5, <2>2, <2>3, <3>1 DEF AtStep
      <3>3. len' = len + 1 /\ \E q \in 1 .. len : order[q] = order[p] /\ order' = Inserted(q, n)
        BY <3>2 DEF AddBefore
      <3>4. order' = Inserted(p, n)
        BY <3>1, <3>3, <1>0 DEF WellLinked
      <3>5. Filled(n, d, p)
        BY <1>5, <3>1, <3>2
      <3>6. QED
        BY <2>2, <3>3, <3>4, <3>5, <1>1, FilledKeeps
    <2>4. CASE walk.counting # walk.index
      <3>1. /\ walk' = Loop("at", walk.node, next[walk.cur], walk.counting + 1, walk.index)
            /\ UNCHANGED <<len, order>>
        BY <1>5, <2>4 DEF AtStep
      <3>2. walk' # Idle
        BY <3>1 DEF Loop, Idle
      <3>3. UNCHANGED ownedVars
        BY <3>2, <1>5
      <3>4. QED
        BY <3>1, <3>3, <1>1, SameContents
    <2>5. QED
      BY <2>3, <2>4
  <1>6. ASSUME linkedlist_remove_head PROVE OwnedInv'
    <2>1. head # Null /\ Unlink(head) /\ Freed(head, 1)
      BY <1>6 DEF linkedlist_remove_head, intrusivelist_remove_head
    <2>2. head = order[1] /\ 1 \in 1 .. len
      BY <2>1, <1>0 DEF WellLinked
    <2>3. QED
      BY <2>1, <2>2, <1>1, FreedKeeps
  <1>7. ASSUME linkedlist_remove_tail PROVE OwnedInv'
    <2>1. tail # Null /\ Unlink(tail) /\ Freed(tail, len)
      BY <1>7 DEF linkedlist_remove_tail, intrusivelist_remove_tail
    <2>2. tail = order[len] /\ len \in 1 .. len
      BY <2>1, <1>0 DEF WellLinked
    <2>3. QED
      BY <2>1, <2>2, <1>1, FreedKeeps
  <1>8. ASSUME NEW d \in Data, linkedlist_remove(d) PROVE OwnedInv'
    <2>1. PICK p \in 1 .. len : intrusivelist_remove(order[p]) /\ Freed(order[p], p)
      BY <1>8 DEF linkedlist_remove
    <2>2. Unlink(order[p])
      BY <2>1 DEF intrusivelist_remove
    <2>3. QED
      BY <2>1, <2>2, <1>1, FreedKeeps
  <1>9. ASSUME UNCHANGED <<listVars, ownedVars>> PROVE OwnedInv'
    <2>1. UNCHANGED <<len, order>> /\ UNCHANGED ownedVars
      BY <1>9 DEF listVars
    <2>2. QED
      BY <2>1, <1>1, SameContents
  <1>10. QED
    BY <1>2, <1>3, <1>4, <1>5, <1>6, <1>7, <1>8, <1>9 DEF OwnedNext, linkedlist_insert_at

(* A list that owns its nodes leaks none and reaches none that is freed,   *)
(* and it holds what was put in, in its order: the allocation of a node    *)
(* and its insertion, and its removal and kfree, go together on every path.*)
THEOREM ListOwnsItsNodes == OwnedSpec => []OwnsItsNodes
  <1>1. ListInit /\ OwnedInit => OwnedInv
    <2> SUFFICES ASSUME ListInit, OwnedInit PROVE OwnedInv
      OBVIOUS
    <2>1. ListInv
      BY InitListInv
    <2>2. len = 0 /\ live = {} /\ DOMAIN data = Nodes
      BY DEF ListInit, OwnedInit
    <2>3. Owned
      BY <2>2 DEF Owned, Member
    <2>4. QED
      BY <2>1, <2>2, <2>3, OwnedParts DEF OwnedInv
  <1>2. OwnedInv => OwnsItsNodes
    BY DEF OwnedInv
  <1>3. QED
    BY <1>1, <1>2, NextOwned, PTL DEF OwnedSpec

-----------------------------------------------------------------------------
(* The heap                                                                *)

Block == [at : Nat, size : Nat]

\* Where block b ends.
End(b) == b.at + b.size

\* Word w is in a block of the list.
Free(list, w) == \E i \in 1 .. Len(list) : w \in Extent(list[i].at, list[i].size)

\* A list of blocks with room for their headers, by address.
Ordered(list) ==
    /\ list \in Seq(Block)
    /\ \A i \in 1 .. Len(list) : list[i].size >= Header
    /\ \A i, j \in 1 .. Len(list) : i < j => End(list[i]) <= list[j].at

\* Block i touches its successor.
Tight(list, i) == i \in 1 .. Len(list) - 1 /\ End(list[i]) = list[i + 1].at

\* As the heap keeps it: no two blocks touch.
Merged(list) == Ordered(list) /\ \A i \in Int : ~Tight(list, i)

-----------------------------------------------------------------------------
(* Sequences                                                               *)

LEMMA Lengths ==
    ASSUME NEW S, NEW s \in Seq(S)
    PROVE  Len(s) \in Nat /\ DOMAIN s = 1 .. Len(s) /\ \A i \in 1 .. Len(s) : s[i] \in S
  BY LenProperties, ElementOfSeq

LEMMA Slice ==
    ASSUME NEW S, NEW s \in Seq(S), NEW a \in Nat \ {0}, NEW b \in Nat, b <= Len(s), a <= b + 1
    PROVE  /\ SubSeq(s, a, b) \in Seq(S)
           /\ Len(SubSeq(s, a, b)) = b - a + 1
           /\ \A i \in 1 .. b - a + 1 : SubSeq(s, a, b)[i] = s[a + i - 1]
  OBVIOUS

LEMMA Joined ==
    ASSUME NEW S, NEW s \in Seq(S), NEW r \in Seq(S)
    PROVE  /\ s \o r \in Seq(S)
           /\ Len(s \o r) = Len(s) + Len(r)
           /\ \A i \in 1 .. Len(s) : (s \o r)[i] = s[i]
           /\ \A i \in 1 .. Len(r) : (s \o r)[Len(s) + i] = r[i]
  BY ConcatProperties, LenProperties

\* r is s with e at place k.
With(S, s, k, e, r) ==
    /\ r \in Seq(S)
    /\ Len(r) = Len(s) + 1
    /\ \A i \in 1 .. k - 1 : r[i] = s[i]
    /\ r[k] = e
    /\ \A i \in k + 1 .. Len(s) + 1 : r[i] = s[i - 1]

\* r is s without its place k.
Without(S, s, k, r) ==
    /\ r \in Seq(S)
    /\ Len(r) = Len(s) - 1
    /\ \A i \in 1 .. k - 1 : r[i] = s[i]
    /\ \A i \in k .. Len(s) - 1 : r[i] = s[i + 1]

(* What InsertAt returns.                                                  *)
LEMMA InsertedAt ==
    ASSUME NEW S, NEW s \in Seq(S), NEW e \in S, NEW k \in 1 .. Len(s) + 1
    PROVE  With(S, s, k, e, InsertAt(s, k, e))
  <1> DEFINE a == SubSeq(s, 1, k - 1)
             b == SubSeq(s, k, Len(s))
             c == a \o <<e>>
  <1>1. Len(s) \in Nat /\ k \in Nat \ {0} /\ k - 1 \in Nat /\ k - 1 <= Len(s) /\ k <= Len(s) + 1
    BY LenProperties
  <1>2. a \in Seq(S) /\ Len(a) = k - 1 /\ \A i \in 1 .. k - 1 : a[i] = s[i]
    <2>1. /\ 1 \in Nat \ {0} /\ 1 <= (k - 1) + 1 /\ (k - 1) - 1 + 1 = k - 1
          /\ \A i \in 1 .. k - 1 : 1 + i - 1 = i
      BY <1>1
    <2>2. /\ a \in Seq(S) /\ Len(a) = (k - 1) - 1 + 1
          /\ \A i \in 1 .. (k - 1) - 1 + 1 : a[i] = s[1 + i - 1]
      BY ONLY <2>1, <1>1, s \in Seq(S), Slice
    <2>3. QED
      BY <2>1, <2>2
  <1>3. b \in Seq(S) /\ Len(b) = Len(s) - k + 1 /\ \A i \in 1 .. Len(s) - k + 1 : b[i] = s[k + i - 1]
    <2>1. Len(s) <= Len(s)
      BY <1>1
    <2>2. QED
      BY ONLY <2>1, <1>1, s \in Seq(S), Slice
  <1>4. <<e>> \in Seq(S) /\ Len(<<e>>) = 1 /\ <<e>>[1] = e
    OBVIOUS
  <1>5. InsertAt(s, k, e) = c \o b
    BY DEF InsertAt
  <1> HIDE DEF a, b
  <1>6. /\ c \in Seq(S) /\ Len(c) = k
        /\ \A i \in 1 .. k - 1 : c[i] = s[i]
        /\ c[k] = e
    <2>1. /\ c \in Seq(S) /\ Len(c) = Len(a) + Len(<<e>>)
          /\ \A i \in 1 .. Len(a) : c[i] = a[i]
          /\ \A i \in 1 .. Len(<<e>>) : c[Len(a) + i] = <<e>>[i]
      BY <1>2, <1>4, Joined
    <2>2. c[(k - 1) + 1] = e /\ (k - 1) + 1 = k
      BY <2>1, <1>1, <1>2, <1>4
    <2>3. QED
      BY <2>1, <2>2, <1>1, <1>2, <1>4
  <1> HIDE DEF c
  <1>7. /\ c \o b \in Seq(S) /\ Len(c \o b) = k + (Len(s) - k + 1)
        /\ \A i \in 1 .. k : (c \o b)[i] = c[i]
        /\ \A i \in 1 .. Len(s) - k + 1 : (c \o b)[k + i] = b[i]
    <2>1. /\ c \o b \in Seq(S) /\ Len(c \o b) = Len(c) + Len(b)
          /\ \A i \in 1 .. Len(c) : (c \o b)[i] = c[i]
          /\ \A i \in 1 .. Len(b) : (c \o b)[Len(c) + i] = b[i]
      <3>1. c \in Seq(S) /\ b \in Seq(S)
        BY <1>3, <1>6
      <3>2. QED
        BY ONLY <3>1, Joined
    <2>2. QED
      BY <2>1, <1>3, <1>6
  <1>8. ASSUME NEW i \in k + 1 .. Len(s) + 1 PROVE (c \o b)[i] = s[i - 1]
    <2>1. PICK m \in 1 .. Len(s) - k + 1 : k + m = i
      BY <1>1
    <2>2. (c \o b)[k + m] = b[m] /\ b[m] = s[k + m - 1] /\ k + m - 1 = i - 1
      BY <2>1, <1>1, <1>3, <1>7
    <2>3. QED
      BY <2>1, <2>2
  <1>9. Len(c \o b) = Len(s) + 1 /\ \A i \in 1 .. k - 1 : (c \o b)[i] = s[i]
    BY <1>1, <1>6, <1>7
  <1>10. (c \o b)[k] = e
    BY <1>1, <1>6, <1>7
  <1>11. QED
    BY <1>5, <1>7, <1>8, <1>9, <1>10 DEF With

(* What RemoveAt returns.                                                  *)
LEMMA RemovedAt ==
    ASSUME NEW S, NEW s \in Seq(S), NEW k \in 1 .. Len(s)
    PROVE  Without(S, s, k, RemoveAt(s, k))
  <1> DEFINE a == SubSeq(s, 1, k - 1)
             b == SubSeq(s, k + 1, Len(s))
  <1>1. Len(s) \in Nat /\ k \in Nat \ {0} /\ k - 1 \in Nat /\ k - 1 <= Len(s) /\ k + 1 \in Nat \ {0}
    BY LenProperties
  <1>2. a \in Seq(S) /\ Len(a) = k - 1 /\ \A i \in 1 .. k - 1 : a[i] = s[i]
    <2>1. /\ 1 \in Nat \ {0} /\ 1 <= (k - 1) + 1 /\ (k - 1) - 1 + 1 = k - 1
          /\ \A i \in 1 .. k - 1 : 1 + i - 1 = i
      BY <1>1
    <2>2. /\ a \in Seq(S) /\ Len(a) = (k - 1) - 1 + 1
          /\ \A i \in 1 .. (k - 1) - 1 + 1 : a[i] = s[1 + i - 1]
      BY ONLY <2>1, <1>1, s \in Seq(S), Slice
    <2>3. QED
      BY <2>1, <2>2
  <1>3. /\ b \in Seq(S) /\ Len(b) = Len(s) - (k + 1) + 1
        /\ \A i \in 1 .. Len(s) - (k + 1) + 1 : b[i] = s[(k + 1) + i - 1]
    <2>1. Len(s) <= Len(s) /\ k + 1 <= Len(s) + 1
      BY <1>1
    <2>2. QED
      BY ONLY <2>1, <1>1, s \in Seq(S), Slice
  <1>4. RemoveAt(s, k) = a \o b
    BY DEF RemoveAt
  <1> HIDE DEF a, b
  <1>5. /\ a \o b \in Seq(S) /\ Len(a \o b) = Len(a) + Len(b)
        /\ \A i \in 1 .. Len(a) : (a \o b)[i] = a[i]
        /\ \A i \in 1 .. Len(b) : (a \o b)[Len(a) + i] = b[i]
    <2>1. a \in Seq(S) /\ b \in Seq(S)
      BY <1>2, <1>3
    <2>2. QED
      BY ONLY <2>1, Joined
  <1>6. ASSUME NEW i \in k .. Len(s) - 1 PROVE (a \o b)[i] = s[i + 1]
    <2>1. PICK m \in 1 .. Len(b) : Len(a) + m = i
      BY <1>1, <1>2, <1>3
    <2>2. (k + 1) + m - 1 = i + 1 /\ m \in 1 .. Len(s) - (k + 1) + 1
      BY <2>1, <1>1, <1>2, <1>3
    <2>3. (a \o b)[Len(a) + m] = b[m] /\ b[m] = s[(k + 1) + m - 1]
      BY <2>1, <2>2, <1>3, <1>5
    <2>4. QED
      BY <2>1, <2>2, <2>3
  <1>7. Len(a \o b) = Len(s) - 1 /\ \A i \in 1 .. k - 1 : (a \o b)[i] = s[i]
    BY <1>1, <1>2, <1>3, <1>5
  <1>8. QED
    BY <1>4, <1>5, <1>6, <1>7 DEF Without

(* The least of some numbers.                                              *)
LEMMA LeastOf ==
    ASSUME NEW I, I \subseteq Nat, I # {}
    PROVE  Min(I) \in I /\ \A j \in I : Min(I) <= j
  <1>1. \E n \in I : \A k \in I : ~ (<<k, n>> \in OpToRel(<, Nat))
    BY NatLessThanWellFounded, WFMin
  <1>2. ASSUME NEW k \in Nat, NEW n \in Nat, k < n
        PROVE  <<k, n>> \in OpToRel(<, Nat)
    BY <1>2, Zenon DEF OpToRel
  <1>3. \E n \in I : \A k \in I : ~ (k < n)
    BY <1>1, <1>2
  <1>4. \E n \in I : \A k \in I : n <= k
    BY <1>3
  <1>5. QED
    BY <1>4 DEF Min

-----------------------------------------------------------------------------
(* Lists of blocks                                                         *)

LEMMA BlockFields ==
    ASSUME NEW list, Ordered(list), NEW i \in 1 .. Len(list)
    PROVE  /\ list[i] \in Block /\ list[i].at \in Nat /\ list[i].size \in Nat
           /\ list[i].size >= Header /\ list[i].size > 0
           /\ End(list[i]) \in Nat /\ list[i].at < End(list[i])
  <1>1. list[i] \in Block /\ list[i].size >= Header
    BY Lengths DEF Ordered
  <1>2. QED
    BY <1>1, FreeListAssumption DEF Block, End

LEMMA InExtent ==
    ASSUME NEW a \in Nat, NEW m \in Nat, NEW w
    PROVE  w \in Extent(a, m) <=> w \in Int /\ a <= w /\ w < a + m
  BY DEF Extent

(* Two intervals without a common word lie one behind the other.           *)
LEMMA IntervalsApart ==
    ASSUME NEW a \in Nat, NEW m \in Nat \ {0}, NEW b \in Nat, NEW n \in Nat \ {0},
           \A w : ~ (w \in Extent(a, m) /\ w \in Extent(b, n))
    PROVE  a + m <= b \/ b + n <= a
  <1> SUFFICES ASSUME a + m > b, b + n > a PROVE FALSE
    OBVIOUS
  <1>1. CASE a <= b
    <2>1. b \in Extent(a, m) /\ b \in Extent(b, n)
      BY <1>1 DEF Extent
    <2>2. QED
      BY <2>1
  <1>2. CASE b <= a
    <2>1. a \in Extent(a, m) /\ a \in Extent(b, n)
      BY <1>2 DEF Extent
    <2>2. QED
      BY <2>1
  <1>3. QED
    BY <1>1, <1>2

(* In a merged list there is a gap between any two blocks.                 *)
LEMMA GapsInMerged ==
    ASSUME NEW list, Merged(list), NEW i \in 1 .. Len(list), NEW j \in 1 .. Len(list), i < j
    PROVE  End(list[i]) < list[j].at
  <1>1. Ordered(list) /\ Len(list) \in Nat
    BY Lengths DEF Merged, Ordered
  <1>2. i \in 1 .. Len(list) - 1 /\ i \in Int /\ i + 1 \in 1 .. Len(list) /\ i < i + 1
    BY <1>1
  <1>3. End(list[i]) # list[i + 1].at
    BY <1>2 DEF Merged, Tight
  <1>4. End(list[i]) <= list[i + 1].at
    BY <1>1, <1>2 DEF Ordered
  <1>5. /\ End(list[i]) \in Nat /\ list[i + 1].at \in Nat /\ list[j].at \in Nat
        /\ list[i + 1].at < End(list[i + 1]) /\ End(list[i + 1]) \in Nat
    BY <1>1, <1>2, BlockFields
  <1>6. CASE j = i + 1
    BY <1>3, <1>4, <1>5, <1>6
  <1>7. CASE j # i + 1
    <2>1. i + 1 < j
      BY <1>7, <1>2
    <2>2. End(list[i + 1]) <= list[j].at
      BY <2>1, <1>1, <1>2 DEF Ordered
    <2>3. QED
      BY <2>2, <1>3, <1>4, <1>5
  <1>8. QED
    BY <1>6, <1>7

(* Block i and its successor become one: what the list covers stays, and   *)
(* no two blocks touch that did not before.                                *)
LEMMA CoalesceKeeps ==
    ASSUME NEW list, Ordered(list), NEW i \in Int
    PROVE  /\ Ordered(Coalesce(list, i))
           /\ \A w : Free(Coalesce(list, i), w) <=> Free(list, w)
           /\ \A j \in Int : Tight(Coalesce(list, i), j) =>
                \/ j < i /\ Tight(list, j)
                \/ j >= i /\ Tight(list, j + 1)
                \/ j # i /\ Tight(list, j)
  <1>0. Len(list) \in Nat /\ list \in Seq(Block) /\ DOMAIN list = 1 .. Len(list)
    BY Lengths DEF Ordered
  <1>1. CASE ~Tight(list, i)
    <2>1. Coalesce(list, i) = list
      BY <1>1 DEF Coalesce, Tight, End
    <2>2. QED
      BY <2>1, <1>1
  <1>2. CASE Tight(list, i)
    <2>0. i \in 1 .. Len(list) - 1 /\ End(list[i]) = list[i + 1].at /\ i + 1 \in 1 .. Len(list) /\ i \in 1 .. Len(list)
      BY <1>0, <1>2 DEF Tight
    <2>1. PICK n \in Nat : n = Len(list)
      BY <1>0
    <2>2. PICK s : s = RemoveAt(list, i + 1)
      OBVIOUS
    <2>3. /\ s \in Seq(Block) /\ Len(s) = n - 1
          /\ \A k \in 1 .. i : s[k] = list[k]
          /\ \A k \in i + 1 .. n - 1 : s[k] = list[k + 1]
      <3>1. PICK k \in 1 .. Len(list) : k = i + 1
        BY <2>0
      <3>2. Without(Block, list, k, s)
        BY <1>0, <2>2, <3>1, RemovedAt
      <3>3. (\A l \in 1 .. i : l \in 1 .. k - 1) /\ (\A l \in i + 1 .. n - 1 : l \in k .. Len(list) - 1)
        BY <3>1, <2>1, <2>0
      <3>4. QED
        BY <3>2, <3>3, <2>1 DEF Without
    <2>4. PICK r : r = Coalesce(list, i)
      OBVIOUS
    <2>5. r = [s EXCEPT ![i].size = @ + list[i + 1].size]
      BY <2>0, <2>2, <2>4 DEF Coalesce, End
    <2>6. /\ list[i] \in Block /\ list[i + 1] \in Block
          /\ s[i] = list[i] /\ DOMAIN s = 1 .. n - 1 /\ i \in 1 .. n - 1
      BY <2>0, <2>1, <2>3, <1>0, Lengths
    <2>7. r \in Seq(Block) /\ Len(r) = n - 1
      <3>1. \A k \in 1 .. n - 1 : s[k] \in Block
        BY <2>3, Lengths
      <3>2. r \in [1 .. n - 1 -> Block]
        <4>1. PICK b \in Block : b = [s[i] EXCEPT !.size = @ + list[i + 1].size]
          <5>1. PICK x \in Block : x = s[i]
            BY <2>6
          <5>2. PICK y \in Nat : y = list[i + 1].size
            BY <2>6 DEF Block
          <5>3. [x EXCEPT !.size = @ + y] \in Block
            BY DEF Block
          <5>4. QED
            BY <5>1, <5>2, <5>3
        <4>2. r = [s EXCEPT ![i] = b]
          BY <4>1, <2>5
        <4>3. s \in [1 .. n - 1 -> Block]
          BY <2>3, <2>6, <3>1
        <4>4. QED
          BY <4>2, <4>3, <4>1
      <3>3. n - 1 \in Nat
        BY <2>0, <2>1
      <3>4. QED
        BY <3>2, <3>3, SeqDef, LenProperties
    <2>8. /\ \A k \in 1 .. i - 1 : r[k] = list[k]
          /\ r[i].at = list[i].at /\ r[i].size = list[i].size + list[i + 1].size
          /\ \A k \in i + 1 .. n - 1 : r[k] = list[k + 1]
      <3>1. \A k \in 1 .. n - 1 : k # i => r[k] = s[k]
        BY <2>5, <2>6
      <3>2. r[i].at = list[i].at /\ r[i].size = list[i].size + list[i + 1].size
        BY <2>5, <2>6 DEF Block
      <3>3. (\A k \in 1 .. i - 1 : k \in 1 .. n - 1 /\ k # i /\ k \in 1 .. i) /\ (\A k \in i + 1 .. n - 1 : k \in 1 .. n - 1 /\ k # i)
        BY <2>6
      <3>4. QED
        BY <3>1, <3>2, <3>3, <2>3
    <2>9. \A k \in 1 .. n : list[k].at \in Nat /\ list[k].size \in Nat /\ list[k].size >= Header /\ End(list[k]) \in Nat
      BY <2>1, BlockFields
    <2>10. End(r[i]) = End(list[i + 1]) /\ r[i].at = list[i].at
      BY <2>0, <2>1, <2>8, <2>9 DEF End
    \* Where a block of the result begins and where it ends.
    <2>11. \A k \in 1 .. n - 1 :
             /\ k <= i => k \in 1 .. n /\ r[k].at = list[k].at
             /\ k > i => k + 1 \in 1 .. n /\ r[k].at = list[k + 1].at
             /\ k < i => End(r[k]) = End(list[k])
             /\ k >= i => k + 1 \in 1 .. n /\ End(r[k]) = End(list[k + 1])
      <3> SUFFICES ASSUME NEW k \in 1 .. n - 1
                   PROVE  /\ k <= i => k \in 1 .. n /\ r[k].at = list[k].at
                          /\ k > i => k + 1 \in 1 .. n /\ r[k].at = list[k + 1].at
                          /\ k < i => End(r[k]) = End(list[k])
                          /\ k >= i => k + 1 \in 1 .. n /\ End(r[k]) = End(list[k + 1])
        OBVIOUS
      <3>1. k \in 1 .. n /\ k + 1 \in 1 .. n
        BY <2>1
      <3>2. CASE k < i
        BY <3>1, <3>2, <2>6, <2>8
      <3>3. CASE k = i
        BY <3>1, <3>3, <2>6, <2>10
      <3>4. CASE k > i
        BY <3>1, <3>4, <2>6, <2>8
      <3>5. QED
        BY <3>2, <3>3, <3>4, <2>6
    <2>12. Ordered(r)
      <3>1. \A k \in 1 .. n - 1 : r[k].size >= Header
        <4> SUFFICES ASSUME NEW k \in 1 .. n - 1 PROVE r[k].size >= Header
          OBVIOUS
        <4>1. k \in 1 .. n /\ k + 1 \in 1 .. n
          BY <2>1
        <4>2. Header \in Nat
          BY FreeListAssumption
        <4>3. CASE k = i
          <5>1. PICK x \in Nat, y \in Nat : x = list[i].size /\ y = list[i + 1].size /\ x >= Header
            BY <4>1, <4>3, <2>9
          <5>2. r[k].size = x + y
            BY <5>1, <4>3, <2>8
          <5>3. QED
            BY ONLY <5>1, <5>2, <4>2, x \in Nat, y \in Nat
        <4>4. CASE k < i
          BY <4>1, <4>4, <2>6, <2>8, <2>9
        <4>5. CASE k > i
          <5>1. r[k] = list[k + 1]
            BY <4>5, <2>6, <2>8
          <5>2. QED
            BY <5>1, <4>1, <2>9
        <4>6. QED
          BY <4>3, <4>4, <4>5, <2>6
      <3>2. ASSUME NEW k \in 1 .. n - 1, NEW l \in 1 .. n - 1, k < l
            PROVE  End(r[k]) <= r[l].at
        <4>1. \A x, y \in 1 .. n : x < y => End(list[x]) <= list[y].at
          BY <2>1 DEF Ordered
        <4>2. CASE k < i /\ l <= i
          BY <4>1, <4>2, <3>2, <2>11
        <4>3. CASE k < i /\ l > i
          BY <4>1, <4>3, <3>2, <2>11
        <4>4. CASE k >= i
          <5>1. l > i /\ k + 1 < l + 1
            BY <4>4, <3>2, <2>6
          <5>2. QED
            BY <5>1, <4>1, <4>4, <2>11
        <4>5. QED
          BY <4>2, <4>3, <4>4, <2>6
      <3>3. QED
        BY <3>1, <3>2, <2>7 DEF Ordered
    <2>13. ASSUME NEW w PROVE Free(r, w) <=> Free(list, w)
      <3>1. \A k \in 1 .. n - 1 : w \in Extent(r[k].at, r[k].size) <=> w \in Int /\ r[k].at <= w /\ w < End(r[k])
        <4>1. \A k \in 1 .. n - 1 : r[k].at \in Nat /\ r[k].size \in Nat
          BY <2>7, <2>12, BlockFields
        <4>2. QED
          BY ONLY <4>1, InExtent DEF End
      <3>2. \A k \in 1 .. n : w \in Extent(list[k].at, list[k].size) <=> w \in Int /\ list[k].at <= w /\ w < End(list[k])
        BY <2>9 DEF Extent, End
      <3>3. ASSUME NEW k \in 1 .. n - 1, w \in Extent(r[k].at, r[k].size) PROVE Free(list, w)
        <4>1. w \in Int /\ r[k].at <= w /\ w < End(r[k]) /\ k \in 1 .. n /\ k + 1 \in 1 .. n
          BY <3>1, <3>3, <2>1
        <4>2. CASE k < i
          <5>1. w \in Extent(list[k].at, list[k].size)
            BY <4>1, <4>2, <3>2, <2>11, <2>6
          <5>2. QED
            BY <5>1, <4>1, <2>1 DEF Free
        <4>3. CASE k > i
          <5>1. w \in Extent(list[k + 1].at, list[k + 1].size)
            BY <4>1, <4>3, <3>2, <2>11, <2>6
          <5>2. QED
            BY <5>1, <4>1, <2>1 DEF Free
        <4>4. CASE k = i
          <5>1. list[i].at <= w /\ w < End(list[i + 1])
            BY <4>1, <4>4, <2>10
          <5>2. CASE w < End(list[i])
            BY <5>1, <5>2, <4>1, <4>4, <3>2, <2>1 DEF Free
          <5>3. CASE w >= End(list[i])
            BY <5>1, <5>3, <4>1, <4>4, <3>2, <2>0, <2>1 DEF Free
          <5>4. QED
            BY <5>2, <5>3, <4>1, <4>4, <2>9
        <4>5. QED
          BY <4>2, <4>3, <4>4, <2>6
      <3>4. ASSUME NEW k \in 1 .. n, w \in Extent(list[k].at, list[k].size) PROVE Free(r, w)
        <4>1. w \in Int /\ list[k].at <= w /\ w < End(list[k])
          BY <3>2, <3>4
        <4>2. PICK m \in 1 .. n - 1 : r[m].at <= w /\ w < End(r[m])
          <5>1. CASE k < i
            <6>1. k \in 1 .. n - 1 /\ k <= i
              BY <5>1, <2>6
            <6>2. r[k].at = list[k].at /\ End(r[k]) = End(list[k])
              BY <6>1, <5>1, <2>11
            <6>3. QED
              BY <6>1, <6>2, <4>1
          <5>2. CASE k = i
            <6>1. End(list[i]) <= End(list[i + 1])
              BY <2>0, <2>1, <2>9 DEF End
            <6>2. r[i].at <= w /\ w < End(r[i])
              BY <6>1, <5>2, <4>1, <2>0, <2>1, <2>9, <2>10
            <6>3. QED
              BY <6>2, <2>6
          <5>3. CASE k = i + 1
            <6>1. list[i].at <= list[i + 1].at
              BY <2>0, <2>1, <2>9 DEF End
            <6>2. r[i].at <= w /\ w < End(r[i])
              BY <6>1, <5>3, <4>1, <2>0, <2>1, <2>9, <2>10
            <6>3. QED
              BY <6>2, <2>6
          <5>4. CASE k > i + 1
            <6>0. i \in 1 .. n - 1
              BY <2>6
            <6>1. PICK m \in 1 .. n - 1 : m + 1 = k /\ m > i
              <7>1. k - 1 \in 1 .. n - 1 /\ (k - 1) + 1 = k /\ k - 1 > i
                BY ONLY <6>0, <5>4, n \in Nat, k \in 1 .. n
              <7>2. QED
                BY ONLY <7>1
            <6>2. r[m].at = list[m + 1].at /\ End(r[m]) = End(list[m + 1])
              <7>1. m > i /\ m >= i
                BY <6>1, <2>6
              <7>2. QED
                BY <7>1, <2>11
            <6>3. QED
              BY <6>1, <6>2, <4>1
          <5>5. QED
            BY <5>1, <5>2, <5>3, <5>4, <2>6
        <4>3. QED
          BY <4>1, <4>2, <3>1, <2>7 DEF Free
      <3>5. QED
        BY <3>3, <3>4, <2>1, <2>7 DEF Free
    <2>14. ASSUME NEW j \in Int, Tight(r, j)
           PROVE  \/ j < i /\ Tight(list, j)
                  \/ j >= i /\ Tight(list, j + 1)
      <3>1. j \in 1 .. (n - 1) - 1 /\ End(r[j]) = r[j + 1].at /\ j \in 1 .. n - 1 /\ j + 1 \in 1 .. n - 1
        BY <2>14, <2>1, <2>7 DEF Tight
      <3>2. CASE j < i
        <4>1. End(list[j]) = list[j + 1].at
          BY <3>1, <3>2, <2>6, <2>11
        <4>2. QED
          BY <4>1, <3>1, <3>2, <2>1 DEF Tight
      <3>3. CASE j >= i
        <4>1. End(list[j + 1]) = list[(j + 1) + 1].at
          BY <3>1, <3>3, <2>6, <2>11
        <4>2. j + 1 \in 1 .. Len(list) - 1
          BY <3>1, <2>1
        <4>3. QED
          BY <4>1, <4>2, <3>3 DEF Tight
      <3>4. QED
        BY <3>2, <3>3, <2>6
    <2>15. QED
      BY <2>4, <2>12, <2>13, <2>14
  <1>3. QED
    BY <1>1, <1>2

(* The search ends behind the last block that lies before the new one.     *)
LEMMA PlaceFound ==
    ASSUME NEW list, Ordered(list), NEW at \in Nat, NEW size \in Nat \ {0},
           \A j \in 1 .. Len(list) : End(list[j]) <= at \/ at + size <= list[j].at
    PROVE  /\ Place(list, at) \in 1 .. Len(list) + 1
           /\ \A j \in 1 .. Len(list) : j < Place(list, at) => End(list[j]) <= at
           /\ \A j \in 1 .. Len(list) : j >= Place(list, at) => at + size <= list[j].at
  <1>1. PICK n \in Nat : n = Len(list)
    BY Lengths DEF Ordered
  <1>2. \A j \in 1 .. n : list[j].at \in Nat /\ End(list[j]) \in Nat /\ list[j].at < End(list[j])
    BY <1>1, BlockFields
  <1>3. \A j \in 1 .. n : End(list[j]) <= at \/ at + size <= list[j].at
    BY <1>1
  <1>4. \A j \in 1 .. n : list[j].at < at => End(list[j]) <= at
    BY <1>2, <1>3
  <1>5. \A j \in 1 .. n : list[j].at >= at => at + size <= list[j].at
    BY <1>2, <1>3
  <1>6. \A i, j \in 1 .. n : i < j => list[i].at < list[j].at
    <2> SUFFICES ASSUME NEW i \in 1 .. n, NEW j \in 1 .. n, i < j PROVE list[i].at < list[j].at
      OBVIOUS
    <2>1. End(list[i]) <= list[j].at
      BY <1>1 DEF Ordered
    <2>2. QED
      BY <2>1, <1>2
  <1>7. CASE list = <<>>
    <2>1. Place(list, at) = 1 /\ n = 0
      BY <1>1, <1>7 DEF Place
    <2>2. QED
      BY <2>1, <1>1
  <1>8. CASE list # <<>> /\ at < list[1].at
    <2>1. Place(list, at) = 1 /\ n # 0
      BY <1>1, <1>8, EmptySeq DEF Place, Ordered
    <2>2. ASSUME NEW j \in 1 .. n PROVE list[j].at >= at
      <3>1. CASE j = 1
        BY <3>1, <1>2, <1>8
      <3>2. CASE j > 1
        <4>1. list[1].at < list[j].at /\ list[1].at \in Nat /\ list[j].at \in Nat
          BY <3>2, <1>2, <1>6
        <4>2. QED
          BY <4>1, <1>8
      <3>3. QED
        BY <3>1, <3>2
    <2>3. QED
      BY <2>1, <2>2, <1>1, <1>5
  <1>9. CASE list # <<>> /\ ~(at < list[1].at)
    <2>1. n # 0 /\ 1 \in 1 .. n
      BY <1>1, <1>9, EmptySeq DEF Ordered
    <2>2. list[1].at < at
      <3>1. ~(at + size <= list[1].at)
        BY <1>9, <1>2, <2>1
      <3>2. QED
        BY <3>1, <1>2, <1>3, <2>1
    <2> DEFINE later == {i \in 2 .. n : list[i].at >= at}
    <2>3. Place(list, at) = IF later = {} THEN n + 1 ELSE Min(later)
      BY <1>1, <1>9 DEF Place
    <2>4. CASE later = {}
      <3>1. ASSUME NEW j \in 1 .. n PROVE list[j].at < at
        <4>1. CASE j = 1
          BY <4>1, <2>2
        <4>2. CASE j # 1
          BY <4>2, <2>4, <1>2
        <4>3. QED
          BY <4>1, <4>2
      <3>2. QED
        BY <3>1, <2>3, <2>4, <1>1, <1>4
    <2>5. CASE later # {}
      <3>1. PICK p : p = Min(later)
        OBVIOUS
      <3>2. p \in later /\ \A j \in later : p <= j
        <4>1. later \subseteq Nat /\ later # {}
          BY <2>5
        <4> HIDE DEF later
        <4>2. QED
          BY ONLY <4>1, <3>1, LeastOf
      <3>3. p \in 2 .. n /\ list[p].at >= at
        BY <3>2
      <3>4. ASSUME NEW j \in 1 .. n, j < p PROVE list[j].at < at
        <4>1. CASE j = 1
          BY <4>1, <2>2
        <4>2. CASE j # 1
          <5>1. j \in 2 .. n /\ j \notin later
            BY <4>2, <3>2, <3>3, <3>4
          <5>2. QED
            BY <5>1, <1>2
        <4>3. QED
          BY <4>1, <4>2
      <3>5. ASSUME NEW j \in 1 .. n, j >= p PROVE list[j].at >= at
        <4>1. CASE j = p
          BY <4>1, <3>3
        <4>2. CASE j > p
          <5>1. list[p].at < list[j].at /\ list[p].at \in Nat /\ list[j].at \in Nat
            BY <4>2, <3>3, <1>2, <1>6
          <5>2. QED
            BY <5>1, <3>3
        <4>3. QED
          BY <4>1, <4>2, <3>3, <3>5
      <3>6. Place(list, at) = p
        BY <3>1, <2>3, <2>5
      <3>7. QED
        BY <3>3, <3>4, <3>5, <3>6, <1>1, <1>4, <1>5
    <2>6. QED
      BY <2>4, <2>5
  <1>10. QED
    BY <1>7, <1>8, <1>9

(* freelist_free and freelist_add_region: the list covers one block more   *)
(* and is merged again.                                                    *)
LEMMA InsertKeeps ==
    ASSUME NEW list, Merged(list), NEW block \in Block, block.size >= Header,
           \A j \in 1 .. Len(list) : End(list[j]) <= block.at \/ End(block) <= list[j].at
    PROVE  /\ Merged(Insert(list, block))
           /\ \A w : Free(Insert(list, block), w) <=>
                        Free(list, w) \/ w \in Extent(block.at, block.size)
  <1>0. /\ Ordered(list) /\ list \in Seq(Block) /\ block.at \in Nat /\ block.size \in Nat \ {0}
        /\ End(block) = block.at + block.size /\ Header \in Nat
    BY FreeListAssumption DEF Merged, Ordered, Block, End
  <1>1. PICK n \in Nat : n = Len(list)
    BY <1>0, Lengths
  <1>2. PICK p : p = Place(list, block.at)
    OBVIOUS
  <1>3. /\ p \in 1 .. n + 1
        /\ \A j \in 1 .. n : j < p => End(list[j]) <= block.at
        /\ \A j \in 1 .. n : j >= p => End(block) <= list[j].at
    BY <1>0, <1>1, <1>2, PlaceFound
  <1>4. PICK s : s = InsertAt(list, p, block)
    OBVIOUS
  <1>5. /\ s \in Seq(Block) /\ Len(s) = n + 1
        /\ \A i \in 1 .. p - 1 : s[i] = list[i]
        /\ s[p] = block
        /\ \A i \in p + 1 .. n + 1 : s[i] = list[i - 1]
    <2>1. p \in 1 .. Len(list) + 1 /\ list \in Seq(Block)
      BY <1>0, <1>1, <1>3
    <2>2. With(Block, list, p, block, s)
      BY <2>1, <1>4, InsertedAt
    <2>3. QED
      BY <2>2, <1>1 DEF With
  <1>6. \A i \in 1 .. n : list[i].at \in Nat /\ End(list[i]) \in Nat /\ list[i].at < End(list[i]) /\ list[i].size >= Header
    BY <1>0, <1>1, BlockFields
  \* Every block of s is the new one or one of the list.
  <1>7. ASSUME NEW i \in 1 .. n + 1
        PROVE  \/ i < p /\ i \in 1 .. n /\ s[i] = list[i]
               \/ i = p /\ s[i] = block
               \/ i > p /\ i - 1 \in 1 .. n /\ s[i] = list[i - 1]
    <2>1. CASE i < p
      BY <2>1, <1>3, <1>5
    <2>2. CASE i = p
      BY <2>2, <1>5
    <2>3. CASE i > p
      BY <2>3, <1>3, <1>5
    <2>4. QED
      BY <2>1, <2>2, <2>3, <1>3
  <1>8. \A i, j \in 1 .. n : i < j => End(list[i]) < list[j].at
    BY <1>1, GapsInMerged
  <1>9. ASSUME NEW i \in 1 .. n + 1, NEW j \in 1 .. n + 1, i < j
        PROVE  End(s[i]) <= s[j].at /\ (i # p /\ j # p => End(s[i]) < s[j].at)
    <2>1. CASE j < p
      BY <2>1, <1>3, <1>6, <1>7, <1>8, <1>9
    <2>2. CASE j = p
      <3>1. i \in 1 .. n /\ s[i] = list[i] /\ i < p /\ s[j] = block
        BY <2>2, <1>3, <1>7, <1>9
      <3>2. QED
        BY <3>1, <2>2, <1>3
    <2>3. CASE j > p /\ i < p
      <3>1. i \in 1 .. n /\ s[i] = list[i] /\ j - 1 \in 1 .. n /\ s[j] = list[j - 1] /\ i < j - 1
        BY <2>3, <1>3, <1>7
      <3>2. QED
        BY <3>1, <1>6, <1>8
    <2>4. CASE j > p /\ i = p
      <3>1. s[i] = block /\ j - 1 \in 1 .. n /\ s[j] = list[j - 1] /\ j - 1 >= p
        BY <2>4, <1>3, <1>7
      <3>2. QED
        BY <3>1, <2>4, <1>3
    <2>5. CASE j > p /\ i > p
      <3>1. /\ i - 1 \in 1 .. n /\ s[i] = list[i - 1] /\ j - 1 \in 1 .. n /\ s[j] = list[j - 1]
            /\ i - 1 < j - 1
        BY <2>5, <1>3, <1>7, <1>9
      <3>2. QED
        BY <3>1, <1>6, <1>8
    <2>6. QED
      BY <2>1, <2>2, <2>3, <2>4, <2>5, <1>3
  <1>10. Ordered(s)
    <2>1. ASSUME NEW i \in 1 .. n + 1 PROVE s[i].size >= Header
      BY <1>6, <1>7
    <2>2. QED
      BY <2>1, <1>5, <1>9 DEF Ordered
  <1>11. \A j \in Int : Tight(s, j) => j = p - 1 \/ j = p
    <2> SUFFICES ASSUME NEW j \in Int, Tight(s, j), j # p - 1, j # p PROVE FALSE
      OBVIOUS
    <2>1. j \in 1 .. n + 1 /\ j + 1 \in 1 .. n + 1 /\ End(s[j]) = s[j + 1].at /\ j < j + 1 /\ j + 1 # p
      BY <1>1, <1>3, <1>5 DEF Tight
    <2>2. End(s[j]) < s[j + 1].at
      BY <2>1, <1>9
    <2>3. End(s[j]) \in Nat /\ s[j + 1].at \in Nat
      BY <2>1, <1>5, <1>10, BlockFields
    <2>4. QED
      BY <2>1, <2>2, <2>3
  <1>12. ASSUME NEW w PROVE Free(s, w) <=> Free(list, w) \/ w \in Extent(block.at, block.size)
    <2>1. ASSUME Free(s, w) PROVE Free(list, w) \/ w \in Extent(block.at, block.size)
      <3>1. PICK i \in 1 .. n + 1 : w \in Extent(s[i].at, s[i].size)
        BY <2>1, <1>5 DEF Free
      <3>2. QED
        BY <3>1, <1>1, <1>7 DEF Free
    <2>2. ASSUME Free(list, w) PROVE Free(s, w)
      <3>1. PICK i \in 1 .. n : w \in Extent(list[i].at, list[i].size)
        BY <2>2, <1>1 DEF Free
      <3>2. CASE i < p
        <4>1. i \in 1 .. n + 1 /\ s[i] = list[i]
          BY <3>2, <1>3, <1>5
        <4>2. QED
          BY <4>1, <3>1, <1>5 DEF Free
      <3>3. CASE i >= p
        <4>1. PICK j \in p + 1 .. n + 1 : j = i + 1 /\ j - 1 = i
          BY <3>3, <1>3
        <4>2. j \in 1 .. n + 1 /\ s[j] = list[i]
          BY <4>1, <1>3, <1>5
        <4>3. QED
          BY <4>2, <3>1, <1>5 DEF Free
      <3>4. QED
        BY <3>2, <3>3, <1>3
    <2>3. ASSUME w \in Extent(block.at, block.size) PROVE Free(s, w)
      BY <2>3, <1>3, <1>5 DEF Free
    <2>4. QED
      BY <2>1, <2>2, <2>3
  <1>13. PICK right : right = Coalesce(s, p)
    OBVIOUS
  <1>14. /\ Ordered(right) /\ \A w : Free(right, w) <=> Free(s, w)
         /\ \A j \in Int : Tight(right, j) => j = p - 1
    <2>1. p \in Int
      BY <1>3
    <2>2. /\ Ordered(right) /\ \A w : Free(right, w) <=> Free(s, w)
          /\ \A j \in Int : Tight(right, j) =>
                \/ j < p /\ Tight(s, j)
                \/ j >= p /\ Tight(s, j + 1)
                \/ j # p /\ Tight(s, j)
      BY ONLY <2>1, <1>10, <1>13, CoalesceKeeps
    <2>3. \A j \in Int : j + 1 \in Int
      OBVIOUS
    <2>4. QED
      BY <2>1, <2>2, <2>3, <1>11
  <1>15. PICK r : r = Coalesce(right, p - 1)
    OBVIOUS
  <1>16. /\ Ordered(r) /\ \A w : Free(r, w) <=> Free(right, w)
         /\ \A j \in Int : ~Tight(r, j)
    <2>1. p \in Int /\ p - 1 \in Int
      BY <1>3
    <2>2. /\ Ordered(r) /\ \A w : Free(r, w) <=> Free(right, w)
          /\ \A j \in Int : Tight(r, j) =>
                \/ j < p - 1 /\ Tight(right, j)
                \/ j >= p - 1 /\ Tight(right, j + 1)
                \/ j # p - 1 /\ Tight(right, j)
      BY ONLY <2>1, <1>14, <1>15, CoalesceKeeps
    <2>3. \A j \in Int : j + 1 \in Int
      OBVIOUS
    <2>4. QED
      BY <2>1, <2>2, <2>3, <1>14
  <1>17. Insert(list, block) = r
    BY <1>2, <1>4, <1>13, <1>15 DEF Insert
  <1>18. QED
    BY <1>12, <1>14, <1>16, <1>17 DEF Merged

LEMMA MergedFromGaps ==
    ASSUME NEW list \in Seq(Block),
           \A i \in 1 .. Len(list) : list[i].size >= Header,
           \A i, j \in 1 .. Len(list) : i < j => End(list[i]) < list[j].at
    PROVE  Merged(list)
  <1>1. Len(list) \in Nat /\ \A i \in 1 .. Len(list) : list[i].at \in Nat /\ End(list[i]) \in Nat
    <2>1. Len(list) \in Nat /\ \A i \in 1 .. Len(list) : list[i] \in Block
      BY Lengths
    <2>2. QED
      BY <2>1 DEF Block, End
  <1>2. Ordered(list)
    BY <1>1 DEF Ordered
  <1>3. ASSUME NEW i \in Int, Tight(list, i) PROVE FALSE
    <2>1. i \in 1 .. Len(list) /\ i + 1 \in 1 .. Len(list) /\ i < i + 1 /\ End(list[i]) = list[i + 1].at
      BY <1>1, <1>3 DEF Tight
    <2>2. QED
      BY <2>1, <1>1
  <1>4. QED
    BY <1>2, <1>3 DEF Merged

(* Up to Longest the length of a request does not wrap.                    *)
LEMMA NoWrap ==
    ASSUME NEW size \in Nat, size <= Longest
    PROVE  Actual(size) = size + Header
  <1>1. PICK m \in Nat \ {0} : m = SizeMod
    BY FreeListAssumption
  <1>2. PICK x \in Nat : x = size + Header /\ x < m
    BY <1>1, FreeListAssumption DEF Longest
  <1>3. x % m = x
    BY <1>2
  <1>4. QED
    BY <1>1, <1>2, <1>3 DEF Actual

(* freelist_alloc takes the beginning of block i, or all of it.            *)
LEMMA TakeKeeps ==
    ASSUME NEW list, Merged(list), NEW i \in 1 .. Len(list), NEW size \in Nat \ {0},
           size <= Longest, list[i].size >= size + Header
    PROVE  /\ Merged(Take(list, i, size))
           /\ Taken(list[i], size) \in Nat /\ Taken(list[i], size) >= size + Header
           /\ \A w \in Extent(list[i].at, Taken(list[i], size)) : Free(list, w)
           /\ \A w : Free(Take(list, i, size), w) <=>
                        Free(list, w) /\ w \notin Extent(list[i].at, Taken(list[i], size))
  <1>0. Header \in Nat /\ Header > 0 /\ Ordered(list) /\ list \in Seq(Block)
    BY FreeListAssumption DEF Merged, Ordered
  <1>1. PICK n \in Nat : n = Len(list) /\ DOMAIN list = 1 .. n
    BY <1>0, Lengths
  <1>2. \A k \in 1 .. n : /\ list[k] \in Block /\ list[k].at \in Nat /\ list[k].size \in Nat
                          /\ list[k].size >= Header /\ End(list[k]) \in Nat
                          /\ list[k].at < End(list[k])
    BY <1>0, <1>1, BlockFields
  <1>3. \A k, l \in 1 .. n : k < l => End(list[k]) < list[l].at
    BY <1>1, GapsInMerged
  <1>4. PICK a \in Nat : a = list[i].at
    BY <1>1, <1>2
  <1>w. Actual(size) = size + Header
    BY NoWrap
  <1>5. PICK m \in Nat : m = Taken(list[i], size)
    BY <1>0, <1>1, <1>2, <1>w DEF Taken
  <1>6. m >= size + Header /\ a + m <= End(list[i]) /\ (~Splits(list[i], size) => a + m = End(list[i]))
    BY <1>0, <1>1, <1>2, <1>4, <1>5, <1>w DEF Taken, Splits, End
  <1>7. PICK r : r = Take(list, i, size)
    OBVIOUS
  <1>8. \A w : \A k \in 1 .. n :
            w \in Extent(list[k].at, list[k].size) <=> w \in Int /\ list[k].at <= w /\ w < End(list[k])
    BY <1>2, InExtent DEF End
  <1>9. \A w : w \in Extent(a, m) <=> w \in Int /\ a <= w /\ w < a + m
    BY InExtent
  <1>10. ASSUME NEW w \in Extent(a, m) PROVE Free(list, w)
    <2>1. w \in Extent(list[i].at, list[i].size)
      BY <1>1, <1>2, <1>4, <1>6, <1>8, <1>9
    <2>2. QED
      BY <2>1 DEF Free
  <1>11. CASE Splits(list[i], size)
    <2>1. m = size + Header /\ list[i].size - (size + Header) >= Header
      BY <1>5, <1>11, <1>w DEF Taken, Splits
    <2>2. PICK rest : rest = [at |-> list[i].at + (size + Header), size |-> list[i].size - (size + Header)]
      OBVIOUS
    <2>3. /\ rest \in Block /\ rest.at = a + m /\ rest.size \in Nat /\ rest.size >= Header
          /\ End(rest) = End(list[i])
      <3>1. PICK s \in Nat : s = list[i].size /\ s - (size + Header) >= Header
        BY <2>1, <1>1, <1>2
      <3>2. rest = [at |-> a + (size + Header), size |-> s - (size + Header)]
        BY <2>2, <3>1, <1>4
      <3>3. rest.at = a + m /\ rest.size = s - (size + Header)
        BY <3>2, <2>1, <1>0
      <3>4. rest \in Block /\ rest.size \in Nat /\ rest.size >= Header
        <4>1. s - (size + Header) \in Nat /\ a + (size + Header) \in Nat
          BY ONLY <3>1, <1>0, s \in Nat, a \in Nat, size \in Nat \ {0}
        <4>2. rest \in Block
          BY ONLY <4>1, <3>2 DEF Block
        <4>3. QED
          BY <4>1, <4>2, <3>1, <3>3
      <3>5. End(rest) = a + s /\ End(list[i]) = a + s
        BY <3>1, <3>3, <2>1, <1>0, <1>4 DEF End
      <3>6. QED
        BY <3>3, <3>4, <3>5
    <2>4. r = [list EXCEPT ![i] = rest]
      BY <2>2, <1>7, <1>11, <1>w DEF Take
    <2>5. r \in [1 .. n -> Block]
      <3>1. list \in [1 .. n -> Block]
        BY <1>0, <1>1, <1>2
      <3>2. QED
        BY <3>1, <2>3, <2>4
    <2>6. r \in Seq(Block) /\ Len(r) = n
      BY <2>5, SeqDef, LenProperties
    <2>7. r[i] = rest /\ \A k \in 1 .. n : k # i => r[k] = list[k]
      BY <2>4, <1>1
    <2>8. \A k \in 1 .. n : r[k].size >= Header /\ End(r[k]) = End(list[k]) /\ r[k].at \in Nat /\ r[k].at >= list[k].at
      <3> SUFFICES ASSUME NEW k \in 1 .. n
                   PROVE r[k].size >= Header /\ End(r[k]) = End(list[k]) /\ r[k].at \in Nat /\ r[k].at >= list[k].at
        OBVIOUS
      <3>1. CASE k = i
        BY <3>1, <2>3, <2>7, <1>4
      <3>2. CASE k # i
        BY <3>2, <2>7, <1>2
      <3>3. QED
        BY <3>1, <3>2
    <2>9. Merged(r)
      <3>1. \A k, l \in 1 .. n : k < l => End(r[k]) < r[l].at
        <4> SUFFICES ASSUME NEW k \in 1 .. n, NEW l \in 1 .. n, k < l PROVE End(r[k]) < r[l].at
          OBVIOUS
        <4>1. End(list[k]) < list[l].at
          BY <1>3
        <4>2. QED
          BY <4>1, <2>8, <1>2
      <3>2. QED
        BY <3>1, <2>6, <2>8, MergedFromGaps
    <2>10. ASSUME NEW w PROVE Free(r, w) <=> Free(list, w) /\ w \notin Extent(a, m)
      <3>1. \A k \in 1 .. n : w \in Extent(r[k].at, r[k].size) <=> w \in Int /\ r[k].at <= w /\ w < End(r[k])
        <4>1. \A k \in 1 .. n : r[k] \in Block
          BY ONLY <2>5
        <4>2. \A b \in Block : b.at \in Nat /\ b.size \in Nat
          BY ONLY DEF Block
        <4>3. \A k \in 1 .. n : r[k].at \in Nat /\ r[k].size \in Nat
          BY ONLY <4>1, <4>2
        <4>4. QED
          BY ONLY <4>3, InExtent DEF End
      <3>2. ASSUME NEW k \in 1 .. n, w \in Extent(r[k].at, r[k].size)
            PROVE  w \in Extent(list[k].at, list[k].size) /\ w \notin Extent(a, m)
        <4>1. w \in Int /\ r[k].at <= w /\ w < End(list[k]) /\ list[k].at <= w
          BY <3>1, <3>2, <2>8, <1>2
        <4>2. CASE k = i
          BY <4>1, <4>2, <2>3, <2>7, <1>8, <1>9
        <4>3. CASE k < i
          <5>1. End(list[k]) < a
            BY <4>3, <1>1, <1>3, <1>4
          <5>2. w < a
            BY <5>1, <4>1, <1>2
          <5>3. QED
            BY <5>2, <4>1, <1>8, <1>9
        <4>4. CASE k > i
          <5>1. End(list[i]) < list[k].at
            BY <4>4, <1>1, <1>3
          <5>2. a + m <= w
            BY <5>1, <4>1, <1>1, <1>2, <1>6
          <5>3. QED
            BY <5>2, <4>1, <1>8, <1>9
        <4>5. QED
          BY <4>2, <4>3, <4>4, <1>1
      <3>3. ASSUME NEW k \in 1 .. n, w \in Extent(list[k].at, list[k].size), w \notin Extent(a, m)
            PROVE  w \in Extent(r[k].at, r[k].size)
        <4>1. w \in Int /\ list[k].at <= w /\ w < End(list[k])
          BY <3>3, <1>8
        <4>2. CASE k = i
          <5>1. a + m <= w
            BY <4>1, <4>2, <3>3, <1>4, <1>9
          <5>2. QED
            BY <5>1, <4>1, <4>2, <3>1, <2>3, <2>7
        <4>3. CASE k # i
          BY <4>3, <3>3, <2>7
        <4>4. QED
          BY <4>2, <4>3
      <3>4. QED
        BY <3>2, <3>3, <2>6, <1>1 DEF Free
    <2>11. QED
      BY <2>9, <2>10, <1>4, <1>5, <1>6, <1>7, <1>10
  <1>12. CASE ~Splits(list[i], size)
    <2>1. m = list[i].size /\ r = RemoveAt(list, i)
      BY <1>5, <1>7, <1>12 DEF Taken, Take
    <2>2. /\ r \in Seq(Block) /\ Len(r) = n - 1
          /\ \A k \in 1 .. i - 1 : r[k] = list[k]
          /\ \A k \in i .. n - 1 : r[k] = list[k + 1]
      <3>1. Without(Block, list, i, r)
        BY <1>0, <2>1, RemovedAt
      <3>2. QED
        BY <3>1, <1>1 DEF Without
    <2>3. ASSUME NEW k \in 1 .. n - 1
          PROVE  \/ k < i /\ k \in 1 .. n /\ r[k] = list[k]
                 \/ k >= i /\ k + 1 \in 1 .. n /\ r[k] = list[k + 1]
      <3>1. CASE k < i
        <4>1. k \in 1 .. i - 1 /\ k \in 1 .. n
          BY <3>1, <1>1
        <4>2. QED
          BY <4>1, <3>1, <2>2
      <3>2. CASE k >= i
        BY <3>2, <2>2, <1>1
      <3>3. QED
        BY <3>1, <3>2, <1>1
    <2>4. Merged(r)
      <3>1. \A k \in 1 .. n - 1 : r[k].size >= Header
        BY <2>3, <1>2
      <3>2. ASSUME NEW k \in 1 .. n - 1, NEW l \in 1 .. n - 1, k < l PROVE End(r[k]) < r[l].at
        <4>1. CASE k < i /\ l < i
          BY <4>1, <3>2, <2>3, <1>3
        <4>2. CASE k < i /\ l >= i
          <5>1. k \in 1 .. n /\ r[k] = list[k] /\ l + 1 \in 1 .. n /\ r[l] = list[l + 1] /\ k < l + 1
            BY <4>2, <3>2, <2>3
          <5>2. QED
            BY <5>1, <1>3
        <4>3. CASE k >= i
          <5>1. /\ k + 1 \in 1 .. n /\ r[k] = list[k + 1] /\ l + 1 \in 1 .. n /\ r[l] = list[l + 1]
                /\ k + 1 < l + 1
            BY <4>3, <3>2, <2>3, <1>1
          <5>2. QED
            BY <5>1, <1>3
        <4>4. QED
          BY <4>1, <4>2, <4>3, <1>1
      <3>3. QED
        BY <3>1, <3>2, <2>2, MergedFromGaps
    <2>5. ASSUME NEW w PROVE Free(r, w) <=> Free(list, w) /\ w \notin Extent(a, m)
      <3>1. ASSUME NEW k \in 1 .. n, k # i, w \in Extent(list[k].at, list[k].size)
            PROVE  w \notin Extent(a, m)
        <4>1. w \in Int /\ list[k].at <= w /\ w < End(list[k])
          BY <3>1, <1>8
        <4>2. CASE k < i
          BY <4>1, <4>2, <1>1, <1>2, <1>3, <1>4, <1>9
        <4>3. CASE k > i
          <5>1. End(list[i]) < list[k].at
            BY <4>3, <1>1, <1>3
          <5>2. a + m <= w
            BY <5>1, <4>1, <1>1, <1>2, <1>6
          <5>3. QED
            BY <5>2, <4>1, <1>9
        <4>4. QED
          BY <4>2, <4>3, <3>1, <1>1
      <3>2. ASSUME NEW k \in 1 .. n - 1, w \in Extent(r[k].at, r[k].size)
            PROVE  Free(list, w) /\ w \notin Extent(a, m)
        <4>1. PICK l \in 1 .. n : l # i /\ r[k] = list[l]
          BY <2>3, <1>1
        <4>2. w \in Extent(list[l].at, list[l].size)
          BY <4>1, <3>2
        <4>3. QED
          BY <4>1, <4>2, <3>1, <1>1 DEF Free
      <3>3. ASSUME NEW k \in 1 .. n, w \in Extent(list[k].at, list[k].size), w \notin Extent(a, m)
            PROVE  Free(r, w)
        <4>1. k # i
          BY <3>3, <2>1, <1>4
        <4>2. PICK l \in 1 .. n - 1 : r[l] = list[k]
          <5>1. CASE k < i
            <6>1. k \in 1 .. n - 1 /\ k \in 1 .. i - 1
              BY <5>1, <1>1
            <6>2. QED
              BY <6>1, <2>2
          <5>2. CASE k > i
            <6>1. PICK l \in i .. n - 1 : l + 1 = k
              BY <5>2, <1>1
            <6>2. l \in 1 .. n - 1
              BY <1>1
            <6>3. QED
              BY <6>1, <6>2, <2>2
          <5>3. QED
            BY <5>1, <5>2, <4>1, <1>1
        <4>3. QED
          BY <4>2, <3>3, <2>2 DEF Free
      <3>4. QED
        BY <3>2, <3>3, <2>2, <1>1 DEF Free
    <2>6. QED
      BY <2>4, <2>5, <1>4, <1>5, <1>6, <1>7, <1>10
  <1>13. QED
    BY <1>11, <1>12


-----------------------------------------------------------------------------
(* The layout of a heap: a list, the blocks of the callers and a pool      *)

Layout(list, blk, P) ==
    /\ Merged(list)
    /\ \A a \in DOMAIN blk : a \in Nat /\ blk[a] \in Nat /\ blk[a] > Header
    /\ \A a \in DOMAIN blk : \A w \in Extent(a, blk[a]) : ~Free(list, w)
    /\ \A a, b \in DOMAIN blk : a # b => \A w \in Extent(a, blk[a]) : w \notin Extent(b, blk[b])
    /\ \A w : w \in P <=> Free(list, w) \/ \E a \in DOMAIN blk : w \in Extent(a, blk[a])

LEMMA StartOf ==
    ASSUME NEW a \in Nat, NEW m \in Nat \ {0}
    PROVE  a \in Extent(a, m)
  BY DEF Extent

(* freelist_alloc gives away free words only.                              *)
LEMMA AllocKeeps ==
    ASSUME NEW list, NEW blk, NEW P, Layout(list, blk, P), NEW size \in Nat \ {0},
           size <= Longest, NEW i \in Fits(list, size),
           NEW new, new = [a \in DOMAIN blk \union {list[i].at} |->
                              IF a = list[i].at THEN Taken(list[i], size) ELSE blk[a]]
    PROVE  /\ Layout(Take(list, i, size), new, P)
           /\ list[i].at \notin DOMAIN blk
           /\ Taken(list[i], size) \in Nat /\ Taken(list[i], size) >= size + Header
  <1>0. Header \in Nat /\ Merged(list) /\ Ordered(list)
    BY FreeListAssumption DEF Layout, Merged
  <1>1. i \in 1 .. Len(list) /\ list[i].size >= size + Header
    BY NoWrap DEF Fits
  <1>2. PICK r : r = Take(list, i, size)
    OBVIOUS
  <1>3. PICK m : m = Taken(list[i], size)
    OBVIOUS
  <1>4. PICK x : x = list[i].at
    OBVIOUS
  <1>5. /\ Merged(r) /\ m \in Nat /\ m >= size + Header
        /\ \A w \in Extent(x, m) : Free(list, w)
        /\ \A w : Free(r, w) <=> Free(list, w) /\ w \notin Extent(x, m)
    BY <1>0, <1>1, <1>2, <1>3, <1>4, TakeKeeps
  <1>6. x \in Nat
    BY <1>0, <1>1, <1>4, BlockFields
  <1>7. m \in Nat \ {0} /\ m > Header
    BY <1>0, <1>5
  <1>8. x \notin DOMAIN blk
    <2> SUFFICES ASSUME x \in DOMAIN blk PROVE FALSE
      OBVIOUS
    <2>1. x \in Extent(x, m)
      BY <1>6, <1>7, StartOf
    <2>2. blk[x] \in Nat \ {0}
      BY <1>0 DEF Layout
    <2>3. x \in Extent(x, blk[x])
      BY <1>6, <2>2, StartOf
    <2>4. QED
      BY <2>1, <2>3, <1>5 DEF Layout
  <1>9. /\ DOMAIN new = DOMAIN blk \union {x} /\ new[x] = m
        /\ \A a \in DOMAIN blk : new[a] = blk[a]
    BY <1>3, <1>4, <1>8
  <1>10. \A a \in DOMAIN new : a \in Nat /\ new[a] \in Nat /\ new[a] > Header
    BY <1>6, <1>7, <1>9 DEF Layout
  <1>11. \A a \in DOMAIN new : \A w \in Extent(a, new[a]) : ~Free(r, w)
    BY <1>5, <1>9 DEF Layout
  <1>12. ASSUME NEW a \in DOMAIN new, NEW b \in DOMAIN new, a # b, NEW w \in Extent(a, new[a])
         PROVE  w \notin Extent(b, new[b])
    <2>1. CASE a = x
      <3>1. b \in DOMAIN blk /\ new[b] = blk[b] /\ Free(list, w)
        BY <2>1, <1>5, <1>9, <1>12
      <3>2. QED
        BY <3>1 DEF Layout
    <2>2. CASE b = x
      <3>1. a \in DOMAIN blk /\ ~Free(list, w)
        BY <2>2, <1>9, <1>12 DEF Layout
      <3>2. QED
        BY <3>1, <2>2, <1>5, <1>9
    <2>3. CASE a # x /\ b # x
      <3>1. a \in DOMAIN blk /\ b \in DOMAIN blk /\ new[a] = blk[a] /\ new[b] = blk[b]
        BY <2>3, <1>9
      <3>2. QED
        BY <3>1, <1>12 DEF Layout
    <2>4. QED
      BY <2>1, <2>2, <2>3
  <1>13. ASSUME NEW w
         PROVE  w \in P <=> Free(r, w) \/ \E a \in DOMAIN new : w \in Extent(a, new[a])
    <2>1. w \in P <=> Free(list, w) \/ \E a \in DOMAIN blk : w \in Extent(a, blk[a])
      BY DEF Layout
    <2>2. (\E a \in DOMAIN new : w \in Extent(a, new[a])) <=>
            w \in Extent(x, m) \/ \E a \in DOMAIN blk : w \in Extent(a, blk[a])
      BY <1>9
    <2>3. Free(r, w) <=> Free(list, w) /\ w \notin Extent(x, m)
      BY <1>5
    <2>4. w \in Extent(x, m) => Free(list, w)
      BY <1>5
    <2>5. QED
      BY <2>1, <2>2, <2>3, <2>4
  <1>14. Layout(r, new, P)
    BY <1>5, <1>10, <1>11, <1>12, <1>13 DEF Layout
  <1>15. QED
    BY <1>2, <1>3, <1>4, <1>5, <1>8, <1>14

(* A block outside of the pool does not overlap the list.                  *)
LEMMA NotOnList ==
    ASSUME NEW list, Merged(list), NEW a \in Nat, NEW m \in Nat, m >= Header,
           \A w \in Extent(a, m) : ~Free(list, w)
    PROVE  LET block == [at |-> a, size |-> m]
           IN  /\ block \in Block /\ block.size >= Header
               /\ \A j \in 1 .. Len(list) : End(list[j]) <= block.at \/ End(block) <= list[j].at
  <1>0. Header \in Nat /\ Header > 0 /\ Ordered(list)
    BY FreeListAssumption DEF Merged
  <1>1. PICK block : block = [at |-> a, size |-> m]
    OBVIOUS
  <1>2. block \in Block /\ block.size = m /\ block.at = a /\ End(block) = a + m
    BY <1>1 DEF Block, End
  <1>3. ASSUME NEW j \in 1 .. Len(list)
        PROVE  End(list[j]) <= block.at \/ End(block) <= list[j].at
    <2>1. PICK b \in Nat : b = list[j].at
      BY <1>0, BlockFields
    <2>2. PICK n \in Nat \ {0} : n = list[j].size
      BY <1>0, BlockFields
    <2>3. \A w : ~ (w \in Extent(a, m) /\ w \in Extent(b, n))
      BY <2>1, <2>2 DEF Free
    <2>4. m \in Nat \ {0}
      BY <1>0
    <2>5. a + m <= b \/ b + n <= a
      BY <2>3, <2>4, IntervalsApart
    <2>6. QED
      BY <2>1, <2>2, <2>5, <1>2 DEF End
  <1>4. QED
    BY <1>1, <1>2, <1>3

(* freelist_free takes the words of a block back.                          *)
LEMMA FreeKeeps ==
    ASSUME NEW list, NEW blk, NEW P, Layout(list, blk, P), NEW at \in DOMAIN blk,
           NEW new, new = [a \in DOMAIN blk \ {at} |-> blk[a]]
    PROVE  Layout(Insert(list, [at |-> at, size |-> blk[at]]), new, P)
  <1>0. Header \in Nat /\ Merged(list)
    BY FreeListAssumption DEF Layout
  <1>1. at \in Nat /\ blk[at] \in Nat /\ blk[at] > Header
    BY DEF Layout
  <1>2. PICK m \in Nat : m = blk[at] /\ m >= Header
    BY <1>0, <1>1
  <1>3. \A w \in Extent(at, m) : ~Free(list, w)
    BY <1>2 DEF Layout
  <1>4. PICK block : block = [at |-> at, size |-> m]
    OBVIOUS
  <1>5. /\ block \in Block /\ block.size >= Header /\ block.at = at /\ block.size = m
        /\ \A j \in 1 .. Len(list) : End(list[j]) <= block.at \/ End(block) <= list[j].at
    BY <1>0, <1>1, <1>2, <1>3, <1>4, NotOnList
  <1>6. PICK r : r = Insert(list, block)
    OBVIOUS
  <1>7. Merged(r) /\ \A w : Free(r, w) <=> Free(list, w) \/ w \in Extent(at, m)
    BY <1>0, <1>5, <1>6, InsertKeeps
  <1>8. DOMAIN new = DOMAIN blk \ {at} /\ \A a \in DOMAIN new : new[a] = blk[a]
    OBVIOUS
  <1>9. \A a \in DOMAIN new : a \in Nat /\ new[a] \in Nat /\ new[a] > Header
    BY <1>8 DEF Layout
  <1>10. ASSUME NEW a \in DOMAIN new, NEW w \in Extent(a, new[a]) PROVE ~Free(r, w)
    <2>1. a \in DOMAIN blk /\ a # at /\ w \in Extent(a, blk[a])
      BY <1>8
    <2>2. ~Free(list, w) /\ w \notin Extent(at, blk[at])
      BY <2>1 DEF Layout
    <2>3. QED
      BY <2>2, <1>2, <1>7
  <1>11. \A a, b \in DOMAIN new : a # b => \A w \in Extent(a, new[a]) : w \notin Extent(b, new[b])
    BY <1>8 DEF Layout
  <1>12. ASSUME NEW w
         PROVE  w \in P <=> Free(r, w) \/ \E a \in DOMAIN new : w \in Extent(a, new[a])
    <2>1. w \in P <=> Free(list, w) \/ \E a \in DOMAIN blk : w \in Extent(a, blk[a])
      BY DEF Layout
    <2>2. (\E a \in DOMAIN blk : w \in Extent(a, blk[a])) <=>
            w \in Extent(at, m) \/ \E a \in DOMAIN new : w \in Extent(a, new[a])
      BY <1>2, <1>8
    <2>3. QED
      BY <2>1, <2>2, <1>7
  <1>13. Layout(r, new, P)
    BY <1>7, <1>9, <1>10, <1>11, <1>12 DEF Layout
  <1>14. QED
    BY <1>2, <1>4, <1>6, <1>13

(* grow_heap adds words that were not in the pool.                         *)
LEMMA GrowKeeps ==
    ASSUME NEW list, NEW blk, NEW P, Layout(list, blk, P), NEW at \in Nat, NEW more \in Nat,
           more >= Header, Extent(at, more) \intersect P = {}
    PROVE  Layout(Insert(list, [at |-> at, size |-> more]), blk, P \union Extent(at, more))
  <1>0. Header \in Nat /\ Merged(list)
    BY FreeListAssumption DEF Layout
  <1>1. \A w \in Extent(at, more) : ~Free(list, w)
    BY DEF Layout
  <1>2. PICK block : block = [at |-> at, size |-> more]
    OBVIOUS
  <1>3. /\ block \in Block /\ block.size >= Header /\ block.at = at /\ block.size = more
        /\ \A j \in 1 .. Len(list) : End(list[j]) <= block.at \/ End(block) <= list[j].at
    BY <1>0, <1>1, <1>2, NotOnList
  <1>4. PICK r : r = Insert(list, block)
    OBVIOUS
  <1>5. Merged(r) /\ \A w : Free(r, w) <=> Free(list, w) \/ w \in Extent(at, more)
    BY <1>0, <1>3, <1>4, InsertKeeps
  <1>6. \A a \in DOMAIN blk : \A w \in Extent(a, blk[a]) : ~Free(r, w)
    <2> SUFFICES ASSUME NEW a \in DOMAIN blk, NEW w \in Extent(a, blk[a]) PROVE ~Free(r, w)
      OBVIOUS
    <2>1. w \in P /\ ~Free(list, w)
      BY DEF Layout
    <2>2. QED
      BY <2>1, <1>5
  <1>7. \A w : w \in P \union Extent(at, more) <=>
                  Free(r, w) \/ \E a \in DOMAIN blk : w \in Extent(a, blk[a])
    BY <1>5 DEF Layout
  <1>8. Layout(r, blk, P \union Extent(at, more))
    BY <1>5, <1>6, <1>7 DEF Layout
  <1>9. QED
    BY <1>2, <1>4, <1>8

(* The pages for a length are none, if their number wraps, or whole.       *)
LEMMA RoundsUp ==
    ASSUME NEW size \in Sizes, RoundUp(size) # 0
    PROVE  RoundUp(size) \in Nat /\ RoundUp(size) >= PageSize
  <1>1. PICK p \in Nat \ {0} : p = PageSize
    BY FreeListAssumption
  <1>2. PICK m \in Nat \ {0} : m = SizeMod /\ m % p = 0
    BY <1>1, FreeListAssumption
  <1>3. PICK u \in Nat : m = u * p
    <2>1. m = (m \div p) * p
      BY ONLY <1>2, p \in Nat \ {0}, m \in Nat
    <2>2. m \div p \in Nat
      BY <1>1, <1>2
    <2>3. QED
      BY <2>1, <2>2
  <1>4. size \in Nat \ {0} /\ size < m
    BY <1>2, FreeListAssumption
  <1>5. PICK x \in Nat : x = size + p - 1
    BY <1>1, <1>4
  <1>6. PICK q \in Nat : q = x \div p
    BY <1>1, <1>5
  <1>7. q * p \in Nat /\ q * p <= x /\ x < q * p + p
    BY ONLY <1>6, p \in Nat \ {0}, x \in Nat, q \in Nat
  <1>8. RoundUp(size) = (q * p) % m
    BY <1>1, <1>2, <1>5, <1>6 DEF RoundUp
  <1>9. q * p <= m
    <2>1. q * p < m + p
      BY <1>1, <1>2, <1>4, <1>5, <1>7
    <2>2. q <= u
      <3> SUFFICES ASSUME q > u PROVE FALSE
        OBVIOUS
      <3>1. PICK d \in Nat : q = u + 1 + d
        OBVIOUS
      <3>2. q * p = u * p + p + d * p /\ d * p \in Nat
        BY <3>1, <1>1
      <3>3. QED
        BY <3>2, <2>1, <1>1, <1>2, <1>3
    <2>3. PICK d \in Nat : u = q + d
      BY <2>2
    <2>4. u * p = q * p + d * p /\ d * p \in Nat
      BY <2>3, <1>1
    <2>5. QED
      BY <2>4, <1>3, <1>7
  <1>10. PICK k \in Nat : q = k + 1
    BY <1>1, <1>4, <1>5, <1>7
  <1>11. q * p = k * p + p /\ k * p \in Nat
    BY <1>1, <1>10
  <1>12. CASE q * p = m
    <2>1. (q * p) % m = 0
      BY <1>12, <1>2
    <2>2. QED
      BY <2>1, <1>8
  <1>13. CASE q * p < m
    <2>1. (q * p) % m = q * p
      BY <1>13, <1>2, <1>7
    <2>2. QED
      BY <2>1, <1>1, <1>7, <1>8, <1>11
  <1>14. QED
    BY <1>2, <1>7, <1>9, <1>12, <1>13


-----------------------------------------------------------------------------
(* Counting the pieces of a pool                                           *)

\* Disjoint sets that are not empty are as many as their names.
LEMMA CountOf ==
    ASSUME NEW S, IsFiniteSet(S), NEW f, f = [s \in S |-> f[s]],
           \A s \in S : f[s] # {},
           \A s, t \in S : s # t => f[s] \intersect f[t] = {}
    PROVE  LET T == {f[s] : s \in S} IN IsFiniteSet(T) /\ Cardinality(T) = Cardinality(S)
  <1> DEFINE T == {f[s] : s \in S}
  <1>1. f \in [S -> T]
    OBVIOUS
  <1>2. \A a, b \in S : f[a] = f[b] => a = b
    <2> SUFFICES ASSUME NEW a \in S, NEW b \in S, f[a] = f[b], a # b PROVE FALSE
      OBVIOUS
    <2>1. f[a] \intersect f[b] = {} /\ f[a] # {}
      OBVIOUS
    <2>2. QED
      BY <2>1
  <1>3. \A t \in T : \E s \in S : f[s] = t
    OBVIOUS
  <1> HIDE DEF T
  <1>4. f \in Bijection(S, T)
    BY ONLY <1>1, <1>2, <1>3, Fun_IsBij
  <1>5. ExistsBijection(S, T)
    BY <1>4, Fun_ExistsBij
  <1>6. IsFiniteSet(T) /\ Cardinality(T) = Cardinality(S)
    BY <1>5, FS_Bijection
  <1>7. QED
    BY <1>6 DEF T

LEMMA ExtentSize ==
    ASSUME NEW a \in Nat, NEW m \in Nat
    PROVE  IsFiniteSet(Extent(a, m)) /\ Cardinality(Extent(a, m)) = m
  <1>1. a \in Int /\ a + m - 1 \in Int
    OBVIOUS
  <1>2. /\ IsFiniteSet(a .. a + m - 1)
        /\ Cardinality(a .. a + m - 1) = IF a > a + m - 1 THEN 0 ELSE a + m - 1 - a + 1
    BY <1>1, FS_Interval
  <1>3. QED
    BY <1>2 DEF Extent

(* Two blocks of the list have no word in common.                          *)
LEMMA FreeApart ==
    ASSUME NEW list, Merged(list), NEW i \in 1 .. Len(list), NEW j \in 1 .. Len(list), i # j
    PROVE  Extent(list[i].at, list[i].size) \intersect Extent(list[j].at, list[j].size) = {}
  <1>0. Ordered(list) /\ Len(list) \in Nat
    <2>1. list \in Seq(Block) /\ Ordered(list)
      BY DEF Merged, Ordered
    <2>2. QED
      BY <2>1, Lengths
  <1>1. ASSUME NEW k \in 1 .. Len(list), NEW l \in 1 .. Len(list), k < l,
               NEW w \in Extent(list[k].at, list[k].size), w \in Extent(list[l].at, list[l].size)
        PROVE  FALSE
    <2>1. End(list[k]) < list[l].at
      BY <1>1, GapsInMerged
    <2>2. /\ list[k].at \in Nat /\ list[k].size \in Nat /\ list[l].at \in Nat /\ list[l].size \in Nat
      BY <1>0, BlockFields
    <2>3. w \in Int /\ w < list[k].at + list[k].size /\ list[l].at <= w
      BY <2>2, <1>1, InExtent
    <2>4. QED
      BY <2>1, <2>2, <2>3 DEF End
  <1>2. i < j \/ j < i
    BY <1>0
  <1>3. QED
    BY <1>1, <1>2

LEMMA FreeCount ==
    ASSUME NEW list, Merged(list)
    PROVE  LET T == {Extent(list[i].at, list[i].size) : i \in 1 .. Len(list)}
           IN  IsFiniteSet(T) /\ Cardinality(T) = Len(list)
  <1>0. Ordered(list) /\ Len(list) \in Nat
    <2>1. list \in Seq(Block) /\ Ordered(list)
      BY DEF Merged, Ordered
    <2>2. QED
      BY <2>1, Lengths
  <1>1. PICK n \in Nat : n = Len(list)
    BY <1>0
  <1>2. PICK f : f = [i \in 1 .. n |-> Extent(list[i].at, list[i].size)]
    OBVIOUS
  <1>3. IsFiniteSet(1 .. n) /\ Cardinality(1 .. n) = n
    <2>1. 1 \in Int /\ n \in Int
      OBVIOUS
    <2>2. IsFiniteSet(1 .. n) /\ Cardinality(1 .. n) = IF 1 > n THEN 0 ELSE n - 1 + 1
      BY <2>1, FS_Interval
    <2>3. QED
      BY <2>2
  <1>4. \A i \in 1 .. n : f[i] # {}
    <2> SUFFICES ASSUME NEW i \in 1 .. n PROVE f[i] # {}
      OBVIOUS
    <2>1. list[i].at \in Nat /\ list[i].size \in Nat \ {0}
      BY <1>0, <1>1, BlockFields
    <2>2. list[i].at \in Extent(list[i].at, list[i].size)
      BY <2>1, StartOf
    <2>3. QED
      BY <2>2, <1>2
  <1>5. \A i, j \in 1 .. n : i # j => f[i] \intersect f[j] = {}
    BY <1>1, <1>2, FreeApart
  <1>6. f = [i \in 1 .. n |-> f[i]]
    BY <1>2
  <1>7. PICK I : I = 1 .. n
    OBVIOUS
  <1>8. PICK T : T = {f[i] : i \in I}
    OBVIOUS
  <1>9. IsFiniteSet(T) /\ Cardinality(T) = Cardinality(I)
    <2>1. /\ IsFiniteSet(I) /\ f = [i \in I |-> f[i]] /\ \A i \in I : f[i] # {}
          /\ \A i, j \in I : i # j => f[i] \intersect f[j] = {}
      BY <1>3, <1>4, <1>5, <1>6, <1>7
    <2>2. LET V == {f[i] : i \in I} IN IsFiniteSet(V) /\ Cardinality(V) = Cardinality(I)
      BY ONLY <2>1, CountOf
    <2>3. QED
      BY <2>2, <1>8
  <1>10. T = {Extent(list[i].at, list[i].size) : i \in 1 .. Len(list)}
    BY <1>1, <1>2, <1>7, <1>8
  <1>11. QED
    BY <1>1, <1>3, <1>7, <1>9, <1>10

LEMMA UsedCount ==
    ASSUME NEW list, NEW blk, NEW P, Layout(list, blk, P), IsFiniteSet(DOMAIN blk)
    PROVE  LET T == {Extent(a, blk[a]) : a \in DOMAIN blk}
           IN  IsFiniteSet(T) /\ Cardinality(T) = Cardinality(DOMAIN blk)
  <1>1. PICK D : D = DOMAIN blk
    OBVIOUS
  <1>2. PICK f : f = [a \in D |-> Extent(a, blk[a])]
    OBVIOUS
  <1>3. \A a \in D : f[a] # {}
    <2> SUFFICES ASSUME NEW a \in D PROVE f[a] # {}
      OBVIOUS
    <2>1. a \in Nat /\ blk[a] \in Nat \ {0}
      BY <1>1, FreeListAssumption DEF Layout
    <2>2. a \in Extent(a, blk[a])
      BY <2>1, StartOf
    <2>3. QED
      BY <2>2, <1>2
  <1>4. \A a, b \in D : a # b => f[a] \intersect f[b] = {}
    BY <1>1, <1>2 DEF Layout
  <1>5. f = [a \in D |-> f[a]]
    BY <1>2
  <1>6. PICK T : T = {f[a] : a \in D}
    OBVIOUS
  <1>7. IsFiniteSet(T) /\ Cardinality(T) = Cardinality(D)
    BY <1>1, <1>3, <1>4, <1>5, <1>6, CountOf
  <1>8. T = {Extent(a, blk[a]) : a \in DOMAIN blk}
    BY <1>1, <1>2, <1>6
  <1>9. QED
    BY <1>1, <1>7, <1>8

\* The sets of E and U cut P into pieces.
Cut(list, blk, P, E, U) ==
    /\ UNION (E \union U) = P
    /\ Len(list) + Cardinality(DOMAIN blk) = Cardinality(E \union U)
    /\ \A x, y \in E \union U : x # y => x \intersect y = {}

(* The free blocks and the blocks of the callers cut the pool into pieces. *)
LEMMA Pieces ==
    ASSUME NEW list, NEW blk, NEW P, Layout(list, blk, P), IsFiniteSet(DOMAIN blk),
           NEW E, E = {Extent(list[i].at, list[i].size) : i \in 1 .. Len(list)},
           NEW U, U = {Extent(a, blk[a]) : a \in DOMAIN blk}
    PROVE  Cut(list, blk, P, E, U)
  <1>0. Merged(list)
    BY DEF Layout
  <1>1. \A w : (\E x \in E : w \in x) <=> Free(list, w)
    BY DEF Free
  <1>2. \A w : (\E x \in U : w \in x) <=> \E a \in DOMAIN blk : w \in Extent(a, blk[a])
    OBVIOUS
  <1>3. UNION (E \union U) = P
    <2>1. \A w : w \in UNION (E \union U) <=> (\E x \in E : w \in x) \/ (\E x \in U : w \in x)
      OBVIOUS
    <2>2. \A w : w \in UNION (E \union U) <=> w \in P
      BY <2>1, <1>1, <1>2 DEF Layout
    <2>3. QED
      BY <2>2
  <1>4. \A x \in E : \A y \in U : x \intersect y = {}
    <2> SUFFICES ASSUME NEW x \in E, NEW y \in U, NEW w \in x, w \in y PROVE FALSE
      OBVIOUS
    <2>1. Free(list, w)
      BY <1>1
    <2>2. PICK a \in DOMAIN blk : w \in Extent(a, blk[a])
      BY <1>2
    <2>3. QED
      BY <2>1, <2>2 DEF Layout
  <1>5. \A x, y \in E : x # y => x \intersect y = {}
    <2> SUFFICES ASSUME NEW x \in E, NEW y \in E, x # y PROVE x \intersect y = {}
      OBVIOUS
    <2>1. PICK i \in 1 .. Len(list) : x = Extent(list[i].at, list[i].size)
      OBVIOUS
    <2>2. PICK j \in 1 .. Len(list) : y = Extent(list[j].at, list[j].size)
      OBVIOUS
    <2>3. i # j
      BY <2>1, <2>2
    <2>4. QED
      BY <2>1, <2>2, <2>3, <1>0, FreeApart
  <1>6. \A x, y \in U : x # y => x \intersect y = {}
    BY DEF Layout
  <1>7. E \intersect U = {}
    <2> SUFFICES ASSUME NEW x \in U, x \in E PROVE FALSE
      OBVIOUS
    <2>1. PICK a \in DOMAIN blk : x = Extent(a, blk[a])
      OBVIOUS
    <2>2. a \in Nat /\ blk[a] \in Nat \ {0}
      BY FreeListAssumption DEF Layout
    <2>3. a \in x
      BY <2>1, <2>2, StartOf
    <2>4. QED
      BY <2>3, <1>4
  <1>8. IsFiniteSet(E) /\ Cardinality(E) = Len(list)
    BY <1>0, FreeCount
  <1>9. IsFiniteSet(U) /\ Cardinality(U) = Cardinality(DOMAIN blk)
    BY UsedCount
  <1>10. Cardinality(E \union U) = Cardinality(E) + Cardinality(U) - Cardinality(E \intersect U)
    BY ONLY <1>8, <1>9, FS_Union
  <1>11. Cardinality(E \intersect U) = 0 /\ Cardinality(E) \in Nat /\ Cardinality(U) \in Nat
    BY <1>7, <1>8, <1>9, FS_EmptySet, FS_CardinalityType
  <1>12. Len(list) + Cardinality(DOMAIN blk) = Cardinality(E \union U)
    <2>1. PICK m \in Nat : m = Cardinality(E)
      BY <1>11
    <2>2. PICK n \in Nat : n = Cardinality(U)
      BY <1>11
    <2>3. Cardinality(E \union U) = m + n - 0
      BY ONLY <2>1, <2>2, <1>10, <1>11
    <2>4. Len(list) = m /\ Cardinality(DOMAIN blk) = n
      BY ONLY <2>1, <2>2, <1>8, <1>9
    <2>5. QED
      BY ONLY <2>3, <2>4, m \in Nat, n \in Nat
  <1>13. \A x, y \in E \union U : x # y => x \intersect y = {}
    <2> SUFFICES ASSUME NEW x \in E \union U, NEW y \in E \union U, x # y
                 PROVE x \intersect y = {}
      OBVIOUS
    <2>1. CASE x \in E /\ y \in E
      BY <2>1, <1>5
    <2>2. CASE x \in U /\ y \in U
      BY <2>2, <1>6
    <2>3. CASE x \in E /\ y \in U
      BY <2>3, <1>4
    <2>4. CASE x \in U /\ y \in E
      <3>1. y \intersect x = {}
        BY <2>4, <1>4
      <3>2. QED
        BY <3>1
    <2>5. QED
      BY <2>1, <2>2, <2>3, <2>4
  <1>14. QED
    BY <1>3, <1>12, <1>13 DEF Cut


-----------------------------------------------------------------------------
(* The blocks of the callers without their headers                         *)

\* What the callers have: owned of Heap.
Held(blk) == {Extent(a + Header, blk[a] - Header) : a \in DOMAIN blk}

LEMMA InsideBlock ==
    ASSUME NEW a \in Nat, NEW m \in Nat, m > Header
    PROVE  /\ a + Header \in Nat /\ m - Header \in Nat \ {0}
           /\ Extent(a + Header, m - Header) \subseteq Extent(a, m)
           /\ a + Header \in Extent(a + Header, m - Header)
           /\ Cardinality(Extent(a + Header, m - Header)) = m - Header
  <1>1. Header \in Nat
    BY FreeListAssumption
  <1>2. PICK b \in Nat : b = a + Header
    BY <1>1
  <1>3. PICK n \in Nat \ {0} : n = m - Header
    BY <1>1
  <1>4. Extent(b, n) \subseteq Extent(a, m)
    BY <1>1, <1>2, <1>3 DEF Extent
  <1>5. b \in Extent(b, n) /\ Cardinality(Extent(b, n)) = n
    BY StartOf, ExtentSize
  <1>6. QED
    BY <1>2, <1>3, <1>4, <1>5

(* Different blocks leave their callers different, disjoint memory.        *)
LEMMA HeldApart ==
    ASSUME NEW list, NEW blk, NEW P, Layout(list, blk, P),
           NEW a \in DOMAIN blk, NEW b \in DOMAIN blk, a # b
    PROVE  /\ Extent(a + Header, blk[a] - Header) \intersect Extent(b + Header, blk[b] - Header) = {}
           /\ Extent(a + Header, blk[a] - Header) # Extent(b + Header, blk[b] - Header)
  <1>1. a \in Nat /\ blk[a] \in Nat /\ blk[a] > Header /\ b \in Nat /\ blk[b] \in Nat /\ blk[b] > Header
    BY DEF Layout
  <1>2. /\ Extent(a + Header, blk[a] - Header) \subseteq Extent(a, blk[a])
        /\ a + Header \in Extent(a + Header, blk[a] - Header)
    BY <1>1, InsideBlock
  <1>3. Extent(b + Header, blk[b] - Header) \subseteq Extent(b, blk[b])
    BY <1>1, InsideBlock
  <1>4. Extent(a, blk[a]) \intersect Extent(b, blk[b]) = {}
    BY DEF Layout
  <1>5. QED
    BY <1>2, <1>3, <1>4

LEMMA HeldInPool ==
    ASSUME NEW list, NEW blk, NEW P, Layout(list, blk, P), NEW a \in DOMAIN blk
    PROVE  Extent(a + Header, blk[a] - Header) \subseteq P
  <1>1. a \in Nat /\ blk[a] \in Nat /\ blk[a] > Header
    BY DEF Layout
  <1>2. Extent(a + Header, blk[a] - Header) \subseteq Extent(a, blk[a])
    BY <1>1, InsideBlock
  <1>3. Extent(a, blk[a]) \subseteq P
    BY DEF Layout
  <1>4. QED
    BY <1>2, <1>3

(* A new block is memory that nobody had, as long as was asked for.        *)
LEMMA Granted ==
    ASSUME NEW list, NEW blk, NEW new, NEW P, Layout(list, new, P), NEW size \in Nat,
           NEW x \in DOMAIN new, x \notin DOMAIN blk, DOMAIN new = DOMAIN blk \union {x},
           new[x] >= size + Header, \A a \in DOMAIN blk : new[a] = blk[a]
    PROVE  \E block \in Held(new) :
              /\ block \subseteq P
              /\ Cardinality(block) >= size
              /\ \A b \in Held(blk) : b \intersect block = {}
              /\ Held(new) = Held(blk) \union {block}
  <1>0. Header \in Nat /\ x \in Nat /\ new[x] \in Nat /\ new[x] > Header
    BY FreeListAssumption DEF Layout
  <1>1. PICK block : block = Extent(x + Header, new[x] - Header)
    OBVIOUS
  <1>2. block \in Held(new)
    BY <1>1 DEF Held
  <1>3. block \subseteq P
    BY <1>1, HeldInPool
  <1>4. Cardinality(block) >= size
    <2>1. Cardinality(block) = new[x] - Header
      BY <1>0, <1>1, InsideBlock
    <2>2. QED
      BY <2>1, <1>0
  <1>5. ASSUME NEW b \in Held(blk) PROVE b \intersect block = {}
    <2>1. PICK a \in DOMAIN blk : b = Extent(a + Header, blk[a] - Header)
      BY DEF Held
    <2>2. a \in DOMAIN new /\ a # x /\ b = Extent(a + Header, new[a] - Header)
      BY <2>1
    <2>3. Extent(a + Header, new[a] - Header) \intersect Extent(x + Header, new[x] - Header) = {}
      BY <2>2, HeldApart
    <2>4. QED
      BY <2>2, <2>3, <1>1
  <1>6. Held(new) = Held(blk) \union {block}
    BY <1>1 DEF Held
  <1>7. QED
    BY <1>2, <1>3, <1>4, <1>5, <1>6

(* kfree takes back one block and no other.                                *)
LEMMA Returned ==
    ASSUME NEW list, NEW blk, NEW P, Layout(list, blk, P), NEW at \in DOMAIN blk,
           NEW new, new = [a \in DOMAIN blk \ {at} |-> blk[a]]
    PROVE  \E block \in Held(blk) : Held(new) = Held(blk) \ {block}
  <1>1. PICK block : block = Extent(at + Header, blk[at] - Header)
    OBVIOUS
  <1>2. block \in Held(blk)
    BY <1>1 DEF Held
  <1>3. \A a \in DOMAIN blk : a # at => Extent(a + Header, blk[a] - Header) # block
    BY <1>1, HeldApart
  <1>4. DOMAIN new = DOMAIN blk \ {at} /\ \A a \in DOMAIN new : new[a] = blk[a]
    OBVIOUS
  <1>5. Held(new) = Held(blk) \ {block}
    BY <1>1, <1>3, <1>4 DEF Held
  <1>6. QED
    BY <1>2, <1>5

-----------------------------------------------------------------------------
(* The inductive invariant                                                 *)

HeapInv ==
    /\ Layout(freeList, blocks, pool)
    /\ pool \subseteq Words
    /\ IsFiniteSet(DOMAIN blocks)
    /\ IsFiniteSet(pool) /\ Cardinality(pool) = capacity

LEMMA HeapInitInv == KheapInit => HeapInv
  <1> SUFFICES ASSUME KheapInit PROVE HeapInv
    OBVIOUS
  <1>0. /\ Header \in Nat /\ Base \in Nat /\ Initial \in Nat /\ Initial >= Header /\ Top \in Nat
        /\ Base + Initial <= Top
    BY FreeListAssumption
  <1>1. PICK b : b = [at |-> Base, size |-> Initial]
    OBVIOUS
  <1>2. b \in Block /\ b.at = Base /\ b.size = Initial
    BY <1>0, <1>1 DEF Block
  <1>3. /\ <<b>> \in Seq(Block) /\ Len(<<b>>) = 1 /\ <<b>>[1] = b
    BY <1>2
  <1>4. Merged(<<b>>)
    <2>1. \A i \in 1 .. Len(<<b>>) : <<b>>[i].size >= Header
      BY <1>0, <1>2, <1>3
    <2>2. \A i, j \in 1 .. Len(<<b>>) : i < j => End(<<b>>[i]) < <<b>>[j].at
      BY <1>3
    <2>3. QED
      BY <2>1, <2>2, <1>3, MergedFromGaps
  <1>5. \A w : Free(<<b>>, w) <=> w \in Extent(Base, Initial)
    BY <1>2, <1>3 DEF Free
  <1>6. DOMAIN blocks = {}
    BY DEF KheapInit
  <1>7. freeList = <<b>> /\ pool = Extent(Base, Initial) /\ capacity = Initial
    BY <1>1 DEF KheapInit
  <1>8. Layout(freeList, blocks, pool)
    BY <1>4, <1>5, <1>6, <1>7 DEF Layout
  <1>9. pool \subseteq Words
    BY <1>0, <1>7 DEF Words, Extent
  <1>10. IsFiniteSet(pool) /\ Cardinality(pool) = capacity
    BY <1>0, <1>7, ExtentSize
  <1>11. QED
    BY <1>6, <1>8, <1>9, <1>10, FS_EmptySet DEF HeapInv

(* What the block found by freelist_alloc adds to those of the callers.    *)
Grants(size) ==
    \E x \in DOMAIN blocks' :
        /\ x \notin DOMAIN blocks
        /\ DOMAIN blocks' = DOMAIN blocks \union {x}
        /\ blocks'[x] >= size + Header
        /\ \A a \in DOMAIN blocks : blocks'[a] = blocks[a]

LEMMA AllocFromKeeps ==
    ASSUME NEW list, NEW P, Layout(list, blocks, P), NEW size \in Nat \ {0},
           size <= Longest, Fits(list, size) # {}, AllocFrom(list, size)
    PROVE  Layout(freeList', blocks', P) /\ Grants(size)
  <1>1. list \in Seq(Block)
    BY DEF Layout, Merged, Ordered
  <1>2. PICK i : i = Min(Fits(list, size))
    OBVIOUS
  <1>3. i \in Fits(list, size)
    <2>1. Fits(list, size) \subseteq Nat
      BY <1>1, Lengths DEF Fits
    <2>2. QED
      BY <2>1, <1>2, LeastOf
  <1>4. PICK blk : blk = blocks
    OBVIOUS
  <1>5. PICK new : new = blocks'
    OBVIOUS
  <1>6. /\ freeList' = Take(list, i, size)
        /\ new = [a \in DOMAIN blk \union {list[i].at} |->
                    IF a = list[i].at THEN Taken(list[i], size) ELSE blk[a]]
    BY <1>2, <1>4, <1>5 DEF AllocFrom
  <1>7. /\ Layout(Take(list, i, size), new, P)
        /\ list[i].at \notin DOMAIN blk
        /\ Taken(list[i], size) \in Nat /\ Taken(list[i], size) >= size + Header
    BY <1>3, <1>4, <1>6, AllocKeeps
  <1>8. PICK x : x = list[i].at
    OBVIOUS
  <1>9. PICK m : m = Taken(list[i], size)
    OBVIOUS
  <1>10. /\ x \in DOMAIN new /\ x \notin DOMAIN blk /\ DOMAIN new = DOMAIN blk \union {x}
         /\ new[x] = m /\ \A a \in DOMAIN blk : new[a] = blk[a]
    BY <1>6, <1>7, <1>8, <1>9
  <1>11. new[x] >= size + Header
    BY <1>7, <1>9, <1>10
  <1>12. Grants(size)
    BY <1>4, <1>5, <1>10, <1>11 DEF Grants
  <1>13. QED
    BY <1>5, <1>6, <1>7, <1>12


LEMMA GrantedDomain ==
    ASSUME IsFiniteSet(DOMAIN blocks), NEW size, Grants(size)
    PROVE  IsFiniteSet(DOMAIN blocks')
  <1>1. PICK x : DOMAIN blocks' = DOMAIN blocks \union {x}
    BY DEF Grants
  <1>2. QED
    BY <1>1, FS_AddElement

(* What a step of the heap does, as a caller sees it.                      *)
Seen ==
    /\ pool \subseteq pool' /\ pool' \subseteq Words
    /\ \/ \E size \in Sizes : Grants(size)
       \/ blocks' = blocks
       \/ \E at \in DOMAIN blocks : /\ blocks' = [a \in DOMAIN blocks \ {at} |-> blocks[a]]
                                    /\ pool' = pool

\* Only a request whose length wraps ends the promise.
Breaks == heapFault' = "wrap" /\ \E n \in Sizes : n > Longest

LEMMA TooLong ==
    ASSUME NEW list, NEW size \in Sizes, AllocFrom(list, size), ~Breaks
    PROVE  size <= Longest /\ heapFault' = heapFault
  <1>1. size \in Nat /\ Longest \in Int
    BY FreeListAssumption DEF Longest
  <1>2. CASE size > Longest
    BY <1>2 DEF AllocFrom, Breaks
  <1>3. QED
    BY <1>1, <1>2 DEF AllocFrom

LEMMA KallocStep ==
    ASSUME HeapInv, NEW size \in Sizes, Kalloc(size), ~Breaks
    PROVE  HeapInv' /\ Seen
  <1>0. size \in Nat \ {0}
    BY FreeListAssumption
  <1>1. PICK list : list = freeList
    OBVIOUS
  <1>2. PICK P : P = pool
    OBVIOUS
  <1>3. Layout(list, blocks, P) /\ Fits(list, size) # {} /\ AllocFrom(list, size)
    BY <1>1, <1>2 DEF HeapInv, Kalloc
  <1>4. Layout(freeList', blocks', P) /\ Grants(size)
    BY <1>0, <1>3, TooLong, AllocFromKeeps
  <1>5. pool' = pool /\ capacity' = capacity
    BY DEF Kalloc
  <1>6. IsFiniteSet(DOMAIN blocks')
    BY <1>4, GrantedDomain DEF HeapInv
  <1>7. HeapInv'
    BY <1>2, <1>4, <1>5, <1>6 DEF HeapInv
  <1>8. Seen
    BY <1>4, <1>5 DEF Seen, HeapInv
  <1>9. QED
    BY <1>7, <1>8

LEMMA GrowStep ==
    ASSUME HeapInv, NEW size \in Sizes, KallocGrow(size), ~Breaks
    PROVE  HeapInv' /\ Seen
  <1>0. size \in Nat \ {0} /\ Top \in Nat /\ Header \in Nat /\ Header <= PageSize /\ PageSize \in Nat
    BY FreeListAssumption
  <1>1. PICK more : more = RoundUp(size)
    OBVIOUS
  <1>2. more \in Nat /\ more >= Header
    BY <1>0, <1>1, RoundsUp DEF KallocGrow
  <1>3. PICK at \in NewPools(more) :
            LET list == Insert(freeList, [at |-> at, size |-> more])
            IN  /\ pool' = pool \union Extent(at, more)
                /\ capacity' = capacity + more
                /\ IF Fits(list, size) # {}
                   THEN AllocFrom(list, size)
                   ELSE freeList' = list /\ UNCHANGED <<blocks, heapFault>>
    BY <1>1 DEF KallocGrow
  <1>4. at \in Nat /\ at + more <= Top /\ Extent(at, more) \intersect pool = {}
    BY <1>0 DEF NewPools, Words
  <1>5. PICK list : list = Insert(freeList, [at |-> at, size |-> more])
    OBVIOUS
  <1>6. PICK P : P = pool \union Extent(at, more)
    OBVIOUS
  <1>7. Layout(list, blocks, P)
    <2>1. PICK old, blk, Q : old = freeList /\ blk = blocks /\ Q = pool
      OBVIOUS
    <2>2. Layout(old, blk, Q) /\ Extent(at, more) \intersect Q = {}
      BY <2>1, <1>4 DEF HeapInv
    <2>3. Layout(Insert(old, [at |-> at, size |-> more]), blk, Q \union Extent(at, more))
      BY <2>2, <1>2, <1>4, GrowKeeps
    <2>4. QED
      BY <2>1, <2>3, <1>5, <1>6
  <1>8. /\ Layout(freeList', blocks', P) /\ IsFiniteSet(DOMAIN blocks')
        /\ Grants(size) \/ blocks' = blocks
    <2>1. CASE Fits(list, size) # {}
      <3>1. AllocFrom(list, size)
        BY <2>1, <1>3, <1>5
      <3>2. Layout(freeList', blocks', P) /\ Grants(size)
        BY <2>1, <3>1, <1>0, <1>7, TooLong, AllocFromKeeps
      <3>3. IsFiniteSet(DOMAIN blocks')
        BY <3>2, GrantedDomain DEF HeapInv
      <3>4. QED
        BY <3>2, <3>3
    <2>2. CASE Fits(list, size) = {}
      <3>1. freeList' = list /\ blocks' = blocks
        BY <2>2, <1>3, <1>5
      <3>2. QED
        BY <3>1, <1>7 DEF HeapInv
    <2>3. QED
      BY <2>1, <2>2
  <1>9. pool' = P /\ capacity' = capacity + more
    BY <1>3, <1>6
  <1>10. P \subseteq Words
    <2>1. Extent(at, more) \subseteq Words
      BY <1>0, <1>2, <1>4 DEF Extent, Words
    <2>2. QED
      BY <2>1, <1>6 DEF HeapInv
  <1>11. IsFiniteSet(P) /\ Cardinality(P) = capacity + more
    <2>1. PICK Q : Q = pool
      OBVIOUS
    <2>2. PICK X : X = Extent(at, more)
      OBVIOUS
    <2>3. IsFiniteSet(Q) /\ IsFiniteSet(X) /\ Cardinality(X) = more
      BY <2>1, <2>2, <1>2, <1>4, ExtentSize DEF HeapInv
    <2>4. IsFiniteSet(Q \union X) /\ Cardinality(Q \union X) = Cardinality(Q) + Cardinality(X) - Cardinality(Q \intersect X)
      BY <2>3, FS_Union
    <2>5. Q \intersect X = {}
      BY <2>1, <2>2, <1>4
    <2>6. Cardinality(Q \intersect X) = 0 /\ Cardinality(Q) \in Nat
      BY <2>3, <2>5, FS_EmptySet, FS_CardinalityType
    <2>7. PICK c \in Nat : c = Cardinality(Q) /\ c = capacity
      BY <2>1, <2>6 DEF HeapInv
    <2>8. Cardinality(Q \union X) = c + more
      BY ONLY <2>3, <2>4, <2>6, <2>7, <1>2
    <2>9. P = Q \union X
      BY <2>1, <2>2, <1>6
    <2>10. QED
      BY <2>4, <2>7, <2>8, <2>9
  <1>12. HeapInv'
    BY <1>8, <1>9, <1>10, <1>11 DEF HeapInv
  <1>13. Seen
    BY <1>6, <1>8, <1>9, <1>10 DEF Seen
  <1>14. QED
    BY <1>12, <1>13

LEMMA KfreeStep ==
    ASSUME HeapInv, NEW at \in DOMAIN blocks, Kfree(at)
    PROVE  HeapInv' /\ Seen
  <1>1. PICK list, blk, P, new : list = freeList /\ blk = blocks /\ P = pool /\ new = blocks'
    OBVIOUS
  <1>2. Layout(list, blk, P) /\ at \in DOMAIN blk /\ new = [a \in DOMAIN blk \ {at} |-> blk[a]]
    BY <1>1 DEF HeapInv, Kfree
  <1>3. Layout(Insert(list, [at |-> at, size |-> blk[at]]), new, P)
    BY <1>2, FreeKeeps
  <1>4. freeList' = Insert(list, [at |-> at, size |-> blk[at]]) /\ pool' = pool /\ capacity' = capacity
    BY <1>1 DEF Kfree
  <1>5. IsFiniteSet(DOMAIN blocks')
    <2>1. DOMAIN blocks' = DOMAIN blocks \ {at}
      BY <1>1, <1>2
    <2>2. QED
      BY <2>1, FS_RemoveElement DEF HeapInv
  <1>6. HeapInv'
    BY <1>1, <1>3, <1>4, <1>5 DEF HeapInv
  <1>7. Seen
    BY <1>1, <1>2, <1>4 DEF Seen, HeapInv
  <1>8. QED
    BY <1>6, <1>7

\* The inductive invariant: the layout holds until a length wraps.
HeapSound == heapFault # "wrap" => HeapInv

(* A step leaves everything as it is, ends the promise, or keeps it.       *)
LEMMA HeapStep ==
    ASSUME HeapSound, [KheapNext]_kheapVars
    PROVE  \/ UNCHANGED kheapVars
           \/ Breaks
           \/ HeapInv /\ HeapInv' /\ Seen /\ heapFault # "wrap" /\ heapFault' # "wrap"
  <1> SUFFICES ASSUME ~UNCHANGED kheapVars, ~Breaks
               PROVE  HeapInv /\ HeapInv' /\ Seen /\ heapFault # "wrap" /\ heapFault' # "wrap"
    OBVIOUS
  <1>0. KheapNext /\ heapFault = "none" /\ HeapInv
    BY DEF KheapNext, Kalloc, KallocGrow, KallocFails, KallocNoPages, Kfree, EmptyList, HeapSound
  <1>1. ASSUME UNCHANGED <<freeList, blocks, pool, capacity>>
        PROVE  HeapInv' /\ Seen
    <2>1. HeapInv'
      BY <1>0, <1>1 DEF HeapInv
    <2>2. Seen
      BY <1>0, <1>1 DEF HeapInv, Seen
    <2>3. QED
      BY <2>1, <2>2
  <1>2. ASSUME NEW size \in Sizes, Kalloc(size) PROVE HeapInv' /\ Seen /\ heapFault' # "wrap"
    BY <1>0, <1>2, KallocStep, TooLong DEF Kalloc
  <1>3. ASSUME NEW size \in Sizes, KallocGrow(size) PROVE HeapInv' /\ Seen /\ heapFault' # "wrap"
    <2>1. heapFault' = heapFault
      BY <1>3, TooLong DEF KallocGrow
    <2>2. QED
      BY <2>1, <1>0, <1>3, GrowStep
  <1>4. ASSUME NEW size \in Sizes, KallocFails(size) PROVE HeapInv' /\ Seen /\ heapFault' # "wrap"
    BY <1>0, <1>1, <1>4 DEF KallocFails, kheapVars
  <1>5. ASSUME NEW size \in Sizes, KallocNoPages(size) PROVE HeapInv' /\ Seen /\ heapFault' # "wrap"
    <2>1. heapFault' # "wrap"
      BY <1>5 DEF KallocNoPages
    <2>2. QED
      BY <2>1, <1>1, <1>5 DEF KallocNoPages
  <1>6. ASSUME NEW at \in DOMAIN blocks, Kfree(at) PROVE HeapInv' /\ Seen /\ heapFault' # "wrap"
    BY <1>0, <1>6, KfreeStep DEF Kfree
  <1>7. CASE EmptyList
    BY <1>0, <1>1, <1>7 DEF EmptyList
  <1>8. QED
    BY <1>0, <1>2, <1>3, <1>4, <1>5, <1>6, <1>7 DEF KheapNext

LEMMA HeapIsSound == KheapSpec => []HeapSound
  <1>1. HeapSound /\ [KheapNext]_kheapVars => HeapSound'
    <2> SUFFICES ASSUME HeapSound, [KheapNext]_kheapVars PROVE HeapSound'
      OBVIOUS
    <2>1. CASE UNCHANGED kheapVars
      BY <2>1 DEF HeapSound, HeapInv, kheapVars
    <2>2. CASE Breaks
      BY <2>2 DEF HeapSound, Breaks
    <2>3. QED
      BY <2>1, <2>2, HeapStep DEF HeapSound
  <1>2. KheapInit => HeapSound
    BY HeapInitInv DEF HeapSound
  <1>3. QED
    BY <1>1, <1>2, PTL DEF KheapSpec

-----------------------------------------------------------------------------
LEMMA InvLayout ==
    ASSUME HeapInv
    PROVE  HeapLayout
  <1>1. Layout(freeList, blocks, pool) /\ IsFiniteSet(DOMAIN blocks) /\ Merged(freeList)
    BY DEF HeapInv, Layout
  <1>2. PoolIsTiled
    <2>1. /\ UNION (Extents \union Used) = pool
          /\ Len(freeList) + Cardinality(DOMAIN blocks) = Cardinality(Extents \union Used)
          /\ \A x, y \in Extents \union Used : x # y => x \intersect y = {}
      <3>1. PICK list, blk, P, E, U :
                /\ list = freeList /\ blk = blocks /\ P = pool /\ E = Extents /\ U = Used
        OBVIOUS
      <3>2. /\ Layout(list, blk, P) /\ IsFiniteSet(DOMAIN blk)
            /\ E = {Extent(list[i].at, list[i].size) : i \in 1 .. Len(list)}
            /\ U = {Extent(a, blk[a]) : a \in DOMAIN blk}
        BY <3>1, <1>1 DEF Extents, Used
      <3>3. Cut(list, blk, P, E, U)
        BY ONLY <3>2, Pieces
      <3>4. QED
        BY <3>1, <3>3 DEF Cut
    <2>2. QED
      BY <2>1 DEF PoolIsTiled, HeapInv
  <1>3. Ordered(freeList) /\ freeList \in Seq(Block) /\ Len(freeList) \in Nat
    <2>1. Ordered(freeList) /\ freeList \in Seq(Block)
      BY <1>1 DEF Merged, Ordered
    <2>2. QED
      BY <2>1, Lengths
  <1>4. FreeBlocksAreMaximal
    <2> SUFFICES ASSUME NEW i \in 1 .. Len(freeList) - 1
                 PROVE  freeList[i].at + freeList[i].size < freeList[i + 1].at
      BY DEF FreeBlocksAreMaximal
    <2>1. i \in 1 .. Len(freeList) /\ i + 1 \in 1 .. Len(freeList) /\ i < i + 1
      BY <1>3
    <2>2. End(freeList[i]) < freeList[i + 1].at
      BY <2>1, <1>1, GapsInMerged
    <2>3. QED
      BY <2>2 DEF End
  <1>5. RoomForHeader
    BY <1>3 DEF RoomForHeader, Ordered
  <1>6. QED
    BY <1>2, <1>4, <1>5 DEF HeapLayout

(* After any sequence of kalloc, kfree and grow_heap the free blocks and   *)
(* those of the callers cut the pool into pieces, the free list is sorted  *)
(* and merged, and every block of it has room for its header, unless a     *)
(* request longer than Longest was granted.                                *)
THEOREM HeapStaysTiled == KheapSpec => []HeapLayout
  <1>1. HeapSound => HeapLayout
    BY InvLayout DEF HeapSound, HeapLayout
  <1>2. QED
    BY <1>1, HeapIsSound, PTL

(* The first-fit free list implements the promise of kalloc and kfree,     *)
(* which ends with a request longer than Longest and with nothing else.    *)
THEOREM HeapKeepsPromise == KheapSpec => KeepsPromise
  <1>1. KheapInit => Promise!HeapInit
    <2> SUFFICES ASSUME KheapInit PROVE Promise!HeapInit
      OBVIOUS
    <2>1. pool \subseteq Words
      BY HeapInitInv DEF HeapInv
    <2>2. DOMAIN blocks = {} /\ heapFault = "none"
      BY DEF KheapInit
    <2>3. QED
      BY <2>1, <2>2 DEF Promise!HeapInit
  <1>2. HeapSound /\ [KheapNext]_kheapVars => [Promise!HeapNext]_Promise!heapVars
    <2> SUFFICES ASSUME HeapSound, [KheapNext]_kheapVars
                 PROVE  [Promise!HeapNext]_Promise!heapVars
      OBVIOUS
    <2>a. CASE UNCHANGED kheapVars
      BY <2>a DEF kheapVars, Usable, Promise!heapVars
    <2>b. CASE Breaks
      <3>1. \E n \in Sizes : Promise!Break(n)
        BY <2>b DEF Breaks, Promise!Break
      <3>2. QED
        BY <3>1 DEF Promise!HeapNext
    <2>c. CASE HeapInv /\ HeapInv' /\ Seen /\ heapFault # "wrap" /\ heapFault' # "wrap"
      <3>1. HeapInv /\ HeapInv' /\ Seen
        BY <2>c
      <3>2. /\ Held(blocks) = {Usable(a) : a \in DOMAIN blocks}
            /\ Held(blocks') = {Usable(a) : a \in DOMAIN blocks}'
        BY DEF Held, Usable
      <3>3. Promise!MayGrow
        BY <3>1 DEF Seen, Promise!MayGrow
      <3>4. ASSUME NEW size \in Sizes, Grants(size) PROVE Promise!Allocate(size)
        <4>1. PICK list, blk, new, P : list = freeList' /\ blk = blocks /\ new = blocks' /\ P = pool'
          OBVIOUS
        <4>2. PICK x \in DOMAIN new :
                  /\ x \notin DOMAIN blk
                  /\ DOMAIN new = DOMAIN blk \union {x}
                  /\ new[x] >= size + Header
                  /\ \A a \in DOMAIN blk : new[a] = blk[a]
          BY <3>4, <4>1 DEF Grants
        <4>3. Layout(list, new, P) /\ size \in Nat
          BY <3>1, <4>1, FreeListAssumption DEF HeapInv
        <4>4. PICK block \in Held(new) :
                  /\ block \subseteq P
                  /\ Cardinality(block) >= size
                  /\ \A b \in Held(blk) : b \intersect block = {}
                  /\ Held(new) = Held(blk) \union {block}
          BY <4>2, <4>3, Granted
        <4>5. \A S : Promise!Cardinality(S) = Cardinality(S)
          BY DEF Promise!Cardinality, Cardinality
        <4>6. QED
          BY <3>2, <3>3, <4>1, <4>4, <4>5 DEF Promise!Allocate
      <3>5. CASE blocks' = blocks
        <4>1. Promise!Refuse
          BY <3>2, <3>3, <3>5 DEF Promise!Refuse
        <4>2. QED
          BY <4>1, <2>c DEF Promise!HeapNext
      <3>6. ASSUME NEW at \in DOMAIN blocks, blocks' = [a \in DOMAIN blocks \ {at} |-> blocks[a]], pool' = pool
            PROVE  \E block \in {Usable(a) : a \in DOMAIN blocks} : Promise!GiveBack(block)
        <4>1. PICK list, blk, new, P : list = freeList /\ blk = blocks /\ new = blocks' /\ P = pool
          OBVIOUS
        <4>2. Layout(list, blk, P) /\ at \in DOMAIN blk /\ new = [a \in DOMAIN blk \ {at} |-> blk[a]]
          BY <3>1, <3>6, <4>1 DEF HeapInv
        <4>3. PICK block \in Held(blk) : Held(new) = Held(blk) \ {block}
          BY <4>2, Returned
        <4>4. block \in {Usable(a) : a \in DOMAIN blocks} /\ Promise!GiveBack(block)
          BY <3>2, <3>6, <4>1, <4>3 DEF Promise!GiveBack
        <4>5. QED
          BY <4>4
      <3>7. QED
        BY <3>1, <3>4, <3>5, <3>6, <2>c DEF Seen, Promise!HeapNext
    <2>d. QED
      BY <2>a, <2>b, <2>c, HeapStep
  <1>3. QED
    BY <1>1, <1>2, HeapIsSound, PTL DEF KheapSpec, KeepsPromise, Promise!HeapSpec

(* No two callers of kalloc ever share a word, and no caller has a word    *)
(* outside of the heap, until a request longer than Longest is granted.    *)
THEOREM CallersNeverShare == KheapSpec => []Promise!BlocksAreSeparate
  <1>1. HeapSound => Promise!BlocksAreSeparate
    <2> SUFFICES ASSUME HeapInv PROVE Promise!BlocksAreSeparate
      BY DEF HeapSound, Promise!BlocksAreSeparate
    <2>1. Layout(freeList, blocks, pool)
      BY DEF HeapInv
    <2>2. \A a \in DOMAIN blocks : Usable(a) \subseteq pool
      BY <2>1, HeldInPool DEF Usable
    <2>3. \A a, b \in DOMAIN blocks : a # b => Usable(a) \intersect Usable(b) = {}
      BY <2>1, HeldApart DEF Usable
    <2>4. QED
      BY <2>2, <2>3 DEF Promise!BlocksAreSeparate
  <1>2. QED
    BY <1>1, HeapIsSound, PTL

=============================================================================
