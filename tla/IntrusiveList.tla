--------------------------- MODULE IntrusiveList ---------------------------
(***************************************************************************)
(* The doubly linked list under every queue of the kernel                  *)
(* (lib/ds/intrusivelist.c): run queues, wait queues, sleep queues, the    *)
(* task list and the families of processes.  The state is the one of the C *)
(* code: the links inside the nodes and the two ends and the count of the  *)
(* list.  The loops of the two searching insertions take one step per      *)
(* node.  The owner's lock keeps other calls out until a call returns.     *)
(*                                                                         *)
(* len and order record what the list should be: its nodes from first to   *)
(* last.  They are compared with the links and never read by an operation. *)
(***************************************************************************)
EXTENDS Integers

CONSTANTS Nodes, Null,
          Key      \* what the comparator of a sorted insertion compares

ASSUME ListAssumption == Null \notin Nodes /\ Key \in [Nodes -> Int]

VARIABLES head, tail, count, next, prev,
          walk,    \* the loop of an insertion
          len, order,
          sorted   \* history: only sorted insertions so far
links == <<head, tail, count, next, prev>>
listVars == <<head, tail, count, next, prev, walk, len, order, sorted>>

Idle == [kind |-> "idle"]
Loop(kind, n, e, k, index) ==
    [kind |-> kind, node |-> n, cur |-> e, counting |-> k, index |-> index]

Inserted(p, n) == [i \in 1 .. len + 1 |-> IF i < p THEN order[i]
                                          ELSE IF i = p THEN n ELSE order[i - 1]]
Removed(p) == [i \in 1 .. len - 1 |-> IF i < p THEN order[i] ELSE order[i + 1]]
Member(n) == \E i \in 1 .. len: order[i] = n

ListInit ==
    /\ head = Null /\ tail = Null /\ count = 0
    /\ next = [n \in Nodes |-> Null] /\ prev = [n \in Nodes |-> Null]
    /\ walk = Idle /\ len = 0 /\ order = [i \in 1 .. 0 |-> Null] /\ sorted = TRUE

-----------------------------------------------------------------------------
(* The pointer surgery.                                                    *)
AddHead(n) ==
    /\ next' = [next EXCEPT ![n] = head]
    /\ prev' = IF head # Null THEN [prev EXCEPT ![n] = Null, ![head] = n]
               ELSE [prev EXCEPT ![n] = Null]
    /\ tail' = IF head # Null THEN tail ELSE n
    /\ head' = n /\ count' = count + 1
    /\ len' = len + 1 /\ order' = Inserted(1, n)

(* Mutant: the tail of an empty list is set, its head is not.              *)
MutAddTail(n) ==
    /\ next' = IF tail # Null THEN [next EXCEPT ![n] = Null, ![tail] = n]
               ELSE [next EXCEPT ![n] = Null]
    /\ prev' = [prev EXCEPT ![n] = tail]
    /\ tail' = n /\ count' = count + 1 /\ UNCHANGED head
    /\ len' = len + 1 /\ order' = Inserted(len + 1, n)
AddTail(n) ==
    /\ next' = IF tail # Null THEN [next EXCEPT ![n] = Null, ![tail] = n]
               ELSE [next EXCEPT ![n] = Null]
    /\ prev' = [prev EXCEPT ![n] = tail]
    /\ head' = IF tail # Null THEN head ELSE n
    /\ tail' = n /\ count' = count + 1
    /\ len' = len + 1 /\ order' = Inserted(len + 1, n)

AddBefore(n, e) ==
    /\ next' = IF prev[e] # Null THEN [next EXCEPT ![n] = e, ![prev[e]] = n]
               ELSE [next EXCEPT ![n] = e]
    /\ prev' = [prev EXCEPT ![n] = prev[e], ![e] = n]
    /\ head' = IF prev[e] # Null THEN head ELSE n
    /\ UNCHANGED tail
    /\ count' = count + 1
    /\ len' = len + 1
    /\ \E p \in 1 .. len: order[p] = e /\ order' = Inserted(p, n)

Unlink(n) ==
    /\ next' = IF prev[n] # Null THEN [next EXCEPT ![prev[n]] = next[n], ![n] = Null]
               ELSE [next EXCEPT ![n] = Null]
    /\ prev' = IF next[n] # Null THEN [prev EXCEPT ![next[n]] = prev[n], ![n] = Null]
               ELSE [prev EXCEPT ![n] = Null]
    /\ head' = IF prev[n] # Null THEN head ELSE next[n]
    /\ tail' = IF next[n] # Null THEN tail ELSE prev[n]
    /\ count' = count - 1
    /\ len' = len - 1
    /\ \E p \in 1 .. len: order[p] = n /\ order' = Removed(p)

-----------------------------------------------------------------------------
(* The calls.  A caller inserts a node that is in no list and removes one  *)
(* that is in this list: with any other node the code loses the list.      *)
intrusivelist_insert_head(n) ==
    /\ walk = Idle /\ ~Member(n)
    /\ AddHead(n)
    /\ sorted' = FALSE /\ UNCHANGED walk

intrusivelist_insert_tail(n) ==
    /\ walk = Idle /\ ~Member(n)
    /\ AddTail(n)
    /\ sorted' = FALSE /\ UNCHANGED walk

(* Sorted insertion: an empty list takes the node at its head, else the    *)
(* loop starts.                                                            *)
intrusivelist_insert_sorted(n) ==
    /\ walk = Idle /\ ~Member(n)
    /\ IF count = 0 THEN AddHead(n) /\ UNCHANGED <<walk, sorted>>
       ELSE /\ walk' = Loop("sorted", n, head, 0, 0)
            /\ UNCHANGED <<links, len, order, sorted>>

SortedStep ==
    /\ walk.kind = "sorted"
    /\ IF walk.cur = Null THEN AddTail(walk.node) /\ walk' = Idle
       ELSE IF Key[walk.cur] > Key[walk.node]
       THEN AddBefore(walk.node, walk.cur) /\ walk' = Idle
       ELSE /\ walk' = Loop("sorted", walk.node, next[walk.cur], walk.counting + 1, 0)
            /\ UNCHANGED <<links, len, order>>
    /\ UNCHANGED sorted

(* Insertion at an index; one past the end is refused.                     *)
intrusivelist_insert_at(n, index) ==
    /\ walk = Idle /\ ~Member(n)
    /\ index <= count
    /\ IF index = 0 THEN AddHead(n) /\ walk' = Idle
       ELSE IF index = count THEN AddTail(n) /\ walk' = Idle
       ELSE /\ walk' = Loop("at", n, head, 0, index)
            /\ UNCHANGED <<links, len, order>>
    /\ sorted' = FALSE

AtStep ==
    /\ walk.kind = "at"
    /\ IF walk.counting = walk.index
       THEN AddBefore(walk.node, walk.cur) /\ walk' = Idle
       ELSE /\ walk' = Loop("at", walk.node, next[walk.cur], walk.counting + 1, walk.index)
            /\ UNCHANGED <<links, len, order>>
    /\ UNCHANGED sorted

intrusivelist_remove(n) ==
    /\ walk = Idle /\ Member(n)
    /\ Unlink(n)
    /\ UNCHANGED <<walk, sorted>>

intrusivelist_remove_head ==
    /\ walk = Idle /\ head # Null
    /\ Unlink(head)
    /\ UNCHANGED <<walk, sorted>>

(* Without the test for an empty list that remove_head has.                *)
intrusivelist_remove_tail ==
    /\ walk = Idle /\ tail # Null
    /\ Unlink(tail)
    /\ UNCHANGED <<walk, sorted>>

ListNext ==
    \/ \E n \in Nodes:
          \/ intrusivelist_insert_head(n) \/ intrusivelist_insert_tail(n)
          \/ intrusivelist_insert_sorted(n) \/ intrusivelist_remove(n)
          \/ \E index \in 0 .. len: intrusivelist_insert_at(n, index)
    \/ SortedStep \/ AtStep
    \/ intrusivelist_remove_head \/ intrusivelist_remove_tail
ListSpec == ListInit /\ [][ListNext]_listVars

-----------------------------------------------------------------------------
(* The nodes are distinct, and the ends, the count and the links of every  *)
(* node, in both directions, are those of the list; a node that is in no   *)
(* list has null links (task_manager.c asserts it of a dead task).         *)
WellLinked ==
    /\ count = len
    /\ \A i, j \in 1 .. len: order[i] = order[j] => i = j
    /\ head = IF len = 0 THEN Null ELSE order[1]
    /\ tail = IF len = 0 THEN Null ELSE order[len]
    /\ \A i \in 1 .. len:
          /\ next[order[i]] = IF i = len THEN Null ELSE order[i + 1]
          /\ prev[order[i]] = IF i = 1 THEN Null ELSE order[i - 1]
    /\ \A n \in Nodes: ~Member(n) => next[n] = Null /\ prev[n] = Null

\* A list that only sorted insertions and removals have changed is sorted.
StaysSorted == sorted => \A i, j \in 1 .. len: i < j => Key[order[i]] <= Key[order[j]]

\* The search of insert_at never follows a null link, and where it links its
\* node there is a predecessor, which the code writes to without a test.
SearchInside ==
    walk.kind = "at" =>
        walk.cur # Null /\ (walk.counting = walk.index => prev[walk.cur] # Null)

(* After every call, and at every node that a search looks at, the list is *)
(* one list, sorted where only sorted insertions were used, and no search  *)
(* leaves it.                                                              *)
ListSound == WellLinked /\ StaysSorted /\ SearchInside
=============================================================================
