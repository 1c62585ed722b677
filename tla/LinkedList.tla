----------------------------- MODULE LinkedList -----------------------------
(***************************************************************************)
(* The list that owns its nodes (lib/ds/linkedlist.c): the surgery of the  *)
(* intrusive list on nodes from the kernel heap.  Nodes are the blocks     *)
(* kalloc may return; that kalloc fails is not handled by the code.  The   *)
(* links of a node that is freed are cleared here and stale in the code:   *)
(* nothing reads them.                                                     *)
(***************************************************************************)
EXTENDS IntrusiveList

CONSTANT Data
VARIABLES data,   \* per node: the pointer it holds
          live,   \* nodes allocated and not freed
          held    \* history: the data of the list, from first to last
ownedVars == <<data, live, held>>

OwnedInit ==
    /\ data = [n \in Nodes |-> Null] /\ live = {} /\ held = [i \in 1 .. 0 |-> Null]

(* kalloc and the assignment of the data; the place in the list is p.      *)
Filled(n, d, p) ==
    /\ n \notin live
    /\ live' = live \cup {n}
    /\ data' = [data EXCEPT ![n] = d]
    /\ held' = [i \in 1 .. len + 1 |-> IF i < p THEN held[i]
                                       ELSE IF i = p THEN d ELSE held[i - 1]]
Freed(n, p) ==
    /\ live' = live \ {n}
    /\ held' = [i \in 1 .. len - 1 |-> IF i < p THEN held[i] ELSE held[i + 1]]
    /\ UNCHANGED data

linkedlist_insert_head(n, d) == intrusivelist_insert_head(n) /\ Filled(n, d, 1)
linkedlist_insert_tail(n, d) == intrusivelist_insert_tail(n) /\ Filled(n, d, len + 1)

(* The node of an insertion at an index is allocated when the loop is at   *)
(* its place.                                                              *)
linkedlist_insert_at(n, d, index) ==
    \/ /\ intrusivelist_insert_at(n, index)
       /\ IF walk' = Idle THEN Filled(n, d, index + 1) ELSE UNCHANGED ownedVars
    \/ /\ AtStep /\ walk.node = n
       /\ IF walk' = Idle THEN Filled(n, d, walk.index + 1) ELSE UNCHANGED ownedVars

linkedlist_remove_head == intrusivelist_remove_head /\ Freed(head, 1)
linkedlist_remove_tail == intrusivelist_remove_tail /\ Freed(tail, len)

(* The first node that holds d, or none.                                   *)
(* Mutant: the node is not freed.                                          *)
MutOwnedRemove(d) ==
    \E p \in 1 .. len:
        /\ data[order[p]] = d /\ \A q \in 1 .. p - 1: data[order[q]] # d
        /\ intrusivelist_remove(order[p])
        /\ held' = [i \in 1 .. len - 1 |-> IF i < p THEN held[i] ELSE held[i + 1]]
        /\ UNCHANGED <<live, data>>
linkedlist_remove(d) ==
    \E p \in 1 .. len:
        /\ data[order[p]] = d /\ \A q \in 1 .. p - 1: data[order[q]] # d
        /\ intrusivelist_remove(order[p])
        /\ Freed(order[p], p)

OwnedNext ==
    \/ \E n \in Nodes, d \in Data:
          \/ linkedlist_insert_head(n, d) \/ linkedlist_insert_tail(n, d)
          \/ \E index \in 0 .. len: linkedlist_insert_at(n, d, index)
    \/ linkedlist_remove_head \/ linkedlist_remove_tail
    \/ \E d \in Data: linkedlist_remove(d)

OwnedSpec == ListInit /\ OwnedInit /\ [][OwnedNext]_<<listVars, ownedVars>>

linkedlist_peek_head == IF head = Null THEN Null ELSE data[head]
linkedlist_peek_tail == IF tail = Null THEN Null ELSE data[tail]

-----------------------------------------------------------------------------
(* Every live node is in the list and every node of the list is live, so   *)
(* nothing leaks and nothing freed is reached, and the list holds the data *)
(* that was put in, in its place; the peeks return the data of the ends.   *)
OwnsItsNodes ==
    /\ live = {order[i]: i \in 1 .. len}
    /\ \A i \in 1 .. len: data[order[i]] = held[i]
    /\ len > 0 => linkedlist_peek_head = held[1] /\ linkedlist_peek_tail = held[len]
=============================================================================
