-------------------------------- MODULE Heap --------------------------------
(***************************************************************************)
(* What kalloc and kfree (kernel/mm/kheap.h) promise to their callers: a   *)
(* block is memory of the heap that nobody else has, at least as long as   *)
(* was asked for, until it is given back; and the heap only ever grows.    *)
(* Which block a caller gets, and where the book-keeping lives, is left    *)
(* open.  Nothing is promised from the first request on that is longer     *)
(* than Longest.  FreeList implements this specification.                  *)
(***************************************************************************)
EXTENDS Integers, FiniteSets

CONSTANTS
    Words,      \* the addresses of the kernel's memory region
    Sizes,      \* the lengths that callers ask for
    Longest     \* what may be asked for without harm

VARIABLES
    pool,       \* the words that belong to the heap
    owned,      \* the blocks that callers have: their sets of words
    broken      \* whether the promise has ended

heapVars == <<pool, owned, broken>>

HeapInit == pool \subseteq Words /\ owned = {} /\ broken = FALSE

\* The heap keeps its words, and may get more.
MayGrow == pool \subseteq pool' /\ pool' \subseteq Words

(* kalloc: a block that no caller has.  The heap may have grown for it.    *)
Allocate(n) ==
    /\ MayGrow
    /\ \E block \in owned' :
        /\ block \subseteq pool'
        /\ Cardinality(block) >= n
        /\ \A b \in owned : b \intersect block = {}
        /\ owned' = owned \union {block}

(* kalloc without success: the heap may have grown all the same.           *)
Refuse == MayGrow /\ UNCHANGED owned

\* kfree
GiveBack(block) ==
    /\ block \in owned
    /\ owned' = owned \ {block}
    /\ UNCHANGED pool

\* kalloc of more than Longest may leave anything behind.
Break(n) == n > Longest /\ broken' = TRUE

HeapNext ==
    \/ /\ ~broken /\ ~broken'
       /\ \/ \E n \in Sizes : Allocate(n)
          \/ Refuse
          \/ \E block \in owned : GiveBack(block)
    \/ \E n \in Sizes : Break(n)

HeapSpec == HeapInit /\ [][HeapNext]_heapVars

(* Two callers never have the same word, and no caller has a word outside  *)
(* of the heap, as long as the promise lasts.                              *)
BlocksAreSeparate ==
    ~broken =>
        /\ \A b \in owned : b \subseteq pool
        /\ \A b, c \in owned : b # c => b \intersect c = {}
=============================================================================
