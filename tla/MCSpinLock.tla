----------------------------- MODULE MCSpinLock -----------------------------
(* Two CPUs, of which the first has two threads, and two nesting locks.     *)
EXTENDS SpinLock

MCHome  == [t \in {"t1", "t2", "t3"} |-> IF t = "t3" THEN "c2" ELSE "c1"]
MCFirst == [c \in {"c1", "c2"} |-> IF c = "c1" THEN "t1" ELSE "t3"]
=============================================================================
