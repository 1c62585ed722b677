--------------------------- MODULE MCProcessLife ----------------------------
(* One CPU with three threads, or two CPUs with two and one.                *)
EXTENDS ProcessLife

OneHome    == [t \in {"r", "p", "q", "idle0", "clean0"} |-> 0]
OneIdle    == [c \in {0} |-> "idle0"]
OneCleanup == [c \in {0} |-> "clean0"]

TwoHome    == [t \in {"r", "p", "q", "idle0", "idle1", "clean0", "clean1"} |->
                  IF t \in {"q", "idle1", "clean1"} THEN 1 ELSE 0]
TwoIdle    == [c \in {0, 1} |-> IF c = 0 THEN "idle0" ELSE "idle1"]
TwoCleanup == [c \in {0, 1} |-> IF c = 0 THEN "clean0" ELSE "clean1"]
=============================================================================
