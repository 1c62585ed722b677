----------------------------- MODULE MCTaskLife -----------------------------
(* Two CPUs with a task each, or one CPU with two tasks.                    *)
EXTENDS TaskLife

TwoHome    == [t \in {"a", "d", "idle0", "idle1", "clean0", "clean1"} |->
                  IF t \in {"d", "idle1", "clean1"} THEN 1 ELSE 0]
TwoIdle    == [c \in {0, 1} |-> IF c = 0 THEN "idle0" ELSE "idle1"]
TwoCleanup == [c \in {0, 1} |-> IF c = 0 THEN "clean0" ELSE "clean1"]

OneHome    == [t \in {"a", "b", "idle0", "clean0"} |-> 0]
OneIdle    == [c \in {0} |-> "idle0"]
OneCleanup == [c \in {0} |-> "clean0"]
=============================================================================
