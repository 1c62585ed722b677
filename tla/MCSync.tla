------------------------------- MODULE MCSync -------------------------------
(* Two CPUs, with three tasks and one.                                      *)
EXTENDS Sync

MCHome    == [t \in {"a", "b", "e", "d", "idle0", "idle1", "clean0", "clean1"} |->
                 IF t \in {"d", "idle1", "clean1"} THEN 1 ELSE 0]
MCIdle    == [c \in {0, 1} |-> IF c = 0 THEN "idle0" ELSE "idle1"]
MCCleanup == [c \in {0, 1} |-> IF c = 0 THEN "clean0" ELSE "clean1"]

\* Four users of the semaphore; three of the mutex; the device beside a mutex.
\* The others compute.
MCRoles   == {[t \in {"a", "b", "e", "d"} |-> "semaphore"],
              [t \in {"a", "b", "e", "d"} |-> IF t = "e" THEN "compute" ELSE "mutex"],
              [t \in {"a", "b", "e", "d"} |-> CASE t = "a" -> "device"
                                                [] t = "b" -> "compute"
                                                [] OTHER -> "mutex"]}
=============================================================================
