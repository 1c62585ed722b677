----------------------------- MODULE MCFDTable -----------------------------
EXTENDS FDTable, TLC

\* Two threads of a process, and the thread of its child.
ForkTableOf == ("a" :> "parent") @@ ("b" :> "parent") @@ ("c" :> "child")

\* One thread in each process.
PlainTableOf == ("a" :> "parent") @@ ("c" :> "child")

\* Two threads of one process.
ThreadTableOf == ("a" :> "parent") @@ ("b" :> "parent")

FileSymmetry == Permutations(Files)
=============================================================================
