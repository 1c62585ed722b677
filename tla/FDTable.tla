------------------------------ MODULE FDTable ------------------------------
(***************************************************************************)
(* File-descriptor tables (kernel/core/fd_table.c), open files             *)
(* (fs/file.c) and their reference counts (kernel/sync/refcount.c), as the *)
(* process manager and the system calls use them.                          *)
(*                                                                         *)
(* A table belongs to a process; the actors are the threads.  What runs    *)
(* under the lock of a table is one step; a reference is dropped outside   *)
(* the lock, and file_put is its loads, compare-and-exchanges and release, *)
(* one by one.  A file is used once: a freed one is never handed out again,*)
(* so that a stale pointer cannot hide behind a new file.                  *)
(***************************************************************************)
EXTENDS Naturals, FiniteSets, Functions

CONSTANTS
    Actors,     \* threads
    Tables,     \* one table for each process
    TableOf,    \* the table of each thread
    Root,       \* the table of the first process
    Files,      \* the files that can be opened
    MaxFd,      \* MAX_FILES_PER_FD, 64 in the code
    StdFds,     \* STDIN, STDOUT and STDERR in the code
    Failures,   \* the allocations that may fail: "file", "space", "task"
    Null,       \* nullptr
    Err         \* the error value that kalloc returns

ASSUME FDTableAssumption ==
    /\ MaxFd \in Nat \ {0}
    /\ StdFds \subseteq 0 .. MaxFd - 1
    /\ TableOf \in [Actors -> Tables]
    /\ Root \in Tables
    /\ IsFiniteSet(Actors) /\ IsFiniteSet(Tables)
    /\ Null \notin Files \union Tables
    /\ Err \notin Files

Fds == 0 .. MaxFd - 1

VARIABLES
    status,     \* none, live, leaked (allocated, and reachable from nowhere), destroyed
    state,      \* files_state
    files,
    coe,        \* close_on_exec
    life,       \* unused, live, freed
    count,      \* the reference counts
    pc,         \* where each thread is
    fd,         \* the slot that it has reserved
    mine,       \* the file that it is about to install
    todo,       \* the references that it has to drop, numbered
    old,        \* what it has read from the count
    victim      \* the table that it closes for good

tableVars == <<status, state, files, coe>>
fileVars == <<life, count>>
vars == <<tableVars, fileVars, pc, fd, mine, todo, old, victim>>

\* No reference, and one.
Nothing == [n \in {} |-> Null]
One(f) == [n \in {0} |-> f]

Init ==
    /\ status = [t \in Tables |-> "none"]
    /\ state = [t \in Tables |-> [n \in Fds |-> "FREE"]]
    /\ files = [t \in Tables |-> [n \in Fds |-> Null]]
    /\ coe = [t \in Tables |-> [n \in Fds |-> FALSE]]
    /\ life = [f \in Files |-> "unused"]
    /\ count = [f \in Files |-> 0]
    /\ pc = [a \in Actors |-> "user"]
    /\ fd = [a \in Actors |-> 0]
    /\ mine = [a \in Actors |-> Null]
    /\ todo = [a \in Actors |-> Nothing]
    /\ old = [a \in Actors |-> 0]
    /\ victim = [a \in Actors |-> Null]

-----------------------------------------------------------------------------
\* The slots of table t after one of them got a new content.
SetSlot(t, n, s, f, c) ==
    /\ state' = [state EXCEPT ![t][n] = s]
    /\ files' = [files EXCEPT ![t][n] = f]
    /\ coe' = [coe EXCEPT ![t][n] = c]

\* A thread in its process, outside the kernel.
InUser(a) == pc[a] = "user" /\ status[TableOf[a]] = "live"

Installed(t, n) == state[t][n] = "INSTALLED"

\* The first slot from m on that is free.
FreeFrom(t, m) == {n \in Fds : n >= m /\ state[t][n] = "FREE"}
Lowest(S) == CHOOSE n \in S : \A k \in S : n <= k

\* The thread drops these references next, one by one.
PutNext(a, fs) ==
    /\ todo' = [todo EXCEPT ![a] = fs]
    /\ pc' = [pc EXCEPT ![a] = IF DOMAIN fs = {} THEN "destroy" ELSE "load"]

\* file_get and file_put on the error value fault, and nothing runs after it.
Usable(t, n) == Installed(t, n) => files[t][n] \in Files

FileGet(f) == count' = [count EXCEPT ![f] = @ + 1]

-----------------------------------------------------------------------------
(* The first process: its table, with a new file for each standard fd.     *)
(* The result of file_create is installed untested.                        *)
CreateRoot ==
    /\ \A t \in Tables : status[t] = "none"
    /\ \E made \in [StdFds -> Files \union (IF "file" \in Failures THEN {Err} ELSE {})] :
        /\ \A m, n \in StdFds : made[m] = made[n] => m = n \/ made[m] = Err
        /\ state' = [state EXCEPT ![Root] =
                        [n \in Fds |-> IF n \in StdFds THEN "INSTALLED" ELSE "FREE"]]
        /\ files' = [files EXCEPT ![Root] =
                        [n \in Fds |-> IF n \in StdFds THEN made[n] ELSE Null]]
        /\ life' = [f \in Files |-> IF f \in Range(made) THEN "live" ELSE "unused"]
        /\ count' = [f \in Files |-> IF f \in Range(made) THEN 1 ELSE 0]
    /\ status' = [status EXCEPT ![Root] = "live"]
    /\ UNCHANGED <<coe, pc, fd, mine, todo, old, victim>>

\* Mutant: the search goes one slot too far.
MutReserve(a, m) ==
    LET t == TableOf[a]
        slot == IF FreeFrom(t, m) = {} THEN MaxFd ELSE Lowest(FreeFrom(t, m))
    IN  \E f \in Files :
        /\ InUser(a)
        /\ life[f] = "unused"
        /\ life' = [life EXCEPT ![f] = "live"]
        /\ count' = [count EXCEPT ![f] = 1]
        /\ state' = [state EXCEPT ![t] = [n \in Fds |-> IF n = slot THEN "RESERVED" ELSE @[n]]]
        /\ fd' = [fd EXCEPT ![a] = slot]
        /\ mine' = [mine EXCEPT ![a] = f]
        /\ pc' = [pc EXCEPT ![a] = "reserved"]
        /\ UNCHANGED <<status, files, coe, todo, old, victim>>

(* A new file and fdtable_add: file_create, then a slot.  Without a slot   *)
(* the caller drops the file again.                                        *)
Reserve(a, m) ==
    LET t == TableOf[a]
        free == FreeFrom(t, m)
    IN  \E f \in Files :
        /\ InUser(a)
        /\ life[f] = "unused"
        /\ life' = [life EXCEPT ![f] = "live"]
        /\ count' = [count EXCEPT ![f] = 1]
        /\ IF free = {}
           THEN /\ PutNext(a, One(f))
                /\ UNCHANGED <<state, files, fd, mine>>
           ELSE /\ state' = [state EXCEPT ![t][Lowest(free)] = "RESERVED"]
                /\ files' = [files EXCEPT ![t][Lowest(free)] = Null]
                /\ fd' = [fd EXCEPT ![a] = Lowest(free)]
                /\ mine' = [mine EXCEPT ![a] = f]
                /\ pc' = [pc EXCEPT ![a] = "reserved"]
                /\ UNCHANGED todo
        /\ UNCHANGED <<status, coe, old, victim>>

(* The second critical section of fdtable_add.  On EBADF the caller still  *)
(* owns the file, and drops it.                                            *)
InstallAt(a) ==
    LET t == TableOf[a]
    IN  /\ pc[a] = "reserved"
        /\ IF state[t][fd[a]] = "RESERVED"
           THEN /\ state' = [state EXCEPT ![t][fd[a]] = "INSTALLED"]
                /\ files' = [files EXCEPT ![t][fd[a]] = mine[a]]
                /\ pc' = [pc EXCEPT ![a] = "user"]
                /\ UNCHANGED todo
           ELSE /\ PutNext(a, One(mine[a]))
                /\ UNCHANGED <<state, files>>
        /\ mine' = [mine EXCEPT ![a] = Null]
        /\ fd' = [fd EXCEPT ![a] = 0]
        /\ UNCHANGED <<status, coe, fileVars, old, victim>>

(* The write system call: look the file up and take a reference.           *)
GetFile(a, n) ==
    LET t == TableOf[a]
    IN  /\ InUser(a)
        /\ Installed(t, n)
        /\ files[t][n] \in Files
        /\ FileGet(files[t][n])
        /\ todo' = [todo EXCEPT ![a] = One(files[t][n])]
        /\ pc' = [pc EXCEPT ![a] = "write"]
        /\ UNCHANGED <<tableVars, life, fd, mine, old, victim>>

(* file_write on the file, whatever happened to its descriptor meanwhile.  *)
WriteFile(a) ==
    /\ pc[a] = "write"
    /\ pc' = [pc EXCEPT ![a] = "load"]
    /\ UNCHANGED <<tableVars, fileVars, fd, mine, todo, old, victim>>

\* Mutant: the flag of a closed descriptor stays.
MutCloseFile(a, n) ==
    LET t == TableOf[a]
    IN  /\ InUser(a)
        /\ Installed(t, n)
        /\ files[t][n] \in Files
        /\ SetSlot(t, n, "FREE", Null, coe[t][n])
        /\ PutNext(a, One(files[t][n]))
        /\ UNCHANGED <<status, fileVars, fd, mine, old, victim>>

CloseFile(a, n) ==
    LET t == TableOf[a]
    IN  /\ InUser(a)
        /\ Installed(t, n)
        /\ files[t][n] \in Files
        /\ SetSlot(t, n, "FREE", Null, FALSE)
        /\ PutNext(a, One(files[t][n]))
        /\ UNCHANGED <<status, fileVars, fd, mine, old, victim>>

SetCloseOnExec(a, n, c) ==
    LET t == TableOf[a]
    IN  /\ InUser(a)
        /\ Installed(t, n)
        /\ coe' = [coe EXCEPT ![t][n] = c]
        /\ UNCHANGED <<status, state, files, fileVars, pc, fd, mine, todo, old, victim>>

Dup(a, n) ==
    LET t == TableOf[a]
        free == FreeFrom(t, 0)
    IN  /\ InUser(a)
        /\ Installed(t, n)
        /\ files[t][n] \in Files
        /\ free # {}
        /\ SetSlot(t, Lowest(free), "INSTALLED", files[t][n], FALSE)
        /\ FileGet(files[t][n])
        /\ UNCHANGED <<status, life, pc, fd, mine, todo, old, victim>>

(* What was installed at n loses its reference; what was reserved there is *)
(* overwritten.  With m = n only the flag is set: that is SetCloseOnExec.  *)
DupAt(a, m, n, c) ==
    LET t == TableOf[a]
    IN  /\ InUser(a)
        /\ Installed(t, m)
        /\ m # n
        /\ files[t][m] \in Files
        /\ Usable(t, n)
        /\ SetSlot(t, n, "INSTALLED", files[t][m], c)
        /\ FileGet(files[t][m])
        /\ IF Installed(t, n)
           THEN PutNext(a, One(files[t][n]))
           ELSE UNCHANGED <<pc, todo>>
        /\ UNCHANGED <<status, life, fd, mine, old, victim>>

-----------------------------------------------------------------------------
(* file_put on the first of the references to drop, and on to the next.    *)
First(a) == Lowest(DOMAIN todo[a])
Current(a) == todo[a][First(a)]

Dropped(a) ==
    LET rest == DOMAIN todo[a] \ {First(a)}
    IN  /\ todo' = [todo EXCEPT ![a] = [n \in rest |-> @[n]]]
        /\ pc' = [pc EXCEPT ![a] =
                IF rest # {} THEN "load"
                ELSE IF victim[a] # Null THEN "destroy" ELSE "user"]

\* With a count of 0, file_put returns -ENOENT.
PutLoad(a) ==
    /\ pc[a] = "load"
    /\ old' = [old EXCEPT ![a] = count[Current(a)]]
    /\ IF count[Current(a)] = 0
       THEN Dropped(a)
       ELSE pc' = [pc EXCEPT ![a] = "exchange"] /\ UNCHANGED todo
    /\ UNCHANGED <<tableVars, fileVars, fd, mine, victim>>

\* Mutant: a plain store instead of the exchange.
MutPutExchange(a) ==
    LET f == Current(a)
    IN  /\ pc[a] = "exchange"
        /\ count' = [count EXCEPT ![f] = old[a] - 1]
        /\ old' = [old EXCEPT ![a] = 0]
        /\ IF old[a] = 1
           THEN pc' = [pc EXCEPT ![a] = "release"] /\ UNCHANGED todo
           ELSE Dropped(a)
        /\ UNCHANGED <<tableVars, life, fd, mine, victim>>

\* Mutant: freed with one reference left.
MutPutLast(a) ==
    LET f == Current(a)
    IN  /\ pc[a] = "exchange"
        /\ count[f] = old[a]
        /\ count' = [count EXCEPT ![f] = old[a] - 1]
        /\ old' = [old EXCEPT ![a] = 0]
        /\ IF count'[f] \in {0, 1}
           THEN pc' = [pc EXCEPT ![a] = "release"] /\ UNCHANGED todo
           ELSE Dropped(a)
        /\ UNCHANGED <<tableVars, life, fd, mine, victim>>

\* A failed exchange loads the count again.
PutExchange(a) ==
    LET f == Current(a)
    IN  /\ pc[a] = "exchange"
        /\ IF count[f] # old[a]
           THEN /\ old' = [old EXCEPT ![a] = count[f]]
                /\ IF count[f] = 0 THEN Dropped(a) ELSE UNCHANGED <<pc, todo>>
                /\ UNCHANGED count
           ELSE /\ count' = [count EXCEPT ![f] = old[a] - 1]
                /\ old' = [old EXCEPT ![a] = 0]
                /\ IF old[a] = 1
                   THEN pc' = [pc EXCEPT ![a] = "release"] /\ UNCHANGED todo
                   ELSE Dropped(a)
        /\ UNCHANGED <<tableVars, life, fd, mine, victim>>

\* Mutant: the last reference does not free the file.
MutRelease(a) ==
    /\ pc[a] = "release"
    /\ Dropped(a)
    /\ UNCHANGED <<tableVars, fileVars, fd, mine, old, victim>>

\* file_release: close and kfree.
Release(a) ==
    /\ pc[a] = "release"
    /\ life' = [life EXCEPT ![Current(a)] = "freed"]
    /\ Dropped(a)
    /\ UNCHANGED <<tableVars, count, fd, mine, old, victim>>

-----------------------------------------------------------------------------
\* The process manager runs under a lock that a thread stopped by an
\* assertion never gives back.
ManagerFree == \A a \in Actors : pc[a] # "panic"

\* How many slots of table t refer to f.
SlotsOf(t, f) == Cardinality({n \in Fds : Installed(t, n) /\ files[t][n] = f})

(* fork: the child's table is a copy, the reserved slots included, with a  *)
(* reference for each installed file.  When there is no address space the  *)
(* table is destroyed as it is, and fdtable_destroy asserts that all its   *)
(* slots are free.  When there is no task the table is forgotten.          *)
Fork(a, u, failed) ==
    LET t == TableOf[a]
        empty == \A n \in Fds : state[t][n] = "FREE"
    IN  /\ InUser(a)
        /\ ManagerFree
        /\ status[u] = "none"
        /\ \A n \in Fds : Usable(t, n)
        /\ state' = [state EXCEPT ![u] = state[t]]
        /\ files' = [files EXCEPT ![u] = files[t]]
        /\ coe' = [coe EXCEPT ![u] = coe[t]]
        /\ count' = [f \in Files |-> count[f] + SlotsOf(t, f)]
        /\ status' = [status EXCEPT ![u] =
                        CASE failed = "none" -> "live"
                          [] failed = "space" /\ empty -> "destroyed"
                          [] OTHER -> "leaked"]
        /\ pc' = [pc EXCEPT ![a] =
                    IF failed = "space" /\ ~ empty THEN "panic" ELSE "user"]
        /\ UNCHANGED <<life, fd, mine, todo, old, victim>>

\* The thread leaves the process and the kernel for good.
Exit(a) ==
    /\ InUser(a)
    /\ pc' = [pc EXCEPT ![a] = "exited"]
    /\ UNCHANGED <<tableVars, fileVars, fd, mine, todo, old, victim>>

\* The references that table t holds.
InstalledFiles(t) == [n \in {k \in Fds : Installed(t, k)} |-> files[t][n]]

\* Mutant: only the installed slots are cleared.
MutCloseAll(a, u) ==
    /\ InUser(a)
    /\ ManagerFree
    /\ u # TableOf[a]
    /\ status[u] = "live"
    /\ \A b \in Actors : TableOf[b] = u => pc[b] = "exited"
    /\ \A b \in Actors : victim[b] # u
    /\ \A n \in Fds : Usable(u, n)
    /\ state' = [state EXCEPT ![u] =
                    [n \in Fds |-> IF Installed(u, n) THEN "FREE" ELSE state[u][n]]]
    /\ files' = [files EXCEPT ![u] = [n \in Fds |-> Null]]
    /\ coe' = [coe EXCEPT ![u] = [n \in Fds |-> FALSE]]
    /\ victim' = [victim EXCEPT ![a] = u]
    /\ PutNext(a, InstalledFiles(u))
    /\ UNCHANGED <<status, fileVars, fd, mine, old>>

(* wait4 of a process reaps another without threads: fdtable_close_all     *)
(* takes every slot in one critical section and drops the files after it.  *)
CloseAll(a, u) ==
    /\ InUser(a)
    /\ ManagerFree
    /\ u # TableOf[a]
    /\ status[u] = "live"
    /\ \A b \in Actors : TableOf[b] = u => pc[b] = "exited"
    /\ \A b \in Actors : victim[b] # u
    /\ \A n \in Fds : Usable(u, n)
    /\ state' = [state EXCEPT ![u] = [n \in Fds |-> "FREE"]]
    /\ files' = [files EXCEPT ![u] = [n \in Fds |-> Null]]
    /\ coe' = [coe EXCEPT ![u] = [n \in Fds |-> FALSE]]
    /\ victim' = [victim EXCEPT ![a] = u]
    /\ PutNext(a, InstalledFiles(u))
    /\ UNCHANGED <<status, fileVars, fd, mine, old>>

\* fdtable_destroy after it, with its assertion.
Destroy(a) ==
    LET u == victim[a]
    IN  /\ pc[a] = "destroy"
        /\ IF \A n \in Fds : state[u][n] = "FREE"
           THEN /\ status' = [status EXCEPT ![u] = "destroyed"]
                /\ pc' = [pc EXCEPT ![a] = "user"]
                /\ victim' = [victim EXCEPT ![a] = Null]
           ELSE /\ pc' = [pc EXCEPT ![a] = "panic"]
                /\ UNCHANGED <<status, victim>>
        /\ UNCHANGED <<state, files, coe, fileVars, fd, mine, todo, old>>

-----------------------------------------------------------------------------
Kernel(a) ==
    \/ InstallAt(a)
    \/ WriteFile(a)
    \/ PutLoad(a)
    \/ PutExchange(a)
    \/ Release(a)
    \/ Destroy(a)

Syscall(a) ==
    \/ Exit(a)
    \/ \E n \in Fds :
        \/ Reserve(a, n)
        \/ GetFile(a, n)
        \/ CloseFile(a, n)
        \/ Dup(a, n)
        \/ \E c \in BOOLEAN : SetCloseOnExec(a, n, c)
        \/ \E m \in Fds, c \in BOOLEAN : DupAt(a, m, n, c)
    \/ \E u \in Tables :
        \/ CloseAll(a, u)
        \/ \E failed \in {"none"} \union (Failures \ {"file"}) : Fork(a, u, failed)

Next == CreateRoot \/ \E a \in Actors : Kernel(a) \/ Syscall(a)

Spec == Init /\ [][Next]_vars

-----------------------------------------------------------------------------
TypeOK ==
    /\ status \in [Tables -> {"none", "live", "leaked", "destroyed"}]
    /\ state \in [Tables -> [Fds -> {"FREE", "RESERVED", "INSTALLED"}]]
    /\ files \in [Tables -> [Fds -> Files \union {Null, Err}]]
    /\ coe \in [Tables -> [Fds -> BOOLEAN]]
    /\ life \in [Files -> {"unused", "live", "freed"}]
    /\ count \in [Files -> Nat]
    /\ pc \in [Actors -> {"user", "reserved", "write", "load", "exchange",
                          "release", "destroy", "exited", "panic"}]
    /\ fd \in [Actors -> Fds]
    /\ mine \in [Actors -> Files \union {Null}]
    /\ DOMAIN todo = Actors
    /\ \A a \in Actors : DOMAIN todo[a] \subseteq Fds /\ todo[a] \in [DOMAIN todo[a] -> Files]
    /\ old \in [Actors -> Nat]
    /\ victim \in [Actors -> Tables \union {Null}]

\* The references to f: in the slots of tables, among those that threads are
\* to drop (what is being released is no reference any more), and in a new
\* file that is not installed yet.
SlotRefs(f) == {s \in Tables \X Fds : Installed(s[1], s[2]) /\ files[s[1]][s[2]] = f}
TodoRefs(f) == {s \in Actors \X Fds :
                    /\ s[2] \in DOMAIN todo[s[1]]
                    /\ todo[s[1]][s[2]] = f
                    /\ ~ (pc[s[1]] = "release" /\ s[2] = First(s[1]))}
MineRefs(f) == {a \in Actors : mine[a] = f}

(* The count of a file is the number of the slots that refer to it, in     *)
(* every table that was not destroyed, plus the references in the hands of *)
(* threads: fork, dup, dup2, close, write and the reaping of a process     *)
(* neither lose nor invent one, however their steps interleave.            *)
RefCountExact ==
    \A f \in Files :
        count[f] = Cardinality(SlotRefs(f)) + Cardinality(TodoRefs(f)) + Cardinality(MineRefs(f))

(* A file is freed when nobody refers to it, and never again: what a slot, *)
(* a write in progress, a pending drop or a pending release refers to is a *)
(* live file, and two threads never release the same one.                  *)
NoUseAfterFree ==
    /\ \A t \in Tables, n \in Fds : files[t][n] \in Files => life[files[t][n]] = "live"
    /\ \A a \in Actors :
        /\ \A n \in DOMAIN todo[a] : life[todo[a][n]] = "live"
        /\ mine[a] # Null => life[mine[a]] = "live"
    /\ \A a, b \in Actors :
        pc[a] = "release" /\ pc[b] = "release" /\ Current(a) = Current(b) => a = b

(* A file lives exactly as long as it is referred to.                      *)
FileLifetime == RefCountExact /\ NoUseAfterFree

(* A slot that is given out anew does not carry the close-on-exec flag of  *)
(* the file that was there before: only an installed slot has the flag.    *)
FlagOnlyWhileOpen ==
    \A t \in Tables, n \in Fds : coe[t][n] => Installed(t, n)

(* The assertion of fdtable_destroy: a process that is reaped has no slot  *)
(* in use any more, not even one that was reserved when it died.           *)
ReapedIsEmpty ==
    \A a \in Actors : pc[a] = "destroy" => \A n \in Fds : state[victim[a]][n] = "FREE"

(* Slots are reused and tables reaped without traces of an earlier use.    *)
SlotsClean == TypeOK /\ FlagOnlyWhileOpen /\ ReapedIsEmpty

(* No file is leaked: once nobody refers to it, one of the threads that   *)
(* dropped a reference has found that its drop was the last and releases   *)
(* it.                                                                     *)
LastDropReleases ==
    \A f \in Files :
        life[f] = "live" /\ count[f] = 0 => \E a \in Actors : pc[a] = "release" /\ Current(a) = f

-----------------------------------------------------------------------------
(* What fdtable_reserve promises to fdtable_install_at: the slot stays     *)
(* reserved for the thread that reserved it, and for no other.             *)
ReservationKept ==
    /\ \A a \in Actors : pc[a] = "reserved" => state[TableOf[a]][fd[a]] = "RESERVED"
    /\ \A a, b \in Actors :
        pc[a] = "reserved" /\ pc[b] = "reserved" /\ TableOf[a] = TableOf[b] /\ fd[a] = fd[b]
            => a = b

(* fork without memory returns an error: the assertion of fdtable_destroy  *)
(* does not fail on the table that it throws away.                         *)
ForkFailureReturns == \A a \in Actors : pc[a] # "panic"

(* The standard descriptors of a process refer to files.                   *)
InstalledIsFile ==
    \A t \in Tables, n \in Fds : Installed(t, n) => files[t][n] \in Files

=============================================================================
