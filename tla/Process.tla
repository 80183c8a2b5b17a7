------------------------------- MODULE Process -------------------------------
(***************************************************************************)
(* One process and its table of open files, as the device classes use it:  *)
(* a call that opens a file gets the lowest free number, close frees the   *)
(* number even when it reports an error, and a number once freed is given  *)
(* to whoever opens next.  Each object runs in a thread of its own and     *)
(* keeps its number in a member (spi->fd, uart_fd_, net_fd_).              *)
(***************************************************************************)
EXTENDS Integers, FiniteSets, FiniteSetsExt

CONSTANTS Objects,    \* the objects, each used by a thread of its own
          Casts,      \* the choices of a class for each object
          MaxFiles,   \* the size of the table
          MaxFaults   \* bound: system calls that fail

Classes == {"spi", "flash", "uart", "net", "net1", "osd"}
Nobody  == "nobody"

ASSUME ProcessAssumption == /\ Casts \subseteq [Objects -> Classes]
                            /\ Nobody \notin Objects
                            /\ MaxFiles \in Nat /\ MaxFaults \in Nat

VARIABLES class,      \* class[o]: the class of object o
          files,      \* files[n]: the object that opened the file, or Nobody
          fd,         \* fd[o]: the number o keeps
          pc,         \* pc[o]: "none" before o is made, "ready" between its calls
          faults,     \* system calls that may still fail
          blame       \* what the program or the code did to numbers so far

process == <<class, files, fd, pc, faults, blame>>

NoFile  == -1
Numbers == 0 .. MaxFiles - 1
Unused  == {n \in Numbers : files[n] = Nobody}

Goto(o, l) == pc' = [pc EXCEPT ![o] = l]

\* The file behind o's number.
Behind(o) == IF fd[o] \in Numbers THEN files[fd[o]] ELSE Nobody
Holds(o) == Behind(o) = o

ProcessInit == /\ class \in Casts
               /\ files = [n \in Numbers |-> Nobody]
               /\ fd = [o \in Objects |-> NoFile]
               /\ pc = [o \in Objects |-> "none"]
               /\ faults = MaxFaults
               /\ blame = {}

\* A system call that would succeed may fail instead; one that cannot, fails.
Outcomes(able) == (IF able THEN {TRUE} ELSE {FALSE}) \cup (IF faults > 0 THEN {FALSE} ELSE {})
Spend(able, ok) == faults' = IF able /\ ~ok THEN faults - 1 ELSE faults

\* What goes wrong with numbers later comes from one of these: a number still
\* in use is overwritten or thrown away, a number is kept after its close, or a
\* file is opened while a destructor is about to close for the second time.
Blame(o, at) ==
    blame' = blame \cup (IF at \in {"open", "free"} /\ Holds(o) THEN {"lost"} ELSE {})
                   \cup (IF at = "open" /\ \E u \in Objects : pc[u] = "closeAgain"
                         THEN {"between"} ELSE {})

\* open or socket, with the number stored; sane says that the call can succeed.
Opens(o, sane, ok) ==
    /\ Spend(sane, ok)
    /\ fd' = [fd EXCEPT ![o] = IF ok THEN Min(Unused) ELSE NoFile]
    /\ files' = IF ok THEN [files EXCEPT ![Min(Unused)] = o] ELSE files
    /\ Blame(o, "open")

\* close: what the number names is closed, whoever opened it.
Freed(o) == [n \in Numbers |-> IF n = fd[o] THEN Nobody ELSE files[n]]
=============================================================================
