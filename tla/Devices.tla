------------------------------- MODULE Devices -------------------------------
(***************************************************************************)
(* One program with two of the device objects, each in a thread of its     *)
(* own.  They share the process's file numbers, two handles on a spidev    *)
(* share its settings, two objects of a class share a parameter file.  The *)
(* program may die at any moment and be started again.                     *)
(***************************************************************************)
EXTENDS SpiDevice, CdrawUart, CdrawNet

vars == <<process, spi, json, opened>>

Init == ProcessInit /\ SpiInit /\ JsonInit /\ UartInit

\* Numbers are gone with the process; files and the device's settings stay.
Crash == /\ JsonCrash
         /\ files' = [n \in Numbers |-> Nobody]
         /\ fd' = [o \in Objects |-> NoFile]
         /\ pc' = [o \in Objects |-> "none"]
         /\ blame' = {}
         /\ call' = [o \in Objects |-> NoCall]
         /\ data' = [o \in Objects |-> {}]
         /\ goal' = [o \in Objects |-> Unknown]
         /\ opened' = {}
         /\ UNCHANGED <<class, faults, device, calls>>

Next == \/ \E o \in Objects : SpiStep(o) /\ UNCHANGED <<json, opened>>
        \/ \E o \in Objects : UartStep(o) /\ UNCHANGED spi
        \/ \E o \in Objects : (NetStep(o) \/ JsonStep(o)) /\ UNCHANGED <<spi, opened>>
        \/ Crash

Spec == Init /\ [][Next]_vars

-----------------------------------------------------------------------------
DevicesTypeOK ==
    /\ files \in [Numbers -> Objects \cup {Nobody}]
    /\ fd \in [Objects -> Numbers \cup {NoFile}]
    /\ faults \in 0 .. MaxFaults
    /\ crashes \in 0 .. MaxCrashes
    /\ device.mode \subseteq Flags
    /\ calls \in 0 .. MaxCalls
    /\ turn \in [Objects -> 0 .. FONT_ARRAY_SIZE]
    /\ opened \subseteq {o \in Objects : class[o] = "uart"}

\* Numbers belong to who opened them.  Unless one was overwritten or thrown away
\* in use, kept after a failed close, closed before openUart gave it a value, or
\* handed out between a destructor's two closes: every number an object keeps
\* names a file of its own (no use and no close of another's file), and every
\* open file is still known to its owner (no failure path leaks one).
Owned ==
    blame = {} =>
        \A o \in Objects :
            /\ fd[o] \in Numbers /\ pc[o] # "closeAgain" /\ (class[o] = "uart" => o \in opened)
                 => Holds(o)
            /\ \A n \in Numbers : files[n] = o => fd[o] = n
=============================================================================
