------------------------------ MODULE CdrawUart ------------------------------
(***************************************************************************)
(* CdrawUart: a serial port behind uart_fd_, from its constructor, which   *)
(* leaves uart_fd_ as the memory had it, to its destructor, which closes   *)
(* it twice.  The line's attributes are left out: openUart computes them   *)
(* but only updateUartAttr sets them.                                      *)
(*                                                                         *)
(* pc: "attr" between open and tcgetattr, "closeAgain" between the         *)
(* destructor's closes.                                                    *)
(***************************************************************************)
EXTENDS CdrawJSON

VARIABLE opened       \* the objects whose uart_fd_ openUart has given a value

UartInit == opened = {}

CdrawUart(o) ==
    /\ class[o] = "uart" /\ pc[o] = "none"
    /\ \E n \in Numbers \cup {NoFile} : fd' = [fd EXCEPT ![o] = n]
    /\ opened' = opened \ {o}
    /\ json_' = [json_ EXCEPT ![o] = Garbage]
    /\ param' = [param EXCEPT ![o] = {Given(o)}]
    /\ Goto(o, "built")
    /\ UNCHANGED <<class, files, faults, blame, file, turn, disturbed, crashes>>

\* The name is the constructor's, empty, or any string: another UART printed
\* its uart_json_ and never gave it a value.
openUart(o) ==
    /\ class[o] = "uart" /\ pc[o] = "ready"
    /\ LET sane == Unused # {} /\ ~Uses(o, Nothing)
       IN  \E ok \in Outcomes(sane) \cup (IF Uses(o, Garbage) THEN {FALSE} ELSE {}) :
             /\ Opens(o, sane /\ ~Uses(o, Garbage), ok)
             /\ Goto(o, IF ok THEN "attr" ELSE "ready")
    /\ opened' = opened \cup {o}
    /\ UNCHANGED <<class, json>>

\* tcgetattr: the file stays open and uart_fd_ valid whether it fails or not.
GetAttr(o) ==
    /\ pc[o] = "attr"
    /\ \E ok \in Outcomes(Behind(o) # Nobody) : Spend(Behind(o) # Nobody, ok)
    /\ Goto(o, "ready")
    /\ UNCHANGED <<class, files, fd, blame, json, opened>>

\* The destructor closes the file; a close that succeeds is done again.
CloseUart(o) ==
    /\ class[o] = "uart" /\ pc[o] = "ready"
    /\ \E ok \in Outcomes(Behind(o) # Nobody) :
         /\ Spend(Behind(o) # Nobody, ok)
         /\ files' = Freed(o)
         /\ IF ok THEN Goto(o, "closeAgain") /\ UNCHANGED <<fd, opened>>
                  ELSE /\ Goto(o, "none")
                       /\ fd' = [fd EXCEPT ![o] = NoFile]
                       /\ opened' = opened \ {o}
    /\ blame' = IF o \notin opened /\ Behind(o) # Nobody THEN blame \cup {"unopened"} ELSE blame
    /\ UNCHANGED <<class, json>>

CloseUartAgain(o) ==
    /\ pc[o] = "closeAgain"
    /\ files' = Freed(o)
    /\ fd' = [fd EXCEPT ![o] = NoFile]
    /\ opened' = opened \ {o}
    /\ Goto(o, "none")
    /\ UNCHANGED <<class, faults, blame, json>>

UartStep(o) == \/ CdrawUart(o) \/ openUart(o) \/ GetAttr(o)
               \/ CloseUart(o) \/ CloseUartAgain(o)
=============================================================================
