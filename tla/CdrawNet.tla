------------------------------- MODULE CdrawNet -------------------------------
(***************************************************************************)
(* CdrawNet as an object: its two constructors ("net" with two addresses,  *)
(* "net1" with one) and its destructor.  Its pumps are in CdrawNetSend and  *)
(* CdrawNetReceive.                                                        *)
(*                                                                         *)
(* pc: "bind" between socket and bind.                                     *)
(***************************************************************************)
EXTENDS CdrawJSON

IsNet(o) == class[o] \in {"net", "net1"}

\* A socket that cannot be had is noticed by bind only.
CdrawNet(o) ==
    /\ IsNet(o) /\ pc[o] = "none"
    /\ \E ok \in Outcomes(Unused # {}) : Opens(o, Unused # {}, ok)
    /\ json_' = [json_ EXCEPT ![o] = IF class[o] = "net1" THEN o ELSE Garbage]
    /\ param' = [param EXCEPT ![o] = {Given(o)}]
    /\ Goto(o, "bind")
    /\ UNCHANGED <<class, file, turn, disturbed, crashes>>

\* The object is there whether bind succeeds or not; with two addresses
\* net_json_ has no value if it does not.
Bind(o) ==
    /\ pc[o] = "bind"
    /\ LET able == Behind(o) # Nobody /\ IsNet(Behind(o))
       IN  \E ok \in Outcomes(able) :
             /\ Spend(able, ok)
             /\ json_' = IF ok THEN [json_ EXCEPT ![o] = o] ELSE json_
    /\ Goto(o, "built")
    /\ UNCHANGED <<class, files, fd, blame, file, param, turn, disturbed, crashes>>

\* close, whose result nobody asks for.
DestroyNet(o) ==
    /\ IsNet(o) /\ pc[o] = "ready"
    /\ files' = Freed(o)
    /\ fd' = [fd EXCEPT ![o] = NoFile]
    /\ Goto(o, "none")
    /\ UNCHANGED <<class, faults, blame, json>>

NetStep(o) == CdrawNet(o) \/ Bind(o) \/ DestroyNet(o)
=============================================================================
