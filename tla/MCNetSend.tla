----------------------------- MODULE MCNetSend -----------------------------
(***************************************************************************)
(* Instances of CdrawNetSend for TLC.                                      *)
(***************************************************************************)
EXTENDS CdrawNetSend

CONSTANTS p1, pm

SendCalls == (p1 :> {"enqueue", "isFull"}) @@ (pm :> {"dequeueBlock"})
ItemRange == 1 .. MaxItems
=============================================================================
