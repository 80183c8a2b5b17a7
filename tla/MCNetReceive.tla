---------------------------- MODULE MCNetReceive ----------------------------
(***************************************************************************)
(* Instances of CdrawNetReceive for TLC.                                   *)
(***************************************************************************)
EXTENDS CdrawNetReceive

CONSTANTS rp, c1

ReceiveCalls == (rp :> {"enqueue"}) @@ (c1 :> {"dequeueNotBlock", "dequeueAllNotBlock", "isEmpty"})
ItemRange == 0 .. MaxDatagrams
=============================================================================
