------------------------------ MODULE MCQueue ------------------------------
(***************************************************************************)
(* Instances of CdrawQueue for TLC: who calls what.                        *)
(***************************************************************************)
EXTENDS CdrawQueue, TLC

CONSTANTS p1, p2, c1

\* Two producers, one of which asks for room and one takes items, and a consumer that drains,
\* waiting or not, and clears: each operation met by the others.
MixedCalls == (p1 :> {"enqueue", "isFull"})
           @@ (p2 :> {"enqueue", "dequeueNotBlock"})
           @@ (c1 :> {"dequeueAllNotBlock", "dequeueAllBlock", "clear"})

\* Two producers and a consumer that uses the blocking forms.
BlockingCalls == (p1 :> {"enqueue"})
              @@ (p2 :> {"enqueue", "dequeueNotBlock"})
              @@ (c1 :> {"dequeueBlock", "dequeueAllBlock"})
=============================================================================
