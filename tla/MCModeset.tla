----------------------------- MODULE MCModeset -----------------------------
(***************************************************************************)
(* Instances of Modeset for TLC: two CRTCs and two connectors, each with   *)
(* an encoder of its own or with both, in every combination.               *)
(***************************************************************************)
EXTENDS Modeset

\* now[k]: the CRTC connector k has at the start; plug[k]: its screen's size,
\* or -1 without a screen; works[k]: the CRTCs its encoder works with; both:
\* whether each connector also has the other's encoder, which it lists first.
Board(now, plug, works, both) ==
    [connectors |-> [k \in 1 .. 2 |-> [id |-> 10 + k, connected |-> plug[k] # -1,
                                       size |-> IF plug[k] = -1 THEN 0 ELSE plug[k],
                                       encoder |-> IF now[k] = None THEN None ELSE k,
                                       encoders |-> IF both THEN <<3 - k, k>> ELSE <<k>>]],
     encoders |-> [k \in 1 .. 2 |-> [crtc |-> now[k], possible |-> works[k]]],
     crtcs |-> [c \in 1 .. 2 |-> IF \E k \in 1 .. 2 : now[k] = c
                                 THEN LET k == CHOOSE k \in 1 .. 2 : now[k] = c
                                      IN  [fb |-> 20 + k, conn |-> 10 + k]
                                 ELSE Off]]

BoardsOf(sizes) ==
    {Board(now, plug, works, both) :
        <<now, plug, works, both>> \in
           {x \in [1 .. 2 -> 0 .. 2] \X [1 .. 2 -> sizes] \X [1 .. 2 -> {{1}, {2}, {1, 2}}]
                    \X BOOLEAN :
               /\ x[1][1] # x[1][2] \/ x[1][1] = None
               /\ \A k \in 1 .. 2 : x[1][k] \in x[3][k] \cup {None}}}

\* Screens of any kind, one of them smaller than a frame.
AllBoards == BoardsOf({-1, 0, FrameSize - 1, FrameSize})
=============================================================================
