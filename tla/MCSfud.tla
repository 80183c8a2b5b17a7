------------------------------- MODULE MCSfud -------------------------------
(***************************************************************************)
(* Instances of Sfud for TLC: who calls what, on which chip.               *)
(***************************************************************************)
EXTENDS Sfud, TLC

CONSTANTS t1, t2

Every(fns, addrs, sizes) == fns \X addrs \X sizes

\* One thread: every operation at every address, up to past the chip's end.
\* aai_write is never given an empty range at an odd address.
AllRequests == t1 :> (Every({"erase"}, 0 .. ChipSize, 0 .. ChipSize)
                      \cup Every({"read"}, 0 .. ChipSize, 0 .. 7)
                      \cup {r \in Every({"write", "eraseWrite"}, 0 .. ChipSize, 0 .. 7) :
                               r[3] > 0 \/ r[2] % 2 = 0}
                      \cup {<<"chipErase", 0, 0>>})

\* Two threads in the same two blocks and pages, one of them past the end too.
PairRequests == (t1 :> {<<"erase", 0, 8>>, <<"write", 2, 5>>, <<"eraseWrite", 1, 3>>,
                        <<"read", 2, 4>>})
             @@ (t2 :> {<<"erase", 6, 3>>, <<"write", 6, 5>>, <<"eraseWrite", 2, 8>>,
                        <<"read", 3, 6>>, <<"chipErase", 0, 0>>, <<"eraseWrite", 14, 3>>})

OneEraser == <<8>>
TwoErasers == <<4, 8>>
=============================================================================
