------------------------------- MODULE MCOsd -------------------------------
(***************************************************************************)
(* Instances of Osd for TLC.                                               *)
(***************************************************************************)
EXTENDS Osd

\* A glyph and three bitmaps of the program's own, narrower than the image, of
\* its size, and wider and higher than it.
SomeBitmaps == {[kind |-> "glyph", width |-> 2, rows |-> 3],
                [kind |-> "custom", width |-> 3, rows |-> 1],
                [kind |-> "custom", width |-> ImgWidth, rows |-> ImgHeight],
                [kind |-> "custom", width |-> ImgWidth + 1, rows |-> ImgHeight + 1]}

\* Positions within the image, before it and, for the rows, below it.
SomeRows == {-1, 0, 2, ImgHeight}
SomeColumns == {-1, 0, 2}
=============================================================================
