---------------------------- MODULE MCOsdShapes ----------------------------
(***************************************************************************)
(* Instances of OsdShapes for TLC.                                         *)
(***************************************************************************)
EXTENDS OsdShapes

Cross(ws, hs) == [shape : {"cross"}, width : ws, height : hs]
Box(ws, hs) == [shape : {"box"}, width : ws, height : hs, pound : -1 .. 2, type : {0, 1}]
Rule(ws, hs, ns) == [shape : {"rule"}, width : ws, height : hs, parts : ns]

\* Every size, below and above the image's; rules wide enough for their parts.
AllRequests == Cross(-1 .. ImgWidth + 1, -1 .. ImgHeight + 1)
               \cup Box(-1 .. ImgWidth + 1, {-1, 0, 1, 5, ImgHeight + 1})
               \cup {x \in Rule({-1, 0} \cup 8 .. ImgWidth + 1, {-1, 0, 1, 5}, -1 .. 4) :
                        Clamp(x.width, ImgWidth) \in {0} \cup 2 * x.parts .. ImgWidth}
=============================================================================
