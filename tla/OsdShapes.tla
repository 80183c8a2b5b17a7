------------------------------ MODULE OsdShapes ------------------------------
(***************************************************************************)
(* The bitmaps COSD_OpenCL draws itself (cdrawTools/OSD/COSD_OpenCL.cpp):  *)
(* draw_cross, draw_box and draw_yaw_rule.  Each takes a buffer with       *)
(* malloc and stores some of its cells; a cell is reached by its flat      *)
(* index, so that a column too far left or right is a cell of the row      *)
(* before or after, or outside the buffer.                                 *)
(***************************************************************************)
EXTENDS OsdImage, Integers

CONSTANTS Requests      \* the calls, with their arguments

ASSUME ShapesAssumption ==
    \A r \in Requests : /\ r.shape \in {"cross", "box", "rule"} /\ {r.width, r.height} \subseteq Int
                        /\ r.shape = "box" => {r.pound, r.type} \subseteq Int
                        /\ r.shape = "rule" => r.parts \in Int

VARIABLES request,      \* the call
          buf           \* its buffer, or NotDrawn

shapeVars == <<request, buf>>

Unset == -1             \* a cell as malloc left it
NotDrawn == [width |-> 0, height |-> 0, cells |-> <<>>, outside |-> {}, crash |-> FALSE]

ShapesInit == request \in Requests /\ buf = NotDrawn

\* Mutant of Clamp: only a negative size is corrected.
ClampForgotten(n, limit) == IF n < 0 THEN limit ELSE n

\* The ints are compared with size_t limits: a negative one is a huge size.
Clamp(n, limit) == IF n > limit \/ n < 0 THEN limit ELSE n

\* A buffer of w * h cells with the stores [index |-> value].
Buffer(w, h, stores) ==
    [width |-> w, height |-> h, crash |-> FALSE,
     cells |-> [k \in 0 .. w * h - 1 |-> IF k \in DOMAIN stores THEN stores[k] ELSE Unset],
     outside |-> DOMAIN stores \ (0 .. w * h - 1)]

Grid(w, h) == (0 .. h - 1) \X (0 .. w - 1)
At(w, cell) == cell[1] * w + cell[2]
Flat(w, cells) == {At(w, x) : x \in cells}

draw_cross ==
    LET w == Clamp(request.width, ImgWidth)
        h == Clamp(request.height, ImgHeight)
        lines == {x \in Grid(w, h) : x[2] = w \div 2 \/ x[1] = h \div 2}
    IN  /\ request.shape = "cross"
        /\ buf' = Buffer(w, h, [k \in Flat(w, lines) |-> 255])

\* Mutant of Border: one column short on the right.
BorderShort(w, h, p, i, j) == j <= p \/ i <= p \/ j >= w - p \/ i >= h - 1 - p

Border(w, h, p, i, j) == j <= p \/ i <= p \/ j >= w - 1 - p \/ i >= h - 1 - p

\* The gaps of a dashed frame: 9 of every 20 columns or rows.
Gap(w, h, p, i, j) == \/ j % 20 > 10 /\ (i <= p \/ i >= h - 1 - p)
                      \/ i % 20 > 10 /\ (j <= p \/ j >= w - 1 - p)

draw_box ==
    LET w == Clamp(request.width, ImgWidth)
        h == Clamp(request.height, ImgHeight)
        p == IF request.pound <= 0 THEN 0 ELSE request.pound
        ink == {x \in Grid(w, h) : /\ Border(w, h, p, x[1], x[2])
                                   /\ request.type = 1 => ~Gap(w, h, p, x[1], x[2])}
        edge(k) == k \div w \in {0, h - 1} \/ k % w \in {0, w - 1}
    IN  /\ request.shape = "box"
        /\ buf' = Buffer(w, h, [k \in Flat(w, ink) |-> IF edge(k) THEN 1 ELSE 255])

\* Where the rule's middle line is: mutant and original.
MiddleRight(w, j) == w \div 2 - 1 <= j /\ j <= w - 1

Middle(w, j) == w \div 2 - 3 <= j /\ j <= w \div 2 + 1

Beside(cells) == {<<x[1], x[2] + d>> : x \in cells, d \in {-1, 0, 1}}

\* The sides, the middle, and the lines that divide each half in parts.  Of
\* the latter only the stores after the buffer's end are guarded.
draw_yaw_rule ==
    LET w == Clamp(request.width, ImgWidth)
        h == Clamp(request.height, ImgHeight)
        parts == IF request.parts <= 0 THEN 2 ELSE request.parts
        part_width == (w \div 2) \div parts
        sides == {x \in Grid(w, h) : x[2] <= 2 \/ x[2] >= w - 3 \/ x[1] >= h - 3}
        middle == {x \in Grid(w, h) : Middle(w, x[2])}
        ticks == IF parts = 1 THEN {}
                 ELSE {x \in Grid(w, h) : x[2] % part_width = 0 /\ x[2] \notin {0, w - 1}}
    IN  /\ request.shape = "rule"
        /\ buf' = IF parts > 1 /\ part_width = 0 /\ w * h > 0
                  THEN [NotDrawn EXCEPT !.crash = TRUE]
                  ELSE Buffer(w, h, [k \in Flat(w, sides \cup Beside(middle)) \cup
                                          {k \in Flat(w, Beside(ticks)) : k < w * h} |-> 255])

Draw == buf = NotDrawn /\ (draw_cross \/ draw_box \/ draw_yaw_rule) /\ UNCHANGED request

ShapesSpec == ShapesInit /\ [][Draw]_shapeVars

-----------------------------------------------------------------------------
Cell(i, j) == buf.cells[i * buf.width + j]

\* The type invariant: a drawn buffer is as large as was asked, within the
\* image.
ShapesTypeOK ==
    /\ buf.width \in 0 .. ImgWidth /\ buf.height \in 0 .. ImgHeight
    /\ \A k \in 0 .. buf.width * buf.height - 1 : buf.cells[k] \in {Unset, 1, 255}
    /\ buf.width > 0 /\ request.width \in 0 .. ImgWidth => buf.width = request.width

\* Nothing is stored outside the buffer, and nothing is divided by zero.
DrawnInside == buf.outside = {} /\ ~buf.crash

\* A solid frame is the same upside down and mirrored, an edge of 1 around
\* a line of 255: the line has one thickness on all four sides.
BoxSymmetric ==
    request.shape = "box" /\ request.type = 0 =>
        \A x \in Grid(buf.width, buf.height) :
            /\ Cell(x[1], x[2]) = Cell(buf.height - 1 - x[1], x[2])
            /\ Cell(x[1], x[2]) = Cell(x[1], buf.width - 1 - x[2])
=============================================================================
