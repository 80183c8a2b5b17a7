------------------------------ MODULE OsdProofs ------------------------------
(***************************************************************************)
(* Proofs about the on-screen display. The layer: what is on the screen    *)
(* after a turn is what the slots hold, for every image, any slots and     *)
(* any bitmaps, in any order of filling them. The bitmaps that it draws    *)
(* itself, for every size and every argument: nothing is stored outside    *)
(* the buffer, and solid frames are symmetric.                             *)
(***************************************************************************)
EXTENDS Osd, OsdShapes, FiniteSetTheorems, TLAPS

\* A slot in use has a bitmap that was made, cut at most to the size of the
\* image, and stands anywhere.
SlotOK(s) ==
    /\ s.bitmap \in 1 .. creates
    /\ s.r_position_ \in Int /\ s.c_position_ \in Int
    /\ s.font_width_ \in Nat /\ s.font_rows_ \in Nat
    /\ s.font_width_ <= made[s.bitmap].width
    /\ s.font_rows_ <= made[s.bitmap].rows
    /\ s.font_rows_ \in {made[s.bitmap].rows, ImgHeight}

SlotsOK ==
    /\ DOMAIN fontAttr_array_ = 0 .. FONT_ARRAY_SIZE - 1
    /\ made \in [1 .. MaxCreates -> [width : Nat, rows : Nat]]
    /\ creates \in 0 .. MaxCreates
    /\ \A i \in Slots : SlotOK(fontAttr_array_[i])

AllPlaced == \A i \in Slots : Placed(fontAttr_array_[i])

\* A pixel of the layer is blank or a pixel of a bitmap.
Legible(x) ==
    \/ x = Blank
    \/ /\ x[1] \in 1 .. creates
       /\ x[2] \in Nat /\ x[2] < made[x[1]].width * made[x[1]].rows

Rendered(k) ==
    [swapped |-> TRUE, text |-> IF Gray(Merged[k]) > 0 THEN Merged[k] ELSE Blank]

\* The inductive invariant: between copying the picture in and showing it the
\* picture is untouched, and what is shown is the layer the slots give now.
OInv ==
    /\ SlotsOK
    /\ pc \in {"load", "fill", "shown", "noSlot", "offLayer"}
    /\ pc = "offLayer" => \E i \in Slots : \/ fontAttr_array_[i].r_position_ < 0
                                          \/ fontAttr_array_[i].c_position_ < 0
    /\ \A k \in Pixels : Legible(all_font_buffer_[k])
    /\ \A k \in Pixels : image_buffer_[k].swapped \in BOOLEAN
    /\ pc = "fill" => image_buffer_ = [k \in Pixels |-> Original]
    /\ pc = "shown" => \A k \in Pixels : image_buffer_[k] = Rendered(k)

-----------------------------------------------------------------------------
\* A row and a column are a cell of the buffer.
LEMMA CellInside ==
    ASSUME NEW w \in Nat, NEW h \in Nat, NEW i \in 0 .. h - 1, NEW j \in 0 .. w - 1
    PROVE  i * w + j \in 0 .. w * h - 1
  <1>1. i * w >= 0 /\ i * w + j >= 0
    BY SMT
  <1>2. i * w <= (h - 1) * w
    BY SMT
  <1>3. (h - 1) * w = w * h - w
    BY SMT
  <1>4. i * w \in Int /\ w * h \in Int /\ j <= w - 1
    OBVIOUS
  <1> DEFINE p == i * w
             q == w * h
  <1>5. p >= 0 /\ p + j >= 0 /\ p <= q - w /\ p \in Int /\ q \in Int /\ j <= w - 1
    BY <1>1, <1>2, <1>3, <1>4
  <1> HIDE DEF p, q
  <1>6. p + j \in 0 .. q - 1
    BY <1>5
  <1>7. QED
    BY <1>6 DEF p, q

\* The row and the column of a flat index.
LEMMA RowAndColumn ==
    ASSUME NEW w \in Nat, NEW i \in Nat, NEW j \in 0 .. w - 1
    PROVE  (i * w + j) \div w = i /\ (i * w + j) % w = j
  <1> DEFINE k == i * w + j
             q == k \div w
             r == k % w
  <1>1. w > 0 /\ k \in Nat
    BY SMT
  <1>2. k = w * q + r /\ q \in Int /\ r \in 0 .. w - 1
    BY <1>1, SMT
  <1>3. w * (i - q) = r - j /\ i - q \in Int
    BY <1>2, SMT
  <1>4. r - j < w /\ j - r < w /\ r - j \in Int
    BY <1>2
  <1>5. i - q = 0
    <2> DEFINE d == i - q
               s == r - j
    <2>1. d \in Int /\ s \in Int /\ w * d = s /\ s < w /\ -s < w /\ w > 0
      BY <1>1, <1>3, <1>4
    <2> HIDE DEF d, s
    <2>2. ~(d >= 1)
      <3>1. d >= 1 => w * d >= w
        BY <2>1, SMT
      <3>2. QED
        BY <2>1, <3>1
    <2>3. ~(d <= -1)
      <3>1. d <= -1 => w * d <= -w
        BY <2>1, SMT
      <3>2. QED
        BY <2>1, <3>1
    <2>4. QED
      BY <2>1, <2>2, <2>3 DEF d
  <1>6. q = i /\ r = j
    BY <1>2, <1>3, <1>5, SMT
  <1>7. QED
    BY <1>6

\* What Min and Max return where the model applies them.
LEMMA MinOfTwo ==
    ASSUME NEW a \in Int, NEW b \in Int
    PROVE  Min({a, b}) = IF a <= b THEN a ELSE b
  <1>1. \E x \in {a, b} : \A y \in {a, b} : x =< y
    OBVIOUS
  <1>2. Min({a, b}) \in {a, b} /\ \A y \in {a, b} : Min({a, b}) =< y
    BY <1>1 DEF Min
  <1>3. QED
    BY <1>2

LEMMA MaxOfOne ==
    ASSUME NEW a \in Int PROVE Max({a}) = a
  BY DEF Max

LEMMA MaxIsThere ==
    ASSUME NEW n \in Nat, NEW T \in SUBSET (0 .. n - 1), T # {}
    PROVE  Max(T) \in T /\ \A y \in T : Max(T) >= y
  <1> DEFINE F == {x .. n : x \in T}
  <1>1. F \subseteq FiniteSubsetsOf(Nat) /\ F # {}
    <2>1. ASSUME NEW x \in T PROVE x .. n \in FiniteSubsetsOf(Nat)
      <3>1. x \in Int /\ n \in Int /\ x .. n \subseteq Nat
        OBVIOUS
      <3>2. IsFiniteSet(x .. n)
        BY <3>1, FS_Interval
      <3>3. QED
        BY <3>1, <3>2 DEF FiniteSubsetsOf
    <2>2. QED
      BY <2>1
  <1>2. PICK X \in F : \A Y \in F : ~(<<Y, X>> \in StrictSubsetOrdering(Nat))
    <2>1. IsWellFoundedOn(StrictSubsetOrdering(Nat), FiniteSubsetsOf(Nat))
      BY FS_StrictSubsetOrderingWellFounded
    <2> HIDE DEF F
    <2>2. QED
      BY <1>1, <2>1, WFMin
  <1>3. PICK x \in T : X = x .. n
    OBVIOUS
  <1>4. ASSUME NEW y \in T PROVE x >= y
    <2>1. SUFFICES ASSUME ~(x >= y) PROVE FALSE
      OBVIOUS
    <2>2. x < y /\ x \in Nat /\ y \in Nat /\ x <= n
      BY <2>1
    <2>3. y .. n \subseteq x .. n /\ x \notin y .. n /\ x \in x .. n
      BY <2>2
    <2>4. y .. n \in SUBSET Nat /\ x .. n \in SUBSET Nat /\ y .. n # x .. n
      BY <2>2, <2>3
    <2>5. <<y .. n, x .. n>> \in StrictSubsetOrdering(Nat)
      BY <2>3, <2>4 DEF StrictSubsetOrdering
    <2>6. QED
      BY <1>2, <1>3, <2>5
  <1>5. QED
    BY <1>4 DEF Max


\* copyBitmapToImage stores at row i and column j what the bitmap has there, and
\* nothing when the bitmap does not reach there.
LEMMA Lands ==
    ASSUME NEW s,
           s.r_position_ \in Nat, s.c_position_ \in Nat,
           s.font_rows_ \in Nat, s.font_width_ \in Nat,
           NEW i \in 0 .. ImgHeight - 1, NEW j \in 0 .. ImgWidth - 1, NEW p
    PROVE  (p \in Copied(s) /\ p[1] = i * ImgWidth + j)
           <=> /\ i - s.r_position_ \in 0 .. s.font_rows_ - 1
               /\ j - s.c_position_ \in 0 .. s.font_width_ - 1
               /\ p = << i * ImgWidth + j,
                         (i - s.r_position_) * s.font_width_ + (j - s.c_position_) >>
  <1> USE OsdAssumption, ImageAssumption
  <1> DEFINE r == s.r_position_
             c == s.c_position_
             h == s.font_rows_
             w == s.font_width_
             rows == r .. Min({r + h, ImgHeight}) - 1
             cols == c .. Min({c + w, ImgWidth}) - 1
             place(row, col) == << row * ImgWidth + col, (row - r) * w + (col - c) >>
  <1>1. Copied(s) = {place(row, col) : row \in rows, col \in cols}
    BY DEF Copied
  <1>2. r \in Nat /\ c \in Nat /\ h \in Nat /\ w \in Nat /\ ImgHeight \in Nat /\ ImgWidth \in Nat
    OBVIOUS
  <1> HIDE DEF r, c, h, w
  <1>3. \A row \in Int : row \in rows <=> row \in 0 .. ImgHeight - 1 /\ row - r \in 0 .. h - 1
    <2>1. Min({r + h, ImgHeight}) = IF r + h <= ImgHeight THEN r + h ELSE ImgHeight
      BY <1>2, MinOfTwo
    <2>2. QED
      BY <1>2, <2>1
  <1>4. \A col \in Int : col \in cols <=> col \in 0 .. ImgWidth - 1 /\ col - c \in 0 .. w - 1
    <2>1. Min({c + w, ImgWidth}) = IF c + w <= ImgWidth THEN c + w ELSE ImgWidth
      BY <1>2, MinOfTwo
    <2>2. QED
      BY <1>2, <2>1
  <1>5. \A row \in rows : row \in Int
    BY <1>2
  <1>6. \A col \in cols : col \in Int
    BY <1>2
  <1> HIDE DEF rows, cols
  <1>7. ASSUME p \in Copied(s), p[1] = i * ImgWidth + j
        PROVE  i \in rows /\ j \in cols /\ p = place(i, j)
    <2>1. PICK row \in rows : \E col \in cols : p = place(row, col)
      BY <1>1, <1>7
    <2>2. PICK col \in cols : p = place(row, col)
      BY <2>1
    <2>3. row * ImgWidth + col = i * ImgWidth + j
      BY <1>7, <2>2
    <2>4. row \in Nat /\ col \in 0 .. ImgWidth - 1 /\ i \in Nat
      BY <1>3, <1>4, <1>5, <1>6
    <2>5. (row * ImgWidth + col) \div ImgWidth = row /\ (row * ImgWidth + col) % ImgWidth = col
      BY <1>2, <2>4, RowAndColumn
    <2>6. (i * ImgWidth + j) \div ImgWidth = i /\ (i * ImgWidth + j) % ImgWidth = j
      BY <1>2, <2>4, RowAndColumn
    <2>7. row = i /\ col = j
      BY <2>3, <2>5, <2>6
    <2>8. QED
      BY <2>2, <2>7
  <1>8. ASSUME i \in rows, j \in cols, p = place(i, j)
        PROVE  p \in Copied(s) /\ p[1] = i * ImgWidth + j
    BY <1>1, <1>8
  <1>9. (i \in rows <=> i - r \in 0 .. h - 1) /\ (j \in cols <=> j - c \in 0 .. w - 1)
    BY <1>3, <1>4
  <1> HIDE DEF place
  <1>10. (p \in Copied(s) /\ p[1] = i * ImgWidth + j)
         <=> i - r \in 0 .. h - 1 /\ j - c \in 0 .. w - 1 /\ p = place(i, j)
    BY <1>7, <1>8, <1>9
  <1>11. QED
    BY <1>10 DEF r, c, h, w, place

\* Nothing is stored outside the layer.
LEMMA StaysInImage ==
    ASSUME NEW s,
           s.r_position_ \in Nat, s.c_position_ \in Nat,
           s.font_rows_ \in Nat, s.font_width_ \in Nat,
           NEW p \in Copied(s)
    PROVE  p[1] \in Pixels
  <1> USE OsdAssumption, ImageAssumption
  <1> DEFINE rows == s.r_position_ .. Min({s.r_position_ + s.font_rows_, ImgHeight}) - 1
             cols == s.c_position_ .. Min({s.c_position_ + s.font_width_, ImgWidth}) - 1
             place(row, col) ==
                 << row * ImgWidth + col,
                    (row - s.r_position_) * s.font_width_ + (col - s.c_position_) >>
  <1>1. PICK row \in rows, col \in cols : p = place(row, col)
    <2>1. Copied(s) = {place(row, col) : row \in rows, col \in cols}
      BY DEF Copied
    <2> HIDE DEF rows, cols, place
    <2>2. QED
      BY <2>1
  <1>2. p[1] = row * ImgWidth + col
    BY <1>1
  <1>3. row \in 0 .. ImgHeight - 1
    <2>1. Min({s.r_position_ + s.font_rows_, ImgHeight}) <= ImgHeight
          /\ Min({s.r_position_ + s.font_rows_, ImgHeight}) \in Int
      BY MinOfTwo
    <2>2. QED
      BY <2>1
  <1>4. col \in 0 .. ImgWidth - 1
    <2>1. Min({s.c_position_ + s.font_width_, ImgWidth}) <= ImgWidth
          /\ Min({s.c_position_ + s.font_width_, ImgWidth}) \in Int
      BY MinOfTwo
    <2>2. QED
      BY <2>1
  <1>5. QED
    BY <1>2, <1>3, <1>4, CellInside DEF Pixels


-----------------------------------------------------------------------------
\* Which slots want a place, and what the highest of them has there.
Wanting(i, j) == {n \in DOMAIN fontAttr_array_ : Wants(fontAttr_array_[n], i, j)}

Showing(i, j) ==
    LET top == fontAttr_array_[Max(Wanting(i, j))]
    IN  << top.bitmap,
           (i - top.r_position_) * made[top.bitmap].width + (j - top.c_position_) >>

\* A slot stores where it wants to show: the cut never takes anything that is
\* inside the image.
LEMMA StoresWhatItWants ==
    ASSUME SlotsOK, NEW n \in Slots, Placed(fontAttr_array_[n]),
           NEW i \in 0 .. ImgHeight - 1, NEW j \in 0 .. ImgWidth - 1, NEW p
    PROVE  (p \in Copied(fontAttr_array_[n]) /\ p[1] = i * ImgWidth + j)
           <=> /\ Wants(fontAttr_array_[n], i, j)
               /\ p = << i * ImgWidth + j,
                         (i - fontAttr_array_[n].r_position_) * made[fontAttr_array_[n].bitmap].width
                           + (j - fontAttr_array_[n].c_position_) >>
  <1> USE OsdAssumption, ImageAssumption
  <1> DEFINE s == fontAttr_array_[n]
             b == made[s.bitmap]
  <1>1. SlotOK(s) /\ s.used_
    BY DEF SlotsOK, Slots
  <1>2. b \in [width : Nat, rows : Nat]
    BY <1>1 DEF SlotsOK, SlotOK
  <1>3. /\ s.r_position_ \in Nat /\ s.c_position_ \in Nat
        /\ s.font_rows_ \in Nat /\ s.font_width_ \in Nat
        /\ s.font_width_ = b.width
        /\ b.rows \in Nat /\ s.font_rows_ <= b.rows /\ s.font_rows_ \in {b.rows, ImgHeight}
    BY <1>1, <1>2 DEF SlotOK, Placed
  <1> HIDE DEF s
  <1>4. (p \in Copied(s) /\ p[1] = i * ImgWidth + j)
        <=> /\ i - s.r_position_ \in 0 .. s.font_rows_ - 1
            /\ j - s.c_position_ \in 0 .. s.font_width_ - 1
            /\ p = << i * ImgWidth + j,
                      (i - s.r_position_) * s.font_width_ + (j - s.c_position_) >>
    BY <1>3, Lands
  <1>5. i - s.r_position_ \in 0 .. s.font_rows_ - 1
        <=> i - s.r_position_ \in 0 .. b.rows - 1
    <2> HIDE DEF b
    <2>1. PICK r \in Nat, f \in Nat, m \in Nat :
               r = s.r_position_ /\ f = s.font_rows_ /\ m = b.rows
      BY <1>3
    <2>2. f <= m /\ (f = m \/ f = ImgHeight) /\ i \in 0 .. ImgHeight - 1
      BY <1>3, <2>1
    <2>3. i - r \in 0 .. f - 1 <=> i - r \in 0 .. m - 1
      BY <2>1, <2>2
    <2>4. QED
      BY <2>1, <2>3
  <1>6. Wants(s, i, j) <=> /\ i - s.r_position_ \in 0 .. b.rows - 1
                           /\ j - s.c_position_ \in 0 .. b.width - 1
    BY <1>1 DEF Wants
  <1>7. QED
    BY <1>3, <1>4, <1>5, <1>6 DEF s

\* The pixel a slot shows is a pixel of its bitmap.
LEMMA ShownIsLegible ==
    ASSUME SlotsOK, NEW n \in Slots,
           NEW i \in Int, NEW j \in Int,
           Wants(fontAttr_array_[n], i, j)
    PROVE  LET s == fontAttr_array_[n]
               at == (i - s.r_position_) * made[s.bitmap].width + (j - s.c_position_)
           IN  Legible(<< s.bitmap, at >>) /\ at \in Nat
  <1> DEFINE s == fontAttr_array_[n]
             b == made[s.bitmap]
             at == (i - s.r_position_) * b.width + (j - s.c_position_)
  <1>1. SlotOK(s)
    BY DEF SlotsOK
  <1>2. s.bitmap \in 1 .. creates /\ b \in [width : Nat, rows : Nat]
    BY <1>1, OsdAssumption, ImageAssumption DEF SlotsOK, SlotOK
  <1>3. b.width \in Nat /\ b.rows \in Nat
    BY <1>2
  <1>4. i - s.r_position_ \in 0 .. b.rows - 1 /\ j - s.c_position_ \in 0 .. b.width - 1
    BY DEF Wants
  <1>5. at \in 0 .. b.width * b.rows - 1
    <2> HIDE DEF b, s
    <2>1. PICK w \in Nat, h \in Nat : w = b.width /\ h = b.rows
      BY <1>3
    <2>2. PICK y \in 0 .. h - 1, x \in 0 .. w - 1 : y = i - s.r_position_ /\ x = j - s.c_position_
      BY <1>4, <2>1
    <2>3. y * w + x \in 0 .. w * h - 1
      BY <2>1, <2>2, CellInside
    <2>4. QED
      BY <2>1, <2>2, <2>3
  <1>6. at \in Nat /\ at < b.width * b.rows
    <2> HIDE DEF at
    <2>1. b.width * b.rows \in Int
      BY <1>3
    <2>2. QED
      BY <1>5, <2>1
  <1> HIDE DEF at
  <1>7. Legible(<< s.bitmap, at >>)
    BY <1>2, <1>6 DEF Legible
  <1>8. QED
    BY <1>6, <1>7 DEF at


\* The merged layer, place by place: the highest of the slots that want it.
LEMMA MergedAt ==
    ASSUME SlotsOK, AllPlaced, NEW i \in 0 .. ImgHeight - 1, NEW j \in 0 .. ImgWidth - 1
    PROVE  /\ i * ImgWidth + j \in Pixels
           /\ Merged[i * ImgWidth + j] = IF Wanting(i, j) = {} THEN Blank ELSE Showing(i, j)
           /\ Legible(Merged[i * ImgWidth + j])
  <1> USE OsdAssumption, ImageAssumption
  <1> DEFINE k == i * ImgWidth + j
             on == {n \in Slots : \E p \in Copied(fontAttr_array_[n]) : p[1] = k}
             top == fontAttr_array_[Max(on)]
             there == {q \in Copied(top) : q[1] = k}
  <1>1. k \in Pixels
    BY CellInside DEF Pixels
  <1>2. Merged[k] = IF on = {} THEN Blank ELSE << top.bitmap, Max({p[2] : p \in there}) >>
    BY <1>1 DEF Merged
  <1>3. on = Wanting(i, j)
    <2>1. ASSUME NEW n PROVE n \in on <=> n \in Wanting(i, j)
      <3>1. CASE n \in Slots
        <4>1. ASSUME NEW p
              PROVE  (p \in Copied(fontAttr_array_[n]) /\ p[1] = k)
                     <=> /\ Wants(fontAttr_array_[n], i, j)
                         /\ p = << k, (i - fontAttr_array_[n].r_position_)
                                        * made[fontAttr_array_[n].bitmap].width
                                      + (j - fontAttr_array_[n].c_position_) >>
          BY <3>1, StoresWhatItWants DEF AllPlaced
        <4>2. (\E p \in Copied(fontAttr_array_[n]) : p[1] = k) <=> Wants(fontAttr_array_[n], i, j)
          <5> HIDE DEF k
          <5>1. QED
            BY <4>1
        <4>3. n \in DOMAIN fontAttr_array_
          BY <3>1 DEF Slots
        <4>4. QED
          BY <3>1, <4>2, <4>3 DEF Wanting
      <3>2. CASE n \notin Slots
        BY <3>2 DEF Wanting, Wants, Slots
      <3>3. QED
        BY <3>1, <3>2
    <2> HIDE DEF on
    <2>2. QED
      BY <2>1
  <1>4. CASE on = {}
    BY <1>1, <1>2, <1>3, <1>4 DEF Legible
  <1>5. CASE on # {}
    <2>1. on \in SUBSET (0 .. FONT_ARRAY_SIZE - 1) /\ on \subseteq Slots
      BY DEF SlotsOK, Slots
    <2>2. Max(on) \in on
      BY <1>5, <2>1, MaxIsThere
    <2>3. Max(on) \in Slots /\ Wants(top, i, j)
      BY <1>3, <2>1, <2>2 DEF Wanting
    <2> DEFINE at == (i - top.r_position_) * made[top.bitmap].width + (j - top.c_position_)
    <2>4. at \in Nat /\ Legible(<< top.bitmap, at >>)
      <3>1. i \in Int /\ j \in Int
        OBVIOUS
      <3> DEFINE n == Max(on)
      <3>2. n \in Slots /\ Wants(fontAttr_array_[n], i, j)
        BY <2>3
      <3> HIDE DEF n
      <3>3. LET s == fontAttr_array_[n]
                m == (i - s.r_position_) * made[s.bitmap].width + (j - s.c_position_)
            IN  Legible(<< s.bitmap, m >>) /\ m \in Nat
        BY <3>1, <3>2, ShownIsLegible
      <3>4. QED
        BY <3>3 DEF n
    <2>5. {p[2] : p \in there} = {at}
      <3>1. ASSUME NEW p PROVE p \in there <=> p = << k, at >>
        BY <2>3, StoresWhatItWants DEF AllPlaced
      <3> HIDE DEF there, at, k
      <3>2. << k, at >> \in there /\ \A p \in there : p[2] = at
        BY <3>1
      <3>3. << k, at >>[2] = at
        OBVIOUS
      <3> DEFINE cells == {p[2] : p \in there}
      <3>4. at \in cells /\ \A x \in cells : x = at
        BY <3>2, <3>3
      <3> HIDE DEF cells
      <3>5. cells = {at}
        BY <3>4
      <3>6. QED
        BY <3>5 DEF cells
    <2>6. Max({p[2] : p \in there}) = at
      <3> HIDE DEF at, there
      <3>1. at \in Int /\ Max({at}) = at
        BY <2>4, MaxOfOne
      <3>2. QED
        BY <2>5, <3>1
    <2> HIDE DEF there
    <2>7. Merged[k] = << top.bitmap, at >>
      BY <1>2, <1>5, <2>6
    <2>8. << top.bitmap, at >> = Showing(i, j)
      BY <1>3 DEF Showing
    <2>9. QED
      BY <1>1, <1>3, <1>5, <2>4, <2>7, <2>8
  <1>6. QED
    BY <1>4, <1>5

\* What copyBitmapToImage reads is inside the bitmap, wherever the slot stands.
LEMMA ReadsInBitmap ==
    ASSUME NEW s,
           s.r_position_ \in Int, s.c_position_ \in Int,
           s.font_rows_ \in Nat, s.font_width_ \in Nat,
           NEW p \in Copied(s)
    PROVE  p[2] \in 0 .. s.font_width_ * s.font_rows_ - 1
  <1> USE OsdAssumption, ImageAssumption
  <1> DEFINE r == s.r_position_
             c == s.c_position_
             h == s.font_rows_
             w == s.font_width_
             rows == r .. Min({r + h, ImgHeight}) - 1
             cols == c .. Min({c + w, ImgWidth}) - 1
             place(row, col) == << row * ImgWidth + col, (row - r) * w + (col - c) >>
  <1>1. Copied(s) = {place(row, col) : row \in rows, col \in cols}
    BY DEF Copied
  <1>2. r \in Int /\ c \in Int /\ h \in Nat /\ w \in Nat /\ ImgHeight \in Nat /\ ImgWidth \in Nat
    OBVIOUS
  <1> HIDE DEF r, c, h, w
  <1>3. PICK row \in rows, col \in cols : p = place(row, col)
    <2> HIDE DEF rows, cols, place
    <2>1. QED
      BY <1>1
  <1>4. row - r \in 0 .. h - 1
    <2>1. Min({r + h, ImgHeight}) <= r + h /\ Min({r + h, ImgHeight}) \in Int
      BY <1>2, MinOfTwo
    <2>2. QED
      BY <1>2, <2>1
  <1>5. col - c \in 0 .. w - 1
    <2>1. Min({c + w, ImgWidth}) <= c + w /\ Min({c + w, ImgWidth}) \in Int
      BY <1>2, MinOfTwo
    <2>2. QED
      BY <1>2, <2>1
  <1> HIDE DEF rows, cols
  <1>6. (row - r) * w + (col - c) \in 0 .. w * h - 1
    BY <1>2, <1>4, <1>5, CellInside
  <1>7. p[2] = (row - r) * w + (col - c)
    BY <1>3
  <1>8. QED
    BY <1>6, <1>7 DEF h, w

\* A bitmap cut to smaller sizes has no more pixels.
LEMMA CutIsSmaller ==
    ASSUME NEW w \in Nat, NEW h \in Nat, NEW v \in 0 .. w, NEW g \in 0 .. h
    PROVE  v * g \in Nat /\ w * h \in Nat /\ v * g <= w * h
  <1>1. v * g \in Nat /\ w * h \in Nat /\ w * g \in Nat
    BY SMT
  <1>2. v * g <= w * g
    BY SMT
  <1>3. w * g <= w * h
    BY SMT
  <1>4. QED
    BY <1>1, <1>2, <1>3

\* Each pixel of the merged layer is a pixel of a bitmap or blank, wherever the
\* slots stand: where one stores twice, the last of the two stays.
LEMMA MergedLegible ==
    ASSUME SlotsOK, NEW k \in Pixels
    PROVE  Legible(Merged[k])
  <1> USE OsdAssumption, ImageAssumption
  <1> DEFINE on == {n \in Slots : \E p \in Copied(fontAttr_array_[n]) : p[1] = k}
             top == fontAttr_array_[Max(on)]
             there == {q \in Copied(top) : q[1] = k}
             read == {p[2] : p \in there}
             b == made[top.bitmap]
  <1>1. Merged[k] = IF on = {} THEN Blank ELSE << top.bitmap, Max(read) >>
    BY DEF Merged
  <1>2. CASE on = {}
    BY <1>1, <1>2 DEF Legible
  <1>3. CASE on # {}
    <2>1. on \in SUBSET (0 .. FONT_ARRAY_SIZE - 1)
      BY DEF SlotsOK, Slots
    <2>2. Max(on) \in on
      BY <1>3, <2>1, MaxIsThere
    <2>3. SlotOK(top) /\ \E p \in Copied(top) : p[1] = k
      BY <2>2 DEF SlotsOK
    <2>4. top.bitmap \in 1 .. creates /\ b \in [width : Nat, rows : Nat]
      <3> HIDE DEF on, top
      <3>1. /\ made \in [1 .. MaxCreates -> [width : Nat, rows : Nat]]
            /\ creates \in 0 .. MaxCreates
        BY DEF SlotsOK
      <3>2. top.bitmap \in 1 .. creates
        BY <2>3 DEF SlotOK
      <3>3. QED
        BY <3>1, <3>2
    <2>5. /\ top.r_position_ \in Int /\ top.c_position_ \in Int
          /\ top.font_rows_ \in Nat /\ top.font_width_ \in Nat
          /\ b.width \in Nat /\ b.rows \in Nat
          /\ top.font_width_ <= b.width /\ top.font_rows_ <= b.rows
      BY <2>3, <2>4 DEF SlotOK
    <2> HIDE DEF on, top
    <2>6. PICK n \in Nat : n = top.font_width_ * top.font_rows_
      BY <2>5
    <2>7. \A p \in there : p[2] \in 0 .. n - 1
      BY <2>5, <2>6, ReadsInBitmap
    <2>8. read \in SUBSET (0 .. n - 1) /\ read # {}
      BY <2>3, <2>7
    <2> HIDE DEF there, read
    <2>9. Max(read) \in 0 .. n - 1
      BY <2>8, MaxIsThere
    <2>10. n <= b.width * b.rows /\ b.width * b.rows \in Nat
      <3> HIDE DEF b
      <3>1. top.font_width_ \in 0 .. b.width /\ top.font_rows_ \in 0 .. b.rows
        BY <2>5
      <3>2. QED
        BY <2>5, <2>6, <3>1, CutIsSmaller
    <2>11. Max(read) \in Nat /\ Max(read) < b.width * b.rows
      <3> HIDE DEF b
      <3>1. QED
        BY <2>9, <2>10
    <2>12. QED
      BY <1>1, <1>3, <2>4, <2>11 DEF Legible
  <1>4. QED
    BY <1>2, <1>3


-----------------------------------------------------------------------------
\* The invariant at the start: no slot is in use, the picture is as copied in.
LEMMA OInvInit == Init => OInv
  <1> SUFFICES ASSUME Init PROVE OInv
    OBVIOUS
  <1> USE OsdAssumption, ImageAssumption DEF Init
  <1>1. SlotsOK
    <2>1. Slots = {}
      BY DEF Slots, Unused
    <2>2. QED
      BY <2>1 DEF SlotsOK
  <1>2. \A k \in Pixels : Legible(all_font_buffer_[k])
    BY DEF Legible
  <1>3. \A k \in Pixels : image_buffer_[k].swapped \in BOOLEAN
    BY DEF Original
  <1>4. QED
    BY <1>1, <1>2, <1>3 DEF OInv

\* Copying the picture in wipes the text of the turn before.
LEMMA OInvLoad == OInv /\ Load => OInv'
  <1> SUFFICES ASSUME OInv, Load PROVE OInv'
    OBVIOUS
  <1> USE DEF Load
  <1>1. SlotsOK'
    BY DEF OInv, SlotsOK, SlotOK, Slots
  <1>2. (\A k \in Pixels : Legible(all_font_buffer_[k]))'
    BY DEF OInv, Legible
  <1>3. (\A k \in Pixels : image_buffer_[k].swapped \in BOOLEAN)'
    BY DEF Original
  <1>4. pc' = "fill" /\ image_buffer_' = [k \in Pixels |-> Original]
    OBVIOUS
  <1>5. QED
    BY <1>1, <1>2, <1>3, <1>4 DEF OInv

\* Making a bitmap and filling a slot with it leaves the other slots and the
\* bitmaps made before as they were.
LEMMA OInvCreate == OInv /\ create_font_add_array => OInv'
  <1> SUFFICES ASSUME OInv, create_font_add_array PROVE OInv'
    OBVIOUS
  <1> USE OsdAssumption, ImageAssumption
  <1> DEFINE cut(b, n, limit) == IF b.kind = "custom" /\ n > limit THEN limit ELSE n
             filled(b, r, c) == [used_ |-> TRUE, bitmap |-> creates + 1,
                                 font_width_ |-> cut(b, b.width, ImgWidth),
                                 font_rows_ |-> cut(b, b.rows, ImgHeight),
                                 r_position_ |-> r, c_position_ |-> c]
  <1>1. /\ pc = "fill" /\ creates < MaxCreates /\ creates' = creates + 1
        /\ UNCHANGED << all_font_buffer_, image_buffer_ >>
    BY DEF create_font_add_array
  <1>2. PICK id \in Ids, b \in Bitmaps, r \in Rows, c \in Columns :
             /\ made' = [made EXCEPT ![creates + 1] = [width |-> b.width, rows |-> b.rows]]
             /\ IF id \in DOMAIN fontAttr_array_
                THEN /\ fontAttr_array_' = [fontAttr_array_ EXCEPT ![id] = filled(b, r, c)]
                     /\ UNCHANGED pc
                ELSE pc' = "noSlot" /\ UNCHANGED fontAttr_array_
    BY DEF create_font_add_array
  <1>3. SlotsOK
    BY DEF OInv
  <1>4. b.width \in Nat /\ b.rows \in Nat /\ r \in Int /\ c \in Int
    BY <1>2
  <1> DEFINE meant == [width |-> b.width, rows |-> b.rows]
             s == filled(b, r, c)
  <1>5. /\ meant \in [width : Nat, rows : Nat]
        /\ meant.width = b.width /\ meant.rows = b.rows
    BY <1>4
  <1>6. /\ s.used_ /\ s.bitmap = creates + 1
        /\ s.font_width_ = cut(b, b.width, ImgWidth)
        /\ s.font_rows_ = cut(b, b.rows, ImgHeight)
        /\ s.r_position_ = r /\ s.c_position_ = c
    OBVIOUS
  <1>7. /\ s.font_width_ \in Nat /\ s.font_width_ <= b.width
        /\ s.font_rows_ \in Nat /\ s.font_rows_ <= b.rows
        /\ s.font_rows_ \in {b.rows, ImgHeight}
    BY <1>4, <1>6
  <1> HIDE DEF meant, s
  <1>8. /\ creates \in 0 .. MaxCreates /\ creates + 1 \in 1 .. MaxCreates
        /\ creates' \in 0 .. MaxCreates
        /\ made \in [1 .. MaxCreates -> [width : Nat, rows : Nat]]
        /\ made' = [made EXCEPT ![creates + 1] = meant]
    BY <1>1, <1>2, <1>3 DEF SlotsOK, meant
  <1>9. /\ made' \in [1 .. MaxCreates -> [width : Nat, rows : Nat]]
        /\ made'[creates + 1] = meant
        /\ \A n \in 1 .. creates : made'[n] = made[n]
    BY <1>5, <1>8
  <1>10. ASSUME NEW n \in Slots, fontAttr_array_'[n] = fontAttr_array_[n]
         PROVE  SlotOK(fontAttr_array_[n])'
    <2>1. SlotOK(fontAttr_array_[n]) /\ fontAttr_array_[n].bitmap \in 1 .. creates
      BY <1>3 DEF SlotsOK, SlotOK
    <2>2. fontAttr_array_[n].bitmap \in 1 .. creates'
      BY <1>1, <1>8, <2>1
    <2>3. made'[fontAttr_array_[n].bitmap] = made[fontAttr_array_[n].bitmap]
      BY <1>9, <2>1
    <2>4. QED
      BY <1>10, <2>1, <2>2, <2>3 DEF SlotOK
  <1>11. SlotsOK' /\ pc' \in {"fill", "noSlot"}
    <2>1. CASE id \notin DOMAIN fontAttr_array_
      <3>1. UNCHANGED fontAttr_array_ /\ Slots' = Slots /\ pc' = "noSlot"
        BY <1>2, <2>1 DEF Slots
      <3>2. \A n \in Slots' : SlotOK(fontAttr_array_[n])'
        BY <1>10, <3>1
      <3>3. QED
        BY <1>3, <1>8, <1>9, <3>1, <3>2 DEF SlotsOK
    <2>2. CASE id \in DOMAIN fontAttr_array_
      <3>1. /\ DOMAIN fontAttr_array_' = 0 .. FONT_ARRAY_SIZE - 1
            /\ fontAttr_array_'[id] = s /\ pc' = "fill"
            /\ \A n \in 0 .. FONT_ARRAY_SIZE - 1 : n # id => fontAttr_array_'[n] = fontAttr_array_[n]
        BY <1>1, <1>2, <1>3, <2>2 DEF SlotsOK, s
      <3>2. ASSUME NEW n \in Slots' PROVE SlotOK(fontAttr_array_[n])'
        <4>1. n \in 0 .. FONT_ARRAY_SIZE - 1 /\ fontAttr_array_'[n].used_
          BY <3>1 DEF Slots
        <4>2. CASE n = id
          <5>1. fontAttr_array_'[n] = s /\ made'[s.bitmap] = meant /\ s.bitmap \in 1 .. creates'
            BY <1>1, <1>6, <1>8, <1>9, <3>1, <4>2
          <5>2. QED
            BY <1>4, <1>5, <1>6, <1>7, <5>1 DEF SlotOK
        <4>3. CASE n # id
          <5>1. fontAttr_array_'[n] = fontAttr_array_[n] /\ n \in Slots
            BY <1>3, <3>1, <4>1, <4>3 DEF Slots, SlotsOK
          <5>2. QED
            BY <1>10, <5>1
        <4>4. QED
          BY <4>2, <4>3
      <3>3. QED
        BY <1>8, <1>9, <3>1, <3>2 DEF SlotsOK
    <2>3. QED
      BY <2>1, <2>2
  <1>12. ASSUME NEW k \in Pixels PROVE Legible(all_font_buffer_[k])'
    <2>1. all_font_buffer_'[k] = all_font_buffer_[k] /\ Legible(all_font_buffer_[k])
      BY <1>1 DEF OInv
    <2> DEFINE x == all_font_buffer_[k]
    <2>2. CASE x = Blank
      BY <2>1, <2>2 DEF Legible
    <2>3. CASE x # Blank
      <3>1. x[1] \in 1 .. creates /\ x[2] \in Nat /\ x[2] < made[x[1]].width * made[x[1]].rows
        BY <2>1, <2>3 DEF Legible
      <3>2. x[1] \in 1 .. creates' /\ made'[x[1]] = made[x[1]]
        <4> HIDE DEF x
        <4>1. x[1] \in 1 .. creates
          BY <3>1
        <4>2. x[1] \in 1 .. creates'
          BY <1>1, <1>8, <4>1
        <4>3. QED
          BY <1>9, <4>1, <4>2
      <3>3. QED
        BY <2>1, <3>1, <3>2 DEF Legible
    <2>4. QED
      BY <2>2, <2>3
  <1>13. /\ \A k \in Pixels : image_buffer_'[k].swapped \in BOOLEAN
         /\ image_buffer_' = [k \in Pixels |-> Original]
    BY <1>1 DEF OInv
  <1>14. QED
    BY <1>11, <1>12, <1>13 DEF OInv

\* Merging and showing: every store is inside the layer unless a slot is above
\* or left of the image, and each pixel gets the text of the layer over a
\* picture whose channels were not swapped yet.
LEMMA OInvProcess == OInv /\ process_font => OInv'
  <1> SUFFICES ASSUME OInv, process_font PROVE OInv'
    OBVIOUS
  <1>1. /\ pc = "fill" /\ SlotsOK
        /\ UNCHANGED << fontAttr_array_, made, creates >>
        /\ image_buffer_ = [k \in Pixels |-> Original]
    BY DEF OInv, process_font
  <1>2. ASSUME NEW i \in Slots, NEW p \in Copied(fontAttr_array_[i]), p[1] \notin Pixels
        PROVE  fontAttr_array_[i].r_position_ < 0 \/ fontAttr_array_[i].c_position_ < 0
    <2> DEFINE s == fontAttr_array_[i]
    <2>1. SlotOK(s)
      BY <1>1 DEF SlotsOK
    <2>2. /\ s.r_position_ \in Int /\ s.c_position_ \in Int
          /\ s.font_rows_ \in Nat /\ s.font_width_ \in Nat
      BY <2>1 DEF SlotOK
    <2> HIDE DEF s
    <2>3. p \in Copied(s)
      BY DEF s
    <2>4. ~(s.r_position_ \in Nat /\ s.c_position_ \in Nat)
      BY <1>2, <2>2, <2>3, StaysInImage
    <2>5. s.r_position_ < 0 \/ s.c_position_ < 0
      BY <2>2, <2>4
    <2>6. QED
      BY <2>5 DEF s
  <1>3. \/ /\ pc' = "offLayer" /\ UNCHANGED << all_font_buffer_, image_buffer_ >>
           /\ \E i \in Slots : \/ fontAttr_array_[i].r_position_ < 0
                               \/ fontAttr_array_[i].c_position_ < 0
        \/ all_font_buffer_' = Merged /\ image_buffer_' = render_text(Merged) /\ pc' = "shown"
    BY <1>2 DEF process_font
  <1>4. SlotsOK'
    BY <1>1 DEF SlotsOK, SlotOK, Slots
  <1>5. Slots' = Slots /\ Merged' = Merged
    BY <1>1 DEF Merged, Slots, Copied
  <1>6. CASE pc' = "offLayer"
    <2>1. UNCHANGED << all_font_buffer_, image_buffer_, fontAttr_array_, made, creates >>
      BY <1>1, <1>3, <1>6
    <2>2. /\ \A k \in Pixels : Legible(all_font_buffer_[k])'
          /\ \A k \in Pixels : image_buffer_'[k].swapped \in BOOLEAN
      BY <2>1 DEF OInv, Legible
    <2>3. (\E i \in Slots : \/ fontAttr_array_[i].r_position_ < 0
                            \/ fontAttr_array_[i].c_position_ < 0)'
      BY <1>3, <1>5, <1>6, <2>1
    <2>4. QED
      BY <1>4, <1>6, <2>2, <2>3 DEF OInv
  <1>7. CASE pc' # "offLayer"
    <2>1. all_font_buffer_' = Merged /\ image_buffer_' = render_text(Merged) /\ pc' = "shown"
      BY <1>3, <1>7
    <2>2. ASSUME NEW k \in Pixels PROVE Legible(all_font_buffer_[k])'
      <3>1. Legible(Merged[k])
        BY <1>1, MergedLegible
      <3>2. all_font_buffer_'[k] = Merged[k]
        BY <2>1
      <3>3. QED
        BY <1>1, <3>1, <3>2 DEF Legible
    <2>3. ASSUME NEW k \in Pixels
          PROVE  image_buffer_'[k] = Rendered(k) /\ image_buffer_'[k].swapped \in BOOLEAN
      <3>1. image_buffer_[k].swapped = FALSE /\ image_buffer_[k].text = Blank
        BY <1>1 DEF Original
      <3>2. QED
        BY <2>1, <3>1 DEF render_text, Rendered
    <2>4. ASSUME NEW k \in Pixels PROVE Rendered(k)' = Rendered(k)
      BY <1>5 DEF Rendered
    <2>5. QED
      BY <1>4, <2>1, <2>2, <2>3, <2>4 DEF OInv
  <1>8. QED
    BY <1>6, <1>7

LEMMA OInvStutter == OInv /\ UNCHANGED vars => OInv'
  <1> SUFFICES ASSUME OInv, UNCHANGED vars PROVE OInv'
    OBVIOUS
  <1> USE DEF vars
  <1>1. SlotsOK'
    BY DEF OInv, SlotsOK, SlotOK, Slots
  <1>2. (\A k \in Pixels : Legible(all_font_buffer_[k]))'
    BY DEF OInv, Legible
  <1>3. ASSUME NEW k \in Pixels PROVE Rendered(k)' = Rendered(k)
    BY DEF Rendered, Merged, Slots, Copied
  <1>4. Slots' = Slots
    BY DEF Slots
  <1>5. QED
    BY <1>1, <1>2, <1>3, <1>4 DEF OInv

LEMMA OInvAlways == Spec => []OInv
  <1>1. OInv /\ [Next]_vars => OInv'
    BY OInvLoad, OInvCreate, OInvProcess, OInvStutter DEF Next
  <1>2. QED
    BY <1>1, OInvInit, PTL DEF Spec

-----------------------------------------------------------------------------
\* copyBitmapToImage stores outside the layer only when a slot stands above or
\* left of the image, and every pixel of the layer is a pixel of a bitmap that
\* was made, whatever is filled in what order, wherever it stands and however
\* large it is (create_font_add_array, copyBitmapToImage and process_font of
\* COSD_OpenCL).  A fill of a slot that does not exist ends the behaviour: it is
\* claimed of nothing.
THEOREM StaysInside == Spec => []OsdTypeOK
  <1>1. OInv => OsdTypeOK
    <2> SUFFICES ASSUME OInv PROVE OsdTypeOK
      OBVIOUS
    <2>1. ASSUME NEW k \in Pixels, all_font_buffer_[k] # Blank
          PROVE  /\ all_font_buffer_[k][1] <= creates
                 /\ all_font_buffer_[k][2]
                      < made[all_font_buffer_[k][1]].width * made[all_font_buffer_[k][1]].rows
      <3>1. /\ all_font_buffer_[k][1] \in 1 .. creates
            /\ all_font_buffer_[k][2]
                 < made[all_font_buffer_[k][1]].width * made[all_font_buffer_[k][1]].rows
        BY <2>1 DEF OInv, Legible
      <3>2. QED
        BY <3>1
    <2>2. \A i \in Slots : fontAttr_array_[i].bitmap \in 1 .. creates
      BY DEF OInv, SlotsOK, SlotOK
    <2>3. QED
      BY <2>1, <2>2 DEF OInv, OsdTypeOK
  <1>2. QED
    BY <1>1, OInvAlways, PTL

\* After a turn in which no slot stands above or left of the image or has a
\* bitmap wider than it the screen shows what the slots hold: at each place the
\* highest slot that wants it, nothing of what was replaced or moved, whatever
\* the turns before have shown, and the channels swapped once (process_font,
\* copyBitmapToImage, text_render.cl).
THEOREM ScreenShowsTheSlots == Spec => []ShowsTheSlots
  <1>1. OInv => ShowsTheSlots
    <2> SUFFICES ASSUME OInv, pc = "shown", AllPlaced,
                        NEW i \in 0 .. ImgHeight - 1, NEW j \in 0 .. ImgWidth - 1
                 PROVE  /\ image_buffer_[i * ImgWidth + j].swapped
                        /\ image_buffer_[i * ImgWidth + j].text
                             = IF Wanting(i, j) = {} THEN Blank
                               ELSE IF Gray(Showing(i, j)) > 0 THEN Showing(i, j) ELSE Blank
      BY DEF ShowsTheSlots, Wanting, Showing, AllPlaced
    <2> DEFINE k == i * ImgWidth + j
    <2>1. k \in Pixels /\ Merged[k] = IF Wanting(i, j) = {} THEN Blank ELSE Showing(i, j)
      BY MergedAt DEF OInv
    <2>2. image_buffer_[k] = Rendered(k)
      BY <2>1 DEF OInv
    <2>3. image_buffer_[k].swapped
          /\ image_buffer_[k].text = IF Gray(Merged[k]) > 0 THEN Merged[k] ELSE Blank
      BY <2>2 DEF Rendered
    <2>4. ~(Gray(Blank) > 0)
      BY DEF Gray
    <2>5. QED
      BY <2>1, <2>3, <2>4
  <1>2. QED
    BY <1>1, OInvAlways, PTL

-----------------------------------------------------------------------------
LEMMA ClampRange ==
    ASSUME NEW n \in Int, NEW limit \in Nat
    PROVE  Clamp(n, limit) \in 0 .. limit /\ (n \in 0 .. limit => Clamp(n, limit) = n)
  BY DEF Clamp

\* The size of what a call draws is within the image.
LEMMA SizesFit ==
    ASSUME request \in Requests
    PROVE  /\ request.width \in Int /\ request.height \in Int
           /\ Clamp(request.width, ImgWidth) \in 0 .. ImgWidth
           /\ Clamp(request.height, ImgHeight) \in 0 .. ImgHeight
           /\ Clamp(request.width, ImgWidth) \in Nat /\ Clamp(request.height, ImgHeight) \in Nat
           /\ request.width \in 0 .. ImgWidth => Clamp(request.width, ImgWidth) = request.width
  <1>1. /\ request.width \in Int /\ request.height \in Int
        /\ ImgWidth \in Nat /\ ImgHeight \in Nat
    BY ShapesAssumption, ImageAssumption
  <1>2. /\ Clamp(request.width, ImgWidth) \in 0 .. ImgWidth
        /\ Clamp(request.height, ImgHeight) \in 0 .. ImgHeight
        /\ request.width \in 0 .. ImgWidth => Clamp(request.width, ImgWidth) = request.width
    BY <1>1, ClampRange
  <1>3. \A n \in Nat : \A x \in 0 .. n : x \in Nat
    OBVIOUS
  <1>4. QED
    BY <1>1, <1>2, <1>3

LEMMA FlatInside ==
    ASSUME NEW w \in Nat, NEW h \in Nat, NEW cells \in SUBSET Grid(w, h)
    PROVE  Flat(w, cells) \subseteq 0 .. w * h - 1
  <1> SUFFICES ASSUME NEW x \in cells PROVE At(w, x) \in 0 .. w * h - 1
    BY DEF Flat
  <1>1. x[1] \in 0 .. h - 1 /\ x[2] \in 0 .. w - 1
    BY DEF Grid
  <1>2. QED
    BY <1>1, CellInside DEF At

LEMMA BufferInside ==
    ASSUME NEW w, NEW h, NEW stores, DOMAIN stores \subseteq 0 .. w * h - 1
    PROVE  Buffer(w, h, stores).outside = {} /\ ~Buffer(w, h, stores).crash
  <1>1. DOMAIN stores \ (0 .. w * h - 1) = {}
    OBVIOUS
  <1>2. ~Buffer(w, h, stores).crash
    BY DEF Buffer
  <1>3. Buffer(w, h, stores).outside = {}
    BY <1>1 DEF Buffer
  <1>4. QED
    BY <1>2, <1>3

\* What is stored beside the columns a to b of some rows is in those rows, when
\* there is a column on either side.
LEMMA BesideInside ==
    ASSUME NEW w \in Nat, NEW h \in Nat, NEW cells \in SUBSET Grid(w, h),
           \A x \in cells : x[2] > 0 /\ x[2] < w - 1
    PROVE  Beside(cells) \in SUBSET Grid(w, h)
  <1> SUFFICES ASSUME NEW y \in Beside(cells) PROVE y \in Grid(w, h)
    OBVIOUS
  <1>0. PICK x \in cells, d \in {-1, 0, 1} : y = <<x[1], x[2] + d>>
    BY DEF Beside
  <1>1. x[1] \in 0 .. h - 1 /\ x[2] \in 0 .. w - 1 /\ x[2] > 0 /\ x[2] < w - 1
    BY DEF Grid
  <1>2. x[2] + d \in 0 .. w - 1
    BY <1>1
  <1>3. QED
    BY <1>0, <1>1, <1>2 DEF Grid

\* The middle line of a rule has a column on either side.
LEMMA MiddleInside ==
    ASSUME NEW w \in Nat, NEW j \in 0 .. w - 1, w >= 8, Middle(w, j)
    PROVE  j > 0 /\ j < w - 1
  BY DEF Middle

\* Every rule asked for has room for its middle line and for its parts, or has
\* no columns at all.
RulesFit ==
    \A r \in Requests : r.shape = "rule" =>
        LET w == Clamp(r.width, ImgWidth)
        IN  w = 0 \/ (w >= 8 /\ w >= 2 * r.parts)

LEMMA RuleInside ==
    ASSUME RulesFit, request \in Requests, draw_yaw_rule
    PROVE  buf'.outside = {} /\ ~buf'.crash
  <1> DEFINE w == Clamp(request.width, ImgWidth)
             h == Clamp(request.height, ImgHeight)
             parts == IF request.parts <= 0 THEN 2 ELSE request.parts
             part_width == (w \div 2) \div parts
             sides == {x \in Grid(w, h) : x[2] <= 2 \/ x[2] >= w - 3 \/ x[1] >= h - 3}
             middle == {x \in Grid(w, h) : Middle(w, x[2])}
             ticks == IF parts = 1 THEN {}
                      ELSE {x \in Grid(w, h) : x[2] % part_width = 0 /\ x[2] \notin {0, w - 1}}
             cells == Flat(w, sides \cup Beside(middle)) \cup {k \in Flat(w, Beside(ticks)) : k < w * h}
  <1>1. request.parts \in Int /\ w \in Nat /\ h \in Nat /\ (w = 0 \/ (w >= 8 /\ w >= 2 * request.parts))
    <2>1. /\ request.shape = "rule" /\ request.parts \in Int /\ request.width \in Int
          /\ request.height \in Int /\ ImgWidth \in Nat /\ ImgHeight \in Nat
      BY ShapesAssumption, ImageAssumption, SizesFit DEF draw_yaw_rule
    <2>2. w \in Nat /\ h \in Nat
      BY SizesFit
    <2>3. w = 0 \/ (w >= 8 /\ w >= 2 * request.parts)
      BY <2>1 DEF RulesFit
    <2>4. QED
      BY <2>1, <2>2, <2>3
  <1>2. buf' = IF parts > 1 /\ part_width = 0 /\ w * h > 0
               THEN [NotDrawn EXCEPT !.crash = TRUE]
               ELSE Buffer(w, h, [k \in cells |-> 255])
    BY DEF draw_yaw_rule
  <1>3. parts \in Nat \ {0} /\ (w = 0 \/ (w >= 8 /\ w >= 2 * parts))
    BY <1>1
  <1> HIDE DEF w, h, parts
  <1>4. w = 0 \/ part_width # 0
    <2>1. CASE w >= 8 /\ w >= 2 * parts
      <3>1. w \div 2 >= parts /\ w \div 2 \in Nat
        BY <1>1, <1>3, <2>1
      <3>2. (w \div 2) \div parts # 0
        BY <1>3, <3>1, SMT
      <3>3. QED
        BY <3>2
    <2>2. QED
      BY <1>3, <2>1
  <1> HIDE DEF part_width
  <1>5. sides \cup Beside(middle) \in SUBSET Grid(w, h)
    <2>1. sides \in SUBSET Grid(w, h) /\ middle \in SUBSET Grid(w, h)
      OBVIOUS
    <2>2. \A x \in middle : x[2] > 0 /\ x[2] < w - 1
      <3>1. ASSUME NEW x \in middle PROVE x[2] > 0 /\ x[2] < w - 1
        <4>1. x[2] \in 0 .. w - 1 /\ Middle(w, x[2])
          BY DEF Grid
        <4>2. w >= 8
          BY <1>1, <1>3, <4>1
        <4>3. QED
          BY <1>1, <4>1, <4>2, MiddleInside
      <3>2. QED
        BY <3>1
    <2> HIDE DEF middle, sides
    <2>3. Beside(middle) \in SUBSET Grid(w, h)
      BY <1>1, <2>1, <2>2, BesideInside
    <2>4. QED
      BY <2>1, <2>3
  <1>6. Beside(ticks) \in SUBSET Grid(w, h)
    <2>1. ticks \in SUBSET Grid(w, h)
      OBVIOUS
    <2>2. \A x \in ticks : x[2] > 0 /\ x[2] < w - 1
      <3>1. ASSUME NEW x \in ticks PROVE x[2] > 0 /\ x[2] < w - 1
        <4>1. x[2] \in 0 .. w - 1 /\ x[2] \notin {0, w - 1}
          BY DEF Grid
        <4>2. QED
          BY <1>1, <4>1
      <3>2. QED
        BY <3>1
    <2> HIDE DEF ticks
    <2>3. QED
      BY <1>1, <2>1, <2>2, BesideInside
  <1>7. cells \subseteq 0 .. w * h - 1
    <2> HIDE DEF sides, middle, ticks
    <2>1. Flat(w, sides \cup Beside(middle)) \subseteq 0 .. w * h - 1
      BY <1>1, <1>5, FlatInside
    <2>2. Flat(w, Beside(ticks)) \subseteq 0 .. w * h - 1
      BY <1>1, <1>6, FlatInside
    <2>3. QED
      BY <2>1, <2>2
  <1> HIDE DEF cells
  <1>8. ~(part_width = 0 /\ w * h > 0)
    <2>1. w = 0 => w * h = 0
      BY <1>1
    <2>2. QED
      BY <1>4, <2>1
  <1> DEFINE stores == [k \in cells |-> 255]
  <1>9. buf' = Buffer(w, h, stores) /\ DOMAIN stores = cells
    BY <1>2, <1>8
  <1> HIDE DEF stores
  <1>10. QED
    BY <1>7, <1>9, BufferInside

LEMMA CrossInside ==
    ASSUME request \in Requests, draw_cross
    PROVE  buf'.outside = {} /\ ~buf'.crash
  <1> DEFINE w == Clamp(request.width, ImgWidth)
             h == Clamp(request.height, ImgHeight)
             lines == {x \in Grid(w, h) : x[2] = w \div 2 \/ x[1] = h \div 2}
             stores == [k \in Flat(w, lines) |-> 255]
  <1>1. buf' = Buffer(w, h, stores) /\ DOMAIN stores = Flat(w, lines)
    BY DEF draw_cross
  <1>2. w \in Nat /\ h \in Nat
    BY SizesFit
  <1>3. lines \in SUBSET Grid(w, h)
    OBVIOUS
  <1> HIDE DEF w, h, lines, stores
  <1>4. Flat(w, lines) \subseteq 0 .. w * h - 1
    BY <1>2, <1>3, FlatInside
  <1>5. QED
    BY <1>1, <1>4, BufferInside

LEMMA BoxInside ==
    ASSUME request \in Requests, draw_box
    PROVE  buf'.outside = {} /\ ~buf'.crash
  <1> DEFINE w == Clamp(request.width, ImgWidth)
             h == Clamp(request.height, ImgHeight)
             p == IF request.pound <= 0 THEN 0 ELSE request.pound
             ink == {x \in Grid(w, h) : /\ Border(w, h, p, x[1], x[2])
                                        /\ request.type = 1 => ~Gap(w, h, p, x[1], x[2])}
             edge(k) == k \div w \in {0, h - 1} \/ k % w \in {0, w - 1}
             stores == [k \in Flat(w, ink) |-> IF edge(k) THEN 1 ELSE 255]
  <1>1. buf' = Buffer(w, h, stores) /\ DOMAIN stores = Flat(w, ink)
    BY DEF draw_box
  <1>2. w \in Nat /\ h \in Nat
    BY SizesFit
  <1>3. ink \in SUBSET Grid(w, h)
    OBVIOUS
  <1> HIDE DEF w, h, p, ink, stores
  <1>4. Flat(w, ink) \subseteq 0 .. w * h - 1
    BY <1>2, <1>3, FlatInside
  <1>5. QED
    BY <1>1, <1>4, BufferInside

\* No store of draw_cross, draw_box or draw_yaw_rule falls outside the buffer it
\* got from malloc, and no width of a part is zero (COSD_OpenCL.cpp:257-377): for
\* every image, size and thickness, and every rule with room for its parts.
THEOREM StoresStayInside == ASSUME RulesFit PROVE ShapesSpec => []DrawnInside
  <1> DEFINE I == request \in Requests /\ DrawnInside
  <1>1. ShapesInit => I
    BY DEF ShapesInit, NotDrawn, DrawnInside
  <1>2. I /\ [Draw]_shapeVars => I'
    <2> SUFFICES ASSUME I, [Draw]_shapeVars PROVE I'
      OBVIOUS
    <2>1. CASE UNCHANGED shapeVars
      BY <2>1 DEF shapeVars, DrawnInside
    <2>2. CASE Draw
      BY <2>2, RulesFit, CrossInside, BoxInside, RuleInside DEF Draw, DrawnInside
    <2>3. QED
      BY <2>1, <2>2
  <1>3. QED
    BY <1>1, <1>2, PTL DEF ShapesSpec

-----------------------------------------------------------------------------
LEMMA BufferTyped ==
    ASSUME request \in Requests, UNCHANGED request, NEW stores,
           \A k \in DOMAIN stores : stores[k] \in {1, 255},
           buf' = Buffer(Clamp(request.width, ImgWidth), Clamp(request.height, ImgHeight), stores)
    PROVE  ShapesTypeOK'
  <1> DEFINE w == Clamp(request.width, ImgWidth)
             h == Clamp(request.height, ImgHeight)
  <1>1. /\ w \in 0 .. ImgWidth /\ h \in 0 .. ImgHeight
        /\ request.width \in 0 .. ImgWidth => w = request.width
    BY SizesFit
  <1>2. buf' = Buffer(w, h, stores)
    OBVIOUS
  <1> HIDE DEF w, h
  <1>3. buf'.width = w /\ buf'.height = h
    BY <1>2 DEF Buffer
  <1>4. \A k \in 0 .. w * h - 1 : buf'.cells[k] \in {Unset, 1, 255}
    BY <1>2 DEF Buffer
  <1>5. QED
    BY <1>1, <1>3, <1>4 DEF ShapesTypeOK

\* A buffer a call returns is as large as was asked, clamped to the image, and
\* its cells are as malloc left them or one of the two values that are stored.
THEOREM ShapesTypes == ShapesSpec => []ShapesTypeOK
  <1> DEFINE I == request \in Requests /\ ShapesTypeOK
  <1>1. ShapesInit => I
    <2> SUFFICES ASSUME ShapesInit PROVE I
      OBVIOUS
    <2>1. ImgWidth \in Nat /\ ImgHeight \in Nat
      BY ShapesAssumption, ImageAssumption
    <2>2. QED
      BY <2>1 DEF ShapesInit, NotDrawn, ShapesTypeOK
  <1>2. I /\ [Draw]_shapeVars => I'
    <2> SUFFICES ASSUME I, [Draw]_shapeVars PROVE I'
      OBVIOUS
    <2>1. CASE UNCHANGED shapeVars
      BY <2>1 DEF shapeVars, ShapesTypeOK
    <2>2. CASE Draw
      <3> DEFINE w == Clamp(request.width, ImgWidth)
                 h == Clamp(request.height, ImgHeight)
      <3>1. UNCHANGED request
        BY <2>2 DEF Draw
      <3>2. CASE buf' = [NotDrawn EXCEPT !.crash = TRUE]
        <4>1. ImgWidth \in Nat /\ ImgHeight \in Nat
          BY ShapesAssumption, ImageAssumption
        <4>2. /\ buf'.width = 0 /\ buf'.height = 0
          BY <3>2 DEF NotDrawn
        <4>3. \A k \in 0 .. buf'.width * buf'.height - 1 : FALSE
          BY <4>2
        <4>4. QED
          BY <3>1, <4>1, <4>2, <4>3 DEF ShapesTypeOK
      <3>3. CASE \E stores : /\ \A k \in DOMAIN stores : stores[k] \in {1, 255}
                             /\ buf' = Buffer(w, h, stores)
        BY <3>1, <3>3, BufferTyped
      <3>4. \/ buf' = [NotDrawn EXCEPT !.crash = TRUE]
            \/ \E stores : /\ \A k \in DOMAIN stores : stores[k] \in {1, 255}
                           /\ buf' = Buffer(w, h, stores)
        <4>1. CASE draw_cross
          <5> DEFINE lines == {x \in Grid(w, h) : x[2] = w \div 2 \/ x[1] = h \div 2}
                     stores == [k \in Flat(w, lines) |-> 255]
          <5>1. buf' = Buffer(w, h, stores)
            BY <4>1 DEF draw_cross
          <5>2. \A k \in DOMAIN stores : stores[k] \in {1, 255}
            OBVIOUS
          <5> HIDE DEF stores
          <5>3. QED
            BY <5>1, <5>2
        <4>2. CASE draw_box
          <5> DEFINE p == IF request.pound <= 0 THEN 0 ELSE request.pound
                     ink == {x \in Grid(w, h) : /\ Border(w, h, p, x[1], x[2])
                                                /\ request.type = 1 => ~Gap(w, h, p, x[1], x[2])}
                     edge(k) == k \div w \in {0, h - 1} \/ k % w \in {0, w - 1}
                     stores == [k \in Flat(w, ink) |-> IF edge(k) THEN 1 ELSE 255]
          <5>1. buf' = Buffer(w, h, stores)
            BY <4>2 DEF draw_box
          <5>2. \A k \in DOMAIN stores : stores[k] \in {1, 255}
            OBVIOUS
          <5> HIDE DEF stores
          <5>3. QED
            BY <5>1, <5>2
        <4>3. CASE draw_yaw_rule
          <5> DEFINE parts == IF request.parts <= 0 THEN 2 ELSE request.parts
                     part_width == (w \div 2) \div parts
                     sides == {x \in Grid(w, h) : x[2] <= 2 \/ x[2] >= w - 3 \/ x[1] >= h - 3}
                     middle == {x \in Grid(w, h) : Middle(w, x[2])}
                     ticks == IF parts = 1 THEN {}
                              ELSE {x \in Grid(w, h) : x[2] % part_width = 0 /\ x[2] \notin {0, w - 1}}
                     cells == Flat(w, sides \cup Beside(middle)) \cup
                                 {k \in Flat(w, Beside(ticks)) : k < w * h}
                     stores == [k \in cells |-> 255]
          <5>1. buf' = [NotDrawn EXCEPT !.crash = TRUE] \/ buf' = Buffer(w, h, stores)
            BY <4>3 DEF draw_yaw_rule
          <5>2. \A k \in DOMAIN stores : stores[k] \in {1, 255}
            OBVIOUS
          <5> HIDE DEF stores
          <5>3. QED
            BY <5>1, <5>2
        <4>4. QED
          BY <2>2, <4>1, <4>2, <4>3 DEF Draw
      <3>5. QED
        BY <3>1, <3>2, <3>3, <3>4
    <2>3. QED
      BY <2>1, <2>2
  <1>3. QED
    BY <1>1, <1>2, PTL DEF ShapesSpec

-----------------------------------------------------------------------------
Thickness == IF request.pound <= 0 THEN 0 ELSE request.pound

\* What draw_box stores in row i and column j of a solid frame.
Solid(w, h, p, i, j) ==
    IF Border(w, h, p, i, j) THEN (IF i \in {0, h - 1} \/ j \in {0, w - 1} THEN 1 ELSE 255)
    ELSE Unset

LEMMA SolidCells ==
    ASSUME request \in Requests, draw_box, request.type = 0
    PROVE  /\ buf'.width \in Nat /\ buf'.height \in Nat /\ Thickness \in Int
           /\ \A i \in 0 .. buf'.height - 1, j \in 0 .. buf'.width - 1 :
                 buf'.cells[i * buf'.width + j] = Solid(buf'.width, buf'.height, Thickness, i, j)
  <1> DEFINE w == Clamp(request.width, ImgWidth)
             h == Clamp(request.height, ImgHeight)
             p == Thickness
             ink == {x \in Grid(w, h) : /\ Border(w, h, p, x[1], x[2])
                                        /\ request.type = 1 => ~Gap(w, h, p, x[1], x[2])}
             edge(k) == k \div w \in {0, h - 1} \/ k % w \in {0, w - 1}
             stores == [k \in Flat(w, ink) |-> IF edge(k) THEN 1 ELSE 255]
  <1>1. buf' = Buffer(w, h, stores)
    BY DEF draw_box, Thickness
  <1>2. w \in Nat /\ h \in Nat
    BY SizesFit
  <1>3. p \in Int
    BY ShapesAssumption, ImageAssumption DEF draw_box, Thickness
  <1>4. DOMAIN stores = Flat(w, ink) /\ \A k \in Flat(w, ink) : stores[k] = IF edge(k) THEN 1 ELSE 255
    OBVIOUS
  <1> HIDE DEF w, h, p, stores
  <1>5. ink = {x \in Grid(w, h) : Border(w, h, p, x[1], x[2])}
    OBVIOUS
  <1> HIDE DEF ink
  <1>6. ASSUME NEW i \in 0 .. h - 1, NEW j \in 0 .. w - 1
        PROVE  buf'.cells[i * w + j] = Solid(w, h, p, i, j)
    <2> DEFINE k == i * w + j
    <2>1. i \in Nat /\ k \in 0 .. w * h - 1
      BY <1>2, CellInside
    <2>2. k \div w = i /\ k % w = j
      BY <1>2, <2>1, RowAndColumn
    <2>3. k \in Flat(w, ink) <=> Border(w, h, p, i, j)
      <3>1. ASSUME Border(w, h, p, i, j) PROVE k \in Flat(w, ink)
        <4>1. <<i, j>> \in ink
          BY <1>5, <3>1 DEF Grid
        <4>2. k = At(w, <<i, j>>)
          BY DEF At
        <4> HIDE DEF k
        <4>3. QED
          BY <4>1, <4>2 DEF Flat
      <3>2. ASSUME k \in Flat(w, ink) PROVE Border(w, h, p, i, j)
        <4>1. PICK x \in ink : k = At(w, x)
          BY <3>2 DEF Flat
        <4>2. x \in Grid(w, h) /\ Border(w, h, p, x[1], x[2])
          BY <1>5
        <4>3. x[1] \in 0 .. h - 1 /\ x[2] \in 0 .. w - 1
          BY <4>2 DEF Grid
        <4>4. i * w + j = x[1] * w + x[2]
          BY <4>1 DEF At
        <4>5. x[1] = i /\ x[2] = j
          <5> DEFINE m == x[1] * w + x[2]
          <5>1. x[1] \in Nat
            BY <4>3
          <5>2. m \div w = x[1] /\ m % w = x[2]
            BY <1>2, <4>3, <5>1, RowAndColumn
          <5>3. k = m
            BY <4>4
          <5> HIDE DEF k, m
          <5>4. QED
            BY <2>2, <5>2, <5>3
        <4>6. QED
          BY <4>2, <4>5
      <3>3. QED
        BY <3>1, <3>2
    <2>4. edge(k) <=> i \in {0, h - 1} \/ j \in {0, w - 1}
      BY <2>2
    <2> HIDE DEF k
    <2>5. buf'.cells[k] = IF k \in DOMAIN stores THEN stores[k] ELSE Unset
      BY <1>1, <2>1 DEF Buffer
    <2> HIDE DEF edge
    <2>6. QED
      BY <1>4, <2>3, <2>4, <2>5 DEF Solid, k
  <1>7. buf'.width = w /\ buf'.height = h
    BY <1>1 DEF Buffer
  <1>8. \A i \in 0 .. h - 1, j \in 0 .. w - 1 : buf'.cells[i * w + j] = Solid(w, h, p, i, j)
    BY <1>6
  <1>9. QED
    BY <1>2, <1>3, <1>7, <1>8 DEF p

\* A solid frame of draw_box is the same upside down and mirrored, for every
\* size and thickness: the loop's two far edges are as thick as the near ones.
THEOREM FramesSymmetric == ShapesSpec => []BoxSymmetric
  <1> DEFINE I == request \in Requests /\ BoxSymmetric
  <1>1. ShapesInit => I
    <2> SUFFICES ASSUME ShapesInit PROVE I
      OBVIOUS
    <2>1. Grid(buf.width, buf.height) = {}
      BY DEF ShapesInit, NotDrawn, Grid
    <2>2. QED
      BY <2>1 DEF ShapesInit, BoxSymmetric
  <1>2. I /\ [Draw]_shapeVars => I'
    <2> SUFFICES ASSUME I, [Draw]_shapeVars PROVE I'
      OBVIOUS
    <2>1. CASE UNCHANGED shapeVars
      BY <2>1 DEF shapeVars, BoxSymmetric, Cell
    <2>2. CASE Draw
      <3>1. UNCHANGED request
        BY <2>2 DEF Draw
      <3>2. SUFFICES ASSUME request.shape = "box", request.type = 0 PROVE BoxSymmetric'
        BY <3>1 DEF BoxSymmetric
      <3>3. draw_box
        BY <2>2, <3>2 DEF Draw, draw_cross, draw_yaw_rule
      <3>4. PICK w \in Nat : w = buf'.width
        BY <3>2, <3>3, SolidCells
      <3>5. PICK h \in Nat : h = buf'.height
        BY <3>2, <3>3, SolidCells
      <3>6. PICK p \in Int : p = Thickness
        BY <3>2, <3>3, SolidCells
      <3>7. \A i \in 0 .. h - 1, j \in 0 .. w - 1 : buf'.cells[i * w + j] = Solid(w, h, p, i, j)
        BY <3>2, <3>3, <3>4, <3>5, <3>6, SolidCells
      <3>8. \A i \in 0 .. h - 1, j \in 0 .. w - 1 : Cell(i, j)' = Solid(w, h, p, i, j)
        BY <3>4, <3>7 DEF Cell
      <3>9. ASSUME NEW i \in 0 .. h - 1, NEW j \in 0 .. w - 1
            PROVE  /\ Cell(i, j)' = Cell(h - 1 - i, j)'
                   /\ Cell(i, j)' = Cell(i, w - 1 - j)'
        <4>1. h - 1 - i \in 0 .. h - 1 /\ w - 1 - j \in 0 .. w - 1
          OBVIOUS
        <4>2. /\ Solid(w, h, p, h - 1 - i, j) = Solid(w, h, p, i, j)
              /\ Solid(w, h, p, i, w - 1 - j) = Solid(w, h, p, i, j)
          BY DEF Solid, Border
        <4>3. QED
          BY <3>8, <4>1, <4>2
      <3>10. \A x \in Grid(w, h) : x[1] \in 0 .. h - 1 /\ x[2] \in 0 .. w - 1
        BY DEF Grid
      <3>11. QED
        BY <3>4, <3>5, <3>9, <3>10 DEF BoxSymmetric
    <2>3. QED
      BY <2>1, <2>2
  <1>3. QED
    BY <1>1, <1>2, PTL DEF ShapesSpec
=============================================================================
