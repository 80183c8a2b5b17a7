-------------------------------- MODULE Osd --------------------------------
(***************************************************************************)
(* The on-screen display, class COSD_OpenCL, as modeset_draw of            *)
(* test-drm-full.cc uses it: a picture is copied in, slots are filled with *)
(* glyphs and custom bitmaps (create_font_add_array), process_font merges  *)
(* them into a layer (copyBitmapToImage) and lays it over the picture with *)
(* the kernel text_render.cl.  Pixels are named by their flat index.       *)
(***************************************************************************)
EXTENDS OsdImage, Integers, FiniteSets, FiniteSetsExt

CONSTANTS FONT_ARRAY_SIZE, \* 30, scaled down
          Ids,             \* the slots the program fills
          Bitmaps,         \* [kind, width, rows]: glyphs and the program's own
          Rows, Columns,   \* the positions it asks for
          MaxCreates       \* bound: bitmaps made

ASSUME OsdAssumption == /\ {FONT_ARRAY_SIZE, MaxCreates} \subseteq Nat
                        /\ \A b \in Bitmaps : {b.width, b.rows} \subseteq Nat
                        /\ Rows \cup Columns \subseteq Int

VARIABLES fontAttr_array_,  \* the slots
          all_font_buffer_, \* the layer: pixel -> the bitmap and its pixel, or Blank
          image_buffer_,    \* the picture: pixel -> channels, and the text on it
          made,             \* made[n]: the n-th bitmap, as its maker meant it
          pc,               \* "load", "fill" or "shown"; after a store outside the slots
                            \* "noSlot", outside the layer "offLayer"
          creates

vars == <<fontAttr_array_, all_font_buffer_, image_buffer_, made, pc, creates>>

Pixels == 0 .. ImgWidth * ImgHeight - 1
Blank == <<0, 0>>
Original == [swapped |-> FALSE, text |-> Blank]
Unused == [used_ |-> FALSE, bitmap |-> 0, font_width_ |-> 0, font_rows_ |-> 0,
           r_position_ |-> 0, c_position_ |-> 0]

\* The kernel shows what is not zero; here every other pixel of a bitmap.
Gray(text) == IF text = Blank THEN 0 ELSE 1 - (text[2] % 2)

Init == /\ fontAttr_array_ = [i \in 0 .. FONT_ARRAY_SIZE - 1 |-> Unused]
        /\ all_font_buffer_ = [k \in Pixels |-> Blank]
        /\ image_buffer_ = [k \in Pixels |-> Original]
        /\ made = [n \in 1 .. MaxCreates |-> [width |-> 0, rows |-> 0]]
        /\ pc = "load" /\ creates = 0

\* memcpy(image_buffer_, originBuf): each turn starts from the picture.
Load == /\ pc \in {"load", "shown"}
        /\ image_buffer_' = [k \in Pixels |-> Original]
        /\ pc' = "fill"
        /\ UNCHANGED <<fontAttr_array_, all_font_buffer_, made, creates>>

\* A custom bitmap is cut to the image's size; a glyph comes as FreeType
\* rendered it.
create_font_add_array ==
    /\ pc = "fill" /\ creates < MaxCreates
    /\ creates' = creates + 1
    /\ \E id \in Ids, b \in Bitmaps, r \in Rows, c \in Columns :
         LET cut(n, limit) == IF b.kind = "custom" /\ n > limit THEN limit ELSE n
         IN  /\ made' = [made EXCEPT ![creates + 1] = [width |-> b.width, rows |-> b.rows]]
             /\ IF id \in DOMAIN fontAttr_array_
                THEN /\ fontAttr_array_' = [fontAttr_array_ EXCEPT ![id] =
                           [used_ |-> TRUE, bitmap |-> creates + 1,
                            font_width_ |-> cut(b.width, ImgWidth),
                            font_rows_ |-> cut(b.rows, ImgHeight),
                            r_position_ |-> r, c_position_ |-> c]]
                     /\ UNCHANGED pc
                ELSE pc' = "noSlot" /\ UNCHANGED fontAttr_array_
    /\ UNCHANGED <<all_font_buffer_, image_buffer_>>

\* Mutant of Copied: the image's width is taken for the bitmap's.
CopiedByImage(s) ==
    {<<row * ImgWidth + col, (row - s.r_position_) * ImgWidth + (col - s.c_position_)>> :
        row \in s.r_position_ .. Min({s.r_position_ + s.font_rows_, ImgHeight}) - 1,
        col \in s.c_position_ .. Min({s.c_position_ + s.font_width_, ImgWidth}) - 1}

\* copyBitmapToImage: pairs of an image's index and a bitmap's.  The bounds
\* below and on the right are kept, those above and on the left are not.
Copied(s) ==
    {<<row * ImgWidth + col, (row - s.r_position_) * s.font_width_ + (col - s.c_position_)>> :
        row \in s.r_position_ .. Min({s.r_position_ + s.font_rows_, ImgHeight}) - 1,
        col \in s.c_position_ .. Min({s.c_position_ + s.font_width_, ImgWidth}) - 1}

Slots == {i \in DOMAIN fontAttr_array_ : fontAttr_array_[i].used_}

\* The merged layer: cleared first, then slot after slot.
Merged == [k \in Pixels |->
    LET on == {i \in Slots : \E p \in Copied(fontAttr_array_[i]) : p[1] = k}
    IN  IF on = {} THEN Blank
        ELSE LET s == fontAttr_array_[Max(on)]
             IN  <<s.bitmap, Max({p[2] : p \in {q \in Copied(s) : q[1] = k}})>>]

\* The kernel render_text, run for every pixel: red and blue change places,
\* then the gray value is laid over.
render_text(layer) ==
    [k \in Pixels |-> [swapped |-> ~image_buffer_[k].swapped,
                       text |-> IF Gray(layer[k]) > 0 THEN layer[k] ELSE image_buffer_[k].text]]

\* Mutant of process_font: the layer is not cleared.
process_fontUncleared ==
    /\ pc = "fill"
    /\ LET layer == [k \in Pixels |-> IF Merged[k] = Blank THEN all_font_buffer_[k]
                                                          ELSE Merged[k]]
       IN  all_font_buffer_' = layer /\ image_buffer_' = render_text(layer)
    /\ pc' = "shown"
    /\ UNCHANGED <<fontAttr_array_, made, creates>>

process_font ==
    /\ pc = "fill"
    /\ IF \A i \in Slots : \A p \in Copied(fontAttr_array_[i]) : p[1] \in Pixels
       THEN /\ all_font_buffer_' = Merged
            /\ image_buffer_' = render_text(Merged)
            /\ pc' = "shown"
       ELSE pc' = "offLayer" /\ UNCHANGED <<all_font_buffer_, image_buffer_>>
    /\ UNCHANGED <<fontAttr_array_, made, creates>>

Next == Load \/ create_font_add_array \/ process_font

Spec == Init /\ [][Next]_vars

-----------------------------------------------------------------------------
\* The type invariant.  In particular copyBitmapToImage stores outside the layer
\* only for a slot above or left of the image, and each pixel of the layer is
\* blank or a pixel that exists in the buffer of its bitmap, wherever slots are
\* and however wide their bitmaps.
OsdTypeOK ==
    /\ pc \in {"load", "fill", "shown", "noSlot", "offLayer"}
    /\ pc = "offLayer" => \E i \in Slots : \/ fontAttr_array_[i].r_position_ < 0
                                          \/ fontAttr_array_[i].c_position_ < 0
    /\ \A k \in Pixels : image_buffer_[k].swapped \in BOOLEAN
    /\ \A k \in Pixels : all_font_buffer_[k] # Blank =>
          LET b == made[all_font_buffer_[k][1]]
          IN  all_font_buffer_[k][1] <= creates /\ all_font_buffer_[k][2] < b.width * b.rows
    /\ \A i \in Slots : fontAttr_array_[i].bitmap \in 1 .. creates

\* What a slot wants to show at row i, column j of the image, if anything:
\* the pixel of the bitmap its maker meant to be there.
Wants(s, i, j) ==
    LET b == made[s.bitmap]
    IN  s.used_ /\ i - s.r_position_ \in 0 .. b.rows - 1 /\ j - s.c_position_ \in 0 .. b.width - 1

\* A slot within the image on the left and above, with a bitmap not cut in width.
Placed(s) == s.r_position_ >= 0 /\ s.c_position_ >= 0 /\ s.font_width_ = made[s.bitmap].width

\* When every slot is so placed, what is shown is what the slots hold now,
\* whatever was shown before: each pixel has the text of the highest slot that
\* wants it, at its place in the bitmap; no text is left of bitmaps replaced or
\* moved, and the picture's channels are swapped once.
ShowsTheSlots ==
    pc = "shown" /\ (\A n \in Slots : Placed(fontAttr_array_[n])) =>
      \A i \in 0 .. ImgHeight - 1, j \in 0 .. ImgWidth - 1 :
        LET pixel == image_buffer_[i * ImgWidth + j]
            wanting == {n \in DOMAIN fontAttr_array_ : Wants(fontAttr_array_[n], i, j)}
            top == fontAttr_array_[Max(wanting)]
            at == (i - top.r_position_) * made[top.bitmap].width + (j - top.c_position_)
        IN  /\ pixel.swapped
            /\ pixel.text = IF wanting = {} THEN Blank
                            ELSE IF Gray(<<top.bitmap, at>>) > 0 THEN <<top.bitmap, at>> ELSE Blank
=============================================================================
