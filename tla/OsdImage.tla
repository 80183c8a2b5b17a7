------------------------------ MODULE OsdImage ------------------------------
(***************************************************************************)
(* The size of the image of class COSD_OpenCL, which its layer (Osd) and   *)
(* the bitmaps it draws itself (OsdShapes) share.                          *)
(***************************************************************************)
EXTENDS Integers

CONSTANTS ImgWidth, ImgHeight   \* image_width_, image_height_

ASSUME ImageAssumption == {ImgWidth, ImgHeight} \subseteq Nat
=============================================================================
