-------------------------------- MODULE Vbe ---------------------------------
(***************************************************************************)
(* The frame buffer driver of src/kernel/drivers/vbe.c.  It keeps the      *)
(* geometry sys_init gives it, without the length of a line in bytes, and  *)
(* writes 32-bit words whatever the depth of a pixel is.  It checks        *)
(* nothing: callers stay inside the size VBE_GET_RES tells them.           *)
(***************************************************************************)
EXTENDS Integers

CONSTANTS
  Modes,        (* The video modes of the boot loader: rows, columns, bits   *)
                (* per pixel, bytes per line.                                *)
  PixelColors,  (* The colours callers choose.                               *)
  BLANK,        (* What video memory holds in the beginning.                 *)
  Words         (* The number of words of video memory.                      *)

VARIABLES
  mode,         (* The video mode; the empty sequence before vbe_init.       *)
  __vbe_info,   (* Its size as the driver keeps it.                          *)
  fb            (* Video memory as the driver sees it, word by word.         *)

vars == <<mode, __vbe_info, fb>>

Init ==
  /\ mode = <<>>
  /\ __vbe_info = [h |-> 0, w |-> 0]
  /\ fb = [k \in 0 .. Words - 1 |-> BLANK]

vbe_init(m) ==
  /\ mode = <<>> /\ mode' = <<m>>
  /\ __vbe_info' = [h |-> m.h, w |-> m.w]
  /\ UNCHANGED fb

tmemsetd(first, color, count) ==
  /\ fb' = [k \in DOMAIN fb |-> IF k \in first .. first + count - 1 THEN color ELSE fb[k]]
  /\ UNCHANGED <<mode, __vbe_info>>

(* VBE_CLEAR *)
__vbe_clear(color) == tmemsetd(0, color, __vbe_info.w * __vbe_info.h)

__vbe_fill_line(color, ln) == tmemsetd(ln * __vbe_info.w, color, __vbe_info.w)

(* The arguments in the order of the parameters. *)
FillLineInOrder(first, second) == __vbe_fill_line(first, second)

(* VBE_FILL_LINE takes both parameters from the argument list in one call, *)
(* in an order C leaves open; gcc evaluates the last one first, so that    *)
(* the first argument is the line and the second the colour.               *)
FillLine(first, second) == __vbe_fill_line(second, first)

vbe_set_px(pos, data) == tmemsetd(pos, data, 1)

vbe_get_px(pos) == fb[pos]

(* VBE_GET_RES *)
Resolution == <<__vbe_info.w, __vbe_info.h>>

(* Callers that know the resolution: they choose pixels by column and row. *)
vbe_sendcmd ==
  \E color \in PixelColors :
    \/ __vbe_clear(color)
    \/ \E ln \in 0 .. Resolution[2] - 1 : FillLine(ln, color)

SetPixel ==
  \E color \in PixelColors, x \in 0 .. Resolution[1] - 1, y \in 0 .. Resolution[2] - 1 :
    vbe_set_px(y * Resolution[1] + x, color)

Next ==
  \/ \E m \in Modes : vbe_init(m)
  \/ mode # <<>> /\ (vbe_sendcmd \/ SetPixel)

Spec == Init /\ [][Next]_vars

-----------------------------------------------------------------------------
(* Properties.                                                             *)

(* Pixels of one word, and nothing between two lines. *)
Packed == \A k \in DOMAIN mode : mode[k].bpp = 32 /\ mode[k].pitch = 4 * mode[k].w

Picture == (0 .. __vbe_info.h - 1) \X (0 .. __vbe_info.w - 1)

Abstract == INSTANCE Canvas WITH
  size <- <<__vbe_info.h, __vbe_info.w>>,
  pixel <- [p \in Picture |-> vbe_get_px(p[1] * __vbe_info.w + p[2])],
  clean <- \A k \in __vbe_info.w * __vbe_info.h .. Words - 1 : fb[k] = BLANK,
  up <- Packed

(* In a mode with pixels of 32 bits and lines without a gap the driver     *)
(* draws the picture callers ask for: CLEAR all of it, FILL_LINE the line  *)
(* given first, and nothing outside of it.                                 *)
ImplementsCanvas == Abstract!Spec

=============================================================================
