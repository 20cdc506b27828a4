------------------------------- MODULE Canvas -------------------------------
(* What the frame buffer promises: a picture of rows and columns.  Vbe     *)
(* implements this module.                                                 *)
EXTENDS Integers

CONSTANTS PixelColors, BLANK

VARIABLES
  size,    (* The number of rows and columns.                                *)
  pixel,   (* For each row and column its colour.                            *)
  clean,   (* Nothing outside the picture was ever written.                  *)
  up       (* The picture is of the kind the driver can draw.                *)

vars == <<size, pixel, clean, up>>

Picture(rows, columns) == (0 .. rows - 1) \X (0 .. columns - 1)

Init ==
  /\ size = <<0, 0>>
  /\ pixel = [p \in Picture(0, 0) |-> BLANK]
  /\ clean = TRUE /\ up = TRUE

Open ==
  /\ size' \in Nat \X Nat
  /\ pixel' = [p \in Picture(size'[1], size'[2]) |-> BLANK]

Draw(set, color) ==
  /\ pixel' = [p \in DOMAIN pixel |-> IF p \in set THEN color ELSE pixel[p]]
  /\ UNCHANGED size

Fail == up' = FALSE

Next ==
  \/ /\ up /\ up' /\ UNCHANGED clean
     /\ \/ Open
        \/ \E color \in PixelColors :
             \/ Draw(DOMAIN pixel, color)
             \/ \E row \in 0 .. size[1] - 1 :
                  Draw({p \in DOMAIN pixel : p[1] = row}, color)
             \/ \E p \in DOMAIN pixel : Draw({p}, color)
  \/ Fail

Spec == Init /\ [][Next]_vars

=============================================================================
