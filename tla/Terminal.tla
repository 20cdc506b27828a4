------------------------------ MODULE Terminal ------------------------------
(***************************************************************************)
(* What the text console promises: a screen of H rows of W cells.  A       *)
(* character is put at the cursor; behind the last column the text goes on *)
(* in the next row, and behind the last row the screen moves up.           *)
(* TextConsole implements this module.                                     *)
(***************************************************************************)
EXTENDS Integers

CONSTANTS
  W, H,         (* The size of the screen.                                   *)
  TABSPACES,    (* The distance of two tab stops.                            *)
  SPACE,        (* The blank character.                                      *)
  Chars,        (* The characters that are shown.                            *)
  Colors,       (* The attributes of characters.                             *)
  DEFAULT_COLOR (* The attribute to begin with.                              *)

VARIABLES
  cell,         (* For each row and column the character and its attribute.  *)
  row, col,     (* The cursor.                                               *)
  color,        (* The attribute of the next character.                      *)
  up            (* The kernel is running.                                    *)

vars == <<cell, row, col, color, up>>

Rows == 0 .. H - 1
Columns == 0 .. W - 1
Cells == Rows \X Columns

Blank(attr) == [char |-> SPACE, attr |-> attr]

Empty(attr) == [p \in Cells |-> Blank(attr)]

Init ==
  /\ cell = Empty(DEFAULT_COLOR)
  /\ row = 0 /\ col = 0
  /\ color = DEFAULT_COLOR
  /\ up = TRUE

(* Go to the first column of the next row of the screen "now". *)
Feed(now) ==
  /\ col' = 0
  /\ \/ row + 1 < H /\ row' = row + 1 /\ cell' = now
     \/ /\ row + 1 = H /\ row' = row
        /\ cell' = [p \in Cells |->
                      IF p[1] + 1 < H THEN now[<<p[1] + 1, p[2]>>] ELSE Blank(color)]

Show(char) ==
  LET now == [cell EXCEPT ![<<row, col>>] = [char |-> char, attr |-> color]]
  IN  /\ \/ col + 1 < W /\ col' = col + 1 /\ cell' = now /\ UNCHANGED row
         \/ col + 1 = W /\ Feed(now)
      /\ UNCHANGED color

LineFeed == Feed(cell) /\ UNCHANGED color

CarriageReturn == col' = 0 /\ UNCHANGED <<cell, row, color>>

(* The next tab stop; there is none behind the last one of a row. *)
Tab ==
  LET stop == col - (col % TABSPACES) + TABSPACES
  IN  /\ \/ stop < W /\ col' = stop /\ UNCHANGED <<cell, row>>
         \/ stop >= W /\ Feed(cell)
      /\ UNCHANGED color

(* One cell back, over the start of a row too. *)
Backspace ==
  /\ \/ col > 0 /\ col' = col - 1 /\ UNCHANGED row
     \/ col = 0 /\ row > 0 /\ row' = row - 1 /\ col' = W - 1
     \/ col = 0 /\ row = 0 /\ UNCHANGED <<row, col>>
  /\ UNCHANGED <<cell, color>>

Place == row' \in Rows /\ col' \in Columns /\ UNCHANGED <<cell, color>>

Paint == color' \in Colors /\ UNCHANGED <<cell, row, col>>

Clear == cell' = Empty(color) /\ row' = 0 /\ col' = 0 /\ UNCHANGED color

(* Once the kernel has failed the screen is no longer a terminal. *)
Fail == up' = FALSE

Next ==
  \/ /\ up /\ up'
     /\ \/ \E char \in Chars : Show(char)
        \/ LineFeed
        \/ CarriageReturn
        \/ Tab
        \/ Backspace
        \/ Place
        \/ Paint
        \/ Clear
  \/ Fail

Spec == Init /\ [][Next]_vars

=============================================================================
