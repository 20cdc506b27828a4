----------------------------- MODULE MCDisplay ------------------------------
(* A small screen and small video modes.                                   *)
EXTENDS Display, TLC

(* What handle_exception prints. *)
First == <<"x", "y", "z">>

Second == "plain" :> <<"z">> @@ "coded" :> <<"y", "x", "z">>

(* A packed mode, one whose lines have a gap, one of narrower pixels.      *)
SmallModes ==
  {[h |-> 3, w |-> 2, bpp |-> 32, pitch |-> 8],
   [h |-> 2, w |-> 2, bpp |-> 32, pitch |-> 12],
   [h |-> 2, w |-> 2, bpp |-> 24, pitch |-> 6]}

=============================================================================
