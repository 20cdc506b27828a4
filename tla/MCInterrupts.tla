---------------------------- MODULE MCInterrupts ----------------------------
(* Controllers with four lines each.                                       *)
EXTENDS Interrupts

CONSTANT h      (* The handler.                                                *)

=============================================================================
