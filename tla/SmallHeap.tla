----------------------------- MODULE SmallHeap ------------------------------
(***************************************************************************)
(* The use of Heap for which it keeps its promise: holes between pieces    *)
(* in use have counted bytes for pointers once at most, alignments are so  *)
(* small that the hole in front of an aligned block does not claim more    *)
(* than that, and callers hold no more pieces than the heap has room for   *)
(* in the worst case.                                                      *)
(***************************************************************************)
EXTENDS Heap

CONSTANTS LargestSize, LargestAlignment

ASSUME LargestAssumption ==
  /\ LargestSize \in Nat /\ Sizes \subseteq 0 .. LargestSize
  /\ LargestAlignment \in Nat \ {0} /\ Alignments \subseteq 1 .. LargestAlignment

ASSUME OneMiscount == MaxMerges <= 1

(* With 16 and 4 bytes: no alignment but 8. *)
ASSUME SmallAlignments ==
  \A alignment \in Alignments :
     alignment = 1 \/ (alignment % POINTER = 0 /\ POINTER * (alignment - 1) <= 2 * HEADER)

(* The bytes of a piece in use with its header, and of a hole that is too  *)
(* small for a request.                                                    *)
Piece == HEADER + POINTER * LargestSize
Hole == HEADER + POINTER * (LargestAlignment + HEADER + LargestSize - 1)

(* A hole in front of every piece. *)
ASSUME RoomAssumption == MaxHeld * (Piece + Hole) <= TOTAL

=============================================================================
