------------------------------- MODULE MCHeap -------------------------------
(* The heap with its real header and pointer sizes.                        *)
EXTENDS SmallHeap
=============================================================================
