--------------------------- MODULE FrameAllocator ---------------------------
(***************************************************************************)
(* What the physical memory manager promises its callers, with nothing     *)
(* about bitmaps, words or regions: page frames are handed out in runs of  *)
(* consecutive frames, a run is taken from frames nobody holds, and a      *)
(* frame that is given back may be handed out again, or may be lost.       *)
(* PhysFrames implements this module.                                      *)
(***************************************************************************)
EXTENDS Integers

CONSTANTS
  Client,       (* The parts of the kernel that ask for frames.              *)
  Frame,        (* The addresses of all page frames under management.        *)
  MaxRun,       (* The longest run that one call may ask for.                *)
  BLOCK_SIZE    (* The distance between two consecutive frames.              *)

VARIABLES
  free,         (* The frames that may still be handed out.                  *)
  owns          (* The frames each client holds.                             *)

vars == <<free, owns>>

(* The addresses of n consecutive frames, the first one at addr. *)
Run(addr, n) == {addr + i * BLOCK_SIZE : i \in 0 .. n - 1}

Init ==
  /\ free = Frame
  /\ owns = [c \in Client |-> {}]

(* A client is handed a run of free frames. *)
Allocate(c) ==
  \E addr \in Frame, n \in 1 .. MaxRun :
     /\ Run(addr, n) \subseteq free
     /\ free' = free \ Run(addr, n)
     /\ owns' = [owns EXCEPT ![c] = @ \union Run(addr, n)]

(* A client gives up some of its frames.  They become free, or they are    *)
(* never seen again: nothing is promised about who finds them.             *)
Release(c) ==
  \E R \in SUBSET owns[c] :
     /\ owns' = [owns EXCEPT ![c] = @ \ R]
     /\ free' \in {free, free \union R}

Next == \E c \in Client : Allocate(c) \/ Release(c)

Spec == Init /\ [][Next]_vars

=============================================================================
