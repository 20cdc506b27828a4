---------------------------- MODULE PlainFrames -----------------------------
(***************************************************************************)
(* What PhysFrames keeps for callers that ask for no alignment, over a     *)
(* chain in which no two regions, with the surplus bits of their last      *)
(* bitmap word, cover the same memory.                                     *)
(*                                                                         *)
(* The regions may have any size.  In one with fewer than 31 * 4096 frames *)
(* frame_free clears the bits it should; in a larger one it accepts        *)
(* addresses for which it clears bits of another word or of other frames   *)
(* of the same word.  The frames of the words that can suffer this are not *)
(* safe from each other; all others are sound, whatever happens there.     *)
(***************************************************************************)
EXTENDS PhysFrames

RegionEnd(r) == first_block[r] + Words(r) * UINT32BITS * BLOCK_SIZE

ASSUME NoAlignment == Aligns \subseteq {0, 1}

ASSUME RegionsApart ==
  \A r, s \in Region :
     r # s => RegionEnd(r) <= first_block[s] \/ RegionEnd(s) <= first_block[r]

-----------------------------------------------------------------------------
(* The frames of each region that frame_free takes for other frames.       *)
Mistaken ==
  [r \in Region |->
     {k \in Slot(r) : InRange(r, FrameAddr(r, k)) /\ FreedSlot(k) # k}]

(* The words in which frame_free then clears bits.                         *)
Muddled == [r \in Region |-> {FreedSlot(k) \div UINT32BITS : k \in Mistaken[r]}]

(* The frames in the other words.                                          *)
Sound == [r \in Region |-> {k \in Slot(r) : k \div UINT32BITS \notin Muddled[r]}]

SoundFrames == UNION {{FrameAddr(r, k) : k \in Sound[r]} : r \in Region}

-----------------------------------------------------------------------------
(* Properties.                                                             *)

(* No sound frame is ever in the hands of two callers of frame_alloc.      *)
NoSoundFrameShared ==
  \A c, d \in Client : c # d => owns[c] \intersect owns[d] \intersect SoundFrames = {}

(* As long as a caller holds a sound frame its bit is set: nobody's        *)
(* frame_free of other frames has put it back into circulation.            *)
SoundBitsHeld ==
  \A c \in Client, r \in Region : \A k \in Sound[r] :
     FrameAddr(r, k) \in owns[c] => k \in bitmap[r]

(* frame_free clears bits of sound frames only when its caller gives up    *)
(* those frames in that very call.                                         *)
ClearedWereReleased ==
  [][\A r \in Region : \A k \in (bitmap[r] \ bitmap'[r]) \intersect Sound[r] :
        \E c \in Client : FrameAddr(r, k) \in owns[c] \ owns'[c]]_vars

(* The hint never goes back, so a frame it passes is out of reach for      *)
(* good.  A search for n frames passes at most the last n - 1 frames of a  *)
(* word while they are free, where no run of n can start; a search for one *)
(* frame passes none.                                                      *)
HintPassesWordEndsOnly ==
  [][\A r \in Region :
       \A w \in search_next_startblock[r] .. search_next_startblock'[r] - 1 :
         \A c \in Client, count \in Counts, align_up \in Aligns :
            frame_alloc(c, count, align_up) =>
              \A b \in Bit \ WordBits(r, w) : UINT32BITS - b < count]_vars

(* The sound frames as the callers see them: one whose bit is clear is a   *)
(* free frame.                                                             *)
FreeFrames ==
  UNION {{FrameAddr(r, k) : k \in Sound[r] \ bitmap[r]} : r \in Region}

SoundOwns == [c \in Client |-> owns[c] \intersect SoundFrames]

Abstract == INSTANCE FrameAllocator
              WITH Frame <- SoundFrames, MaxRun <- UINT32BITS,
                   free <- FreeFrames, owns <- SoundOwns

(* Whatever frame_alloc and frame_free do with all the frames, the callers *)
(* see an allocator of the sound ones: runs come from free frames,         *)
(* given-back frames are free or lost.                                     *)
ImplementsAllocator == Abstract!Spec

=============================================================================
