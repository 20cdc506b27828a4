------------------------------ MODULE MCFrames ------------------------------
(* One region of the page-frame allocator, without the assumptions of      *)
(* PlainFrames, and with every frame looked at: large enough, or asked     *)
(* with an alignment, so that the arithmetic of frame_free and the         *)
(* "continue" of frame_alloc show.                                         *)
EXTENDS PhysFrames

CONSTANTS c1, c2, Blocks

MCClient == {c1, c2}
MCFirstBlock == <<8>>
MCBlocksCount == <<Blocks>>

=============================================================================
