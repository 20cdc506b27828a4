--------------------------- MODULE MCPlainFrames ----------------------------
(* Two regions.  The first has two bitmap words; frame_free accepts its    *)
(* frames 0 to 2 and takes frame 2 for frame 0, so that word 0 is muddled  *)
(* and word 1 is sound.  The second has one word and is sound throughout.  *)
EXTENDS PlainFrames, TLC

CONSTANTS c1, c2

MCClient == {c1, c2}
MCFirstBlock == <<10, 30>>
MCBlocksCount == <<4, 2>>

Symmetry == Permutations(MCClient)

=============================================================================
