------------------------------- MODULE Arena --------------------------------
(***************************************************************************)
(* What a heap promises its callers: a caller is handed bytes of the heap  *)
(* that overlap nothing anybody holds and start at a multiple of what he   *)
(* asks for, and keeps them until he gives them back.  A call may also     *)
(* hand out nothing.  Heap implements this module.                         *)
(***************************************************************************)
EXTENDS Integers

CONSTANTS
  TOTAL,        (* The size of the heap in bytes.                            *)
  Sizes,        (* The sizes in bytes that callers ask for.                  *)
  Alignments    (* The alignments they ask for.                              *)

VARIABLE held   (* For each piece in use, by its first byte, what was asked  *)
                (* for: a size and an alignment.                             *)

(* The bytes a .. a + m - 1 and b .. b + n - 1 have none in common. *)
Separate(a, m, b, n) == a + m <= b \/ b + n <= a

Init == held = [p \in {} |-> 0]

Allocate(p, asked) ==
  /\ p \in 0 .. TOTAL - asked.size /\ p % asked.alignment = 0
  /\ \A q \in DOMAIN held : Separate(p, asked.size, q, held[q].size)
  /\ held' = [q \in DOMAIN held \union {p} |-> IF q = p THEN asked ELSE held[q]]

Release(p) == held' = [q \in DOMAIN held \ {p} |-> held[q]]

(* The piece that is handed out is held after the call and not before. *)
Next ==
  \/ \E p \in DOMAIN held' \ DOMAIN held, asked \in [size : Sizes \ {0}, alignment : Alignments] :
       Allocate(p, asked)
  \/ \E p \in DOMAIN held : Release(p)

Spec == Init /\ [][Next]_held

=============================================================================
