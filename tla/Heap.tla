-------------------------------- MODULE Heap --------------------------------
(***************************************************************************)
(* The kernel heap of src/kernel/arch/dmm.c: kmalloc and kfree over the    *)
(* list of blocks that starts at m_dyn_first_block.                        *)
(*                                                                         *)
(* The member "data" of a block is an array of pointers, so that "data +   *)
(* size" lies size pointers, not size bytes, further on, and the distance  *)
(* of two "data" is counted in pointers.  Addresses below are in bytes     *)
(* from m_dyn_base, sizes are what the code keeps in "size".  m_dyn_base   *)
(* is the end of the kernel image, a page border (src/link.ld): a multiple *)
(* of every alignment up to a page.                                        *)
(***************************************************************************)
EXTENDS Integers, SequencesExt

CONSTANTS
  TOTAL,      (* m_dyn_total, the size of the heap in bytes.                 *)
  HEADER,     (* sizeof(mem_block_t): 16.                                    *)
  POINTER,    (* sizeof(uint8_t* ): 4.                                       *)
  Sizes,      (* The "size" arguments of kmalloc.                            *)
  Alignments, (* Their alignments; kmalloc is kaligned_alloc(size, 1).       *)
  MaxHeld,    (* Bound: how many pieces the callers hold at most.            *)
  MaxMerges,  (* Bound: how many blocks a hole between two blocks in use has *)
              (* swallowed at most.                                          *)
  MaxTail     (* Bound: the same for the last block.                         *)

ASSUME HeapAssumption ==
  /\ {TOTAL, MaxHeld, MaxMerges, MaxTail} \subseteq Nat
  /\ {HEADER, POINTER} \subseteq Nat \ {0} /\ HEADER % POINTER = 0
  /\ TOTAL > HEADER
  /\ Sizes \subseteq Nat

(* With an alignment of 2 or 4 the header of an aligned block lies on the  *)
(* header of the block it is taken from; nobody asks for one.              *)
ASSUME AlignmentAssumption ==
  \A alignment \in Alignments :
     alignment = 1 \/ (alignment \in Nat /\ (POINTER - 1) * (alignment - 1) >= HEADER)

NULL == -1

VARIABLES
  heap,       (* The blocks in the order of the list: address, size, free,   *)
              (* and, for the bounds only, how often bytes went into its     *)
              (* size for pointers: a hole in front of an aligned block, or  *)
              (* a hole that has swallowed another.                          *)
  held        (* For each pointer the callers hold what they asked for.      *)

vars == <<heap, held>>

Block == [addr : Nat, size : Nat, free : BOOLEAN, merges : Nat]

Data(b) == b.addr + HEADER

(* The block as mm_initmemblock leaves it. *)
FirstBlock == [addr |-> 0, size |-> TOTAL - HEADER, free |-> TRUE, merges |-> 0]

(* The heap is there, or no map entry was long enough for it. *)
Init ==
  /\ heap \in {<<>>, <<FirstBlock>>}
  /\ held = [p \in {} |-> 0]

-----------------------------------------------------------------------------
(* Any free block; a block that has no room for the header of "third". *)
AnyRoom(b, size, alignment) == b.free
HasRoomNoHeader(b, size, alignment) == b.free /\ b.size >= alignment + size

(* The guard of the search. *)
HasRoom(b, size, alignment) == b.free /\ b.size >= alignment + HEADER + size

(* The first block of the list with room. *)
FirstFit(k, size, alignment) ==
  /\ HasRoom(heap[k], size, alignment)
  /\ \A l \in 1 .. k - 1 : ~ HasRoom(heap[l], size, alignment)

(* The step back to the multiple of the alignment is missing. *)
NotRounded(b, alignment) == Data(b) + POINTER * (alignment - 1) - HEADER

(* Where "second", the block in use, starts: "data + alignment - 1" counts *)
(* pointers, the rest bytes.  With alignment 1 it is the block itself.     *)
SecondAddr(b, alignment) ==
  LET addr == Data(b) + POINTER * (alignment - 1)
  IN  addr - (addr % alignment) - HEADER

(* What is left in front, the part in use, and the rest of the block.      *)
InFront(b, alignment) ==
  IF SecondAddr(b, alignment) = b.addr THEN <<>>
  ELSE <<[b EXCEPT !.size = SecondAddr(b, alignment) - Data(b), !.merges = 1]>>

Second(b, size, alignment) ==
  [addr |-> SecondAddr(b, alignment), size |-> size, free |-> FALSE, merges |-> 0]

(* The bytes of a pointer are multiplied in once more. *)
ThirdScaled(b, size, alignment) ==
  LET addr == SecondAddr(b, alignment) + HEADER + POINTER * POINTER * size
  IN  [b EXCEPT !.addr = addr, !.size = @ - (addr - b.addr) \div POINTER]

Third(b, size, alignment) ==
  LET addr == SecondAddr(b, alignment) + HEADER + POINTER * size
  IN  [b EXCEPT !.addr = addr, !.size = @ - (addr - b.addr) \div POINTER]

kaligned_alloc(size, alignment) ==
  \/ /\ size # 0
     /\ \E k \in DOMAIN heap :
          LET second == Second(heap[k], size, alignment)
              asked == [size |-> size, alignment |-> alignment]
          IN  /\ FirstFit(k, size, alignment)
              /\ heap' = SubSeq(heap, 1, k - 1) \o InFront(heap[k], alignment)
                           \o <<second, Third(heap[k], size, alignment)>>
                           \o SubSeq(heap, k + 1, Len(heap))
              /\ held' = [p \in DOMAIN held \union {Data(second)} |->
                            IF p = Data(second) THEN asked ELSE held[p]]
  \/ /\ size = 0 \/ \A k \in DOMAIN heap : ~ HasRoom(heap[k], size, alignment)
     /\ UNCHANGED vars                                    (* returns NULL   *)

-----------------------------------------------------------------------------
(* merge_blocks adds the size of the next block and the size of a header,  *)
(* in bytes, to a size.                                                    *)
Merged(b, next) ==
  [b EXCEPT !.size = @ + next.size + HEADER, !.merges = @ + next.merges + 1]

(* A free block swallows the free blocks that follow it. *)
Absorb(chain, b) ==
  IF chain # <<>> /\ Last(chain).free /\ b.free
  THEN ReplaceAt(chain, Len(chain), Merged(Last(chain), b))
  ELSE Append(chain, b)

(* A list that stays as it is. *)
Unmerged(blocks) == blocks

(* merge_blocks for every block of the list. *)
MergeAll(blocks) ==
  LET chain[k \in 0 .. Len(blocks)] ==
        IF k = 0 THEN <<>> ELSE Absorb(chain[k - 1], blocks[k])
  IN  chain[Len(blocks)]

(* The bounds on merging: a hole in front of the last block, and the last. *)
Bounded(blocks) ==
  \A k \in DOMAIN blocks :
     blocks[k].merges <= IF k = Len(blocks) THEN MaxTail ELSE MaxMerges

(* kfree looks for the block whose data starts at ptr.  Without one, and   *)
(* with NULL, nothing happens.                                             *)
kfree(ptr) ==
  \/ \E k \in DOMAIN heap :
       /\ Data(heap[k]) = ptr
       /\ \A l \in 1 .. k - 1 : Data(heap[l]) # ptr
       /\ heap' = MergeAll([heap EXCEPT ![k].free = TRUE])
       /\ Bounded(heap')
       /\ held' = [p \in DOMAIN held \ {ptr} |-> held[p]]
  \/ /\ \A k \in DOMAIN heap : Data(heap[k]) # ptr
     /\ UNCHANGED vars

Next ==
  \/ \E size \in Sizes, alignment \in Alignments :
       Cardinality(DOMAIN held) < MaxHeld /\ kaligned_alloc(size, alignment)
  \/ \E ptr \in DOMAIN held \union {NULL} : kfree(ptr)

Spec == Init /\ [][Next]_vars

-----------------------------------------------------------------------------
(* Properties.                                                             *)

(* Everything in the list is a block, and what callers hold are sizes they *)
(* may ask for.                                                            *)
TypeOK ==
  /\ heap \in Seq(Block)
  /\ DOMAIN held \subseteq {Data(heap[k]) : k \in DOMAIN heap}
  /\ \A p \in DOMAIN held : held[p] \in [size : Sizes \ {0}, alignment : Alignments]

Separate(a, m, b, n) == a + m <= b \/ b + n <= a

(* No header of a block was written over another header or over bytes that *)
(* a caller holds, and no two callers hold the same byte.                  *)
NothingClobbered ==
  /\ \A k, l \in DOMAIN heap :
        k # l => Separate(heap[k].addr, HEADER, heap[l].addr, HEADER)
  /\ \A k \in DOMAIN heap, p \in DOMAIN held :
        Separate(heap[k].addr, HEADER, p, held[p].size)
  /\ \A p, q \in DOMAIN held : p # q => Separate(p, held[p].size, q, held[q].size)

(* What the callers hold and the headers of all blocks lie in the heap. *)
InsideHeap ==
  /\ \A p \in DOMAIN held : p + held[p].size <= TOTAL
  /\ \A k \in DOMAIN heap : heap[k].addr + HEADER <= TOTAL

(* Free blocks never lie side by side: a hole is found in one piece, and   *)
(* when all is given back a single block is left.                          *)
Coalesced ==
  /\ \A k \in 1 .. Len(heap) - 1 : ~ (heap[k].free /\ heap[k + 1].free)
  /\ DOMAIN held = {} => Len(heap) <= 1

Abstract == INSTANCE Arena

(* kmalloc, kaligned_alloc and kfree implement a heap: what a caller holds *)
(* is his alone, lies in the heap, and is aligned as he asked.             *)
ImplementsArena == Abstract!Spec

=============================================================================
