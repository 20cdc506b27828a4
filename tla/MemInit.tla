------------------------------ MODULE MemInit -------------------------------
(***************************************************************************)
(* How mm_init (src/kernel/arch/pmm.c) builds the chain of regions that    *)
(* PhysFrames works on, and carves out the heap that Heap works on, from   *)
(* the memory map of the boot loader.                                      *)
(*                                                                         *)
(* All addresses and lengths are unsigned machine words: arithmetic is     *)
(* modulo ADDR_MOD.  A map entry also has a high word for its address,     *)
(* which the code never reads.                                             *)
(***************************************************************************)
EXTENDS Integers, Sequences, FiniteSets

CONSTANTS
  ADDR_MOD,              (* The number of machine addresses: 2^32.           *)
  ONE_MB,                (* The border 0x100000 of low memory.               *)
  kernel_start,          (* The kernel image: from the linker script.        *)
  kernel_end,
  PAGE_SIZE,             (* 4096; BLOCK_SIZE is the same number.             *)
  UINT32BITS,            (* The number of bits in a bitmap word: 32.         *)
  WORD_SIZE,             (* The number of bytes in a bitmap word: 4.         *)
  MEM_DYNAMIC_MIN_SIZE,  (* The size of the heap in bytes.                   *)
  BITMAP_STACK_SIZE,     (* How many regions bitmap_stack has room for: 32.  *)
  Maps                   (* The memory maps the boot loader may hand over.   *)

Available == 1           (* MEM_BLOCK_AVAILABLE                              *)
Reserved  == 2           (* MEM_BLOCK_RESERVED                               *)

Address == 0 .. ADDR_MOD - 1

MapEntry == [high : {0, 1}, addr : Address, len : Address, type : {Available, Reserved}]

NULL == 0                (* No region: regions are numbered from 1.          *)
NoHeap == ADDR_MOD       (* m_dyn_first_block is NULL.                       *)

(* The kernel is linked to 0x100000; the heap and a page fit behind it,    *)
(* and none of the distances by which an entry is cut is read as negative. *)
ASSUME LayoutAssumption ==
  /\ {ADDR_MOD, ONE_MB, kernel_start, kernel_end} \subseteq Nat
  /\ {PAGE_SIZE, UINT32BITS, WORD_SIZE, MEM_DYNAMIC_MIN_SIZE, BITMAP_STACK_SIZE}
       \subseteq Nat \ {0}
  /\ 0 < ONE_MB /\ ONE_MB = kernel_start /\ kernel_start < kernel_end
  /\ kernel_end + MEM_DYNAMIC_MIN_SIZE + PAGE_SIZE <= ADDR_MOD
  /\ ADDR_MOD % 2 = 0
  /\ \A size \in {kernel_end, MEM_DYNAMIC_MIN_SIZE, PAGE_SIZE} : 2 * size < ADDR_MOD
  /\ \A size \in {ADDR_MOD, ONE_MB, kernel_end, MEM_DYNAMIC_MIN_SIZE, PAGE_SIZE} :
        size % WORD_SIZE = 0
  /\ Maps \subseteq Seq(MapEntry)

VARIABLES
  given,         (* The memory map as the boot loader has made it.           *)
  map,           (* The memory map as mm_init changes it.                    *)
  i,             (* The entry that mm_init looks at next.                    *)
  newblock,      (* The region of the last available entry, or NULL.         *)
  bitmap_stack,  (* The regions, as they are taken from the stack.           *)
  firstblock,    (* The head of the chain of regions.                        *)
  m_dyn_base,    (* The address of the heap.                                 *)
  cleared        (* The addresses mm_initmemblock has written zeroes to.     *)

vars == <<given, map, i, newblock, bitmap_stack, firstblock, m_dyn_base, cleared>>

-----------------------------------------------------------------------------
(* Map entries.                                                            *)

Wrap(n) == n % ADDR_MOD

(* The distance between two words, read as a signed number, made positive. *)
SignedDistance(new, old) ==
  LET d == Wrap(new - old)
  IN  IF d >= ADDR_MOD \div 2 THEN ADDR_MOD - d ELSE d

(* block_setstart that forgets the length. *)
SetStartOnly(b, new) == [b EXCEPT !.addr = new]

(* The length shrinks by the distance, whichever way the start moves. *)
block_setstart(b, new) ==
  [b EXCEPT !.addr = new, !.len = Wrap(@ - SignedDistance(new, b.addr))]

block_addstart(b, inc) == block_setstart(b, Wrap(b.addr + inc))

block_setend(b, new) == [b EXCEPT !.len = Wrap(new - b.addr)]

block_getend(b) == Wrap(b.addr + b.len)

(* The test of the start instead of the end. *)
StartsUnder1MB(b) == b.addr < ONE_MB

is_block_under1mb(b) == block_getend(b) < ONE_MB

is_partofblock_under1mb(b) == block_getend(b) >= ONE_MB /\ b.addr < ONE_MB

(* What the boot loader hands over: available memory above 1 MB comes in   *)
(* whole bitmap words, and no available entry reaches further behind the   *)
(* last address than 1 MB.                                                 *)
ASSUME MapAssumption ==
  \A m \in Maps : \A e \in DOMAIN m :
     m[e].type = Available =>
       /\ m[e].addr + m[e].len < ADDR_MOD + ONE_MB
       /\ is_block_under1mb(m[e]) \/ (m[e].addr % WORD_SIZE = 0 /\ m[e].len % WORD_SIZE = 0)

align_up(address, align) ==
  IF address % align = 0 THEN address ELSE Wrap(address + align - (address % align))

-----------------------------------------------------------------------------
(* Frames and bitmap words in size bytes: the largest number of frames,    *)
(* counted down from size / BLOCK_SIZE, that fits together with its bitmap *)
(* words.  The count wraps around when not even one bitmap word fits.      *)

Bitmaps(blocks) == blocks \div UINT32BITS + 1

(* The bitmap of all memory above 1 MB would fit below it. *)
ASSUME BitmapAssumption == Bitmaps((ADDR_MOD - ONE_MB) \div PAGE_SIZE) * WORD_SIZE <= ONE_MB

calcsize(blocks) == Wrap(blocks * PAGE_SIZE + Bitmaps(blocks) * WORD_SIZE)

(* calc_blocks without the loop. *)
BlocksWithoutLoop(size) == size \div PAGE_SIZE

calc_blocks(size) ==
  LET start == size \div PAGE_SIZE
      fits  == {k \in Address : calcsize(Wrap(start - k)) <= size}
  IN  Wrap(start - CHOOSE k \in fits : \A l \in fits : k <= l)

-----------------------------------------------------------------------------
(* mm_initmemblock, step by step.                                          *)

(* A part under 1 MB, a conflict with the kernel, or the bytes of the heap *)
(* that stay in the entry.                                                 *)
Uncut(b) == b

(* The part of an entry that lies under 1 MB is cut off. *)
CutLow(b) == IF is_partofblock_under1mb(b) THEN block_setstart(b, ONE_MB) ELSE b

(* "Cut conflict between kernel memory and block memory": an entry that    *)
(* ends above the kernel starts at its end from now on.                    *)
CutKernel(b) ==
  IF block_getend(b) > kernel_end THEN block_setstart(b, kernel_end)
  ELSE IF b.addr < kernel_start THEN block_setend(b, kernel_start)
  ELSE b

(* The first entry that is long enough gives its first bytes to the heap. *)
TakesHeap(b) == b.len >= MEM_DYNAMIC_MIN_SIZE /\ m_dyn_base = NoHeap

CutHeap(b) == IF TakesHeap(b) THEN block_addstart(b, MEM_DYNAMIC_MIN_SIZE) ELSE b

NothingLeft(b) == align_up(b.addr, PAGE_SIZE) >= block_getend(b)

CutPage(b) == block_setstart(b, align_up(b.addr, PAGE_SIZE))

(* The addresses of n bytes from addr on. *)
Bytes(addr, n) == {Wrap(addr + k) : k \in 0 .. n - 1}

(* The entry is rejected: it is marked as reserved, there is no region. *)
Reject(b) ==
  /\ map' = [map EXCEPT ![i] = [b EXCEPT !.type = Reserved]]
  /\ newblock' = NULL
  /\ UNCHANGED <<bitmap_stack, firstblock, cleared>>

RejectLow(b) ==
  /\ is_block_under1mb(b)
  /\ UNCHANGED m_dyn_base
  /\ Reject(b)

(* A chain in which nothing is ever hooked to the region before. *)
Unlinked(regions, new) == regions

(* The regions after mm_init has hooked region "new" to the one of the     *)
(* entry before: if that entry gave no region nothing is hooked.           *)
Hooked(regions, new) ==
  IF newblock = NULL THEN regions ELSE [regions EXCEPT ![newblock].next = new]

RejectShort(b) ==
  /\ NothingLeft(b)
  /\ Reject(b)

(* alloc_bitmap_list has nothing to give; and the same off by one. *)
StackOverfull == Len(bitmap_stack) > BITMAP_STACK_SIZE
StackFull == Len(bitmap_stack) >= BITMAP_STACK_SIZE

(* The entry is cleared and becomes a region at the top of bitmap_stack.   *)
(* When the stack is full alloc_bitmap_list returns NULL: the entry of the *)
(* region is written to address 0 and the region is lost.                  *)
MakeRegion(b) ==
  LET new == Len(bitmap_stack) + 1
      region == [first_block |-> b.addr, blocks_count |-> calc_blocks(b.len),
                 size |-> b.len, entry |-> i, next |-> NULL]
  IN  /\ map' = [map EXCEPT ![i] = b]
      /\ cleared' = cleared \union Bytes(b.addr, b.len)
      /\ IF StackFull
         THEN /\ newblock' = NULL
              /\ UNCHANGED <<bitmap_stack, firstblock>>
         ELSE /\ newblock' = new
              /\ bitmap_stack' = Hooked(Append(bitmap_stack, region), new)
              /\ firstblock' = IF firstblock = NULL THEN new ELSE firstblock

mm_initmemblock(me) ==
  \/ RejectLow(me)
  \/ LET kept == CutKernel(CutLow(me))
         rest == CutHeap(kept)
     IN  /\ ~ is_block_under1mb(me)
         /\ m_dyn_base' = IF TakesHeap(kept) THEN kept.addr ELSE m_dyn_base
         /\ \/ RejectShort(rest)
            \/ ~ NothingLeft(rest) /\ MakeRegion(CutPage(rest))

-----------------------------------------------------------------------------
Init ==
  /\ given \in Maps
  /\ map = given
  /\ i = 1
  /\ newblock = NULL
  /\ bitmap_stack = <<>>
  /\ firstblock = NULL
  /\ m_dyn_base = NoHeap
  /\ cleared = {}

(* One turn of the loop in mm_init. *)
mm_init ==
  /\ i <= Len(map)
  /\ i' = i + 1
  /\ UNCHANGED given
  /\ IF map[i].type = Available
     THEN mm_initmemblock(map[i])
     ELSE UNCHANGED <<map, newblock, bitmap_stack, firstblock, m_dyn_base, cleared>>

Next == mm_init

Spec == Init /\ [][Next]_vars

-----------------------------------------------------------------------------
(* Properties.                                                             *)

Region == 1 .. Len(bitmap_stack)

(* Frames and bitmap of a region. *)
RegionMemory(r) ==
  LET b == bitmap_stack[r]
  IN  Bytes(b.first_block, b.blocks_count * PAGE_SIZE + Bitmaps(b.blocks_count) * WORD_SIZE)

(* The memory an entry of the map stands for, with both address words. *)
EntryMemory(e) == {e.high * ADDR_MOD + e.addr + k : k \in 0 .. e.len - 1}

KernelMemory == kernel_start .. kernel_end - 1

HeapMemory == IF m_dyn_base = NoHeap THEN {} ELSE Bytes(m_dyn_base, MEM_DYNAMIC_MIN_SIZE)

TypeOK ==
  /\ given \in Seq(MapEntry)
  /\ map \in Seq(MapEntry) /\ Len(map) = Len(given)
  /\ i \in 1 .. Len(map) + 1
  /\ bitmap_stack \in Seq([first_block : Address, blocks_count : Address, size : Address,
                           entry : 1 .. Len(map), next : Region \union {NULL}])
  /\ Len(bitmap_stack) <= BITMAP_STACK_SIZE
  /\ {newblock, firstblock} \subseteq Region \union {NULL}
  /\ m_dyn_base \in Address \union {NoHeap}
  /\ cleared \subseteq Address

(* The map of a PC: one available entry reaches above 1 MB, the kernel     *)
(* image lies in it, and it goes on behind the image.                      *)
OneHighEntry ==
  LET high == {e \in 1 .. Len(given) : /\ given[e].type = Available
                                       /\ given[e].addr + given[e].len > ONE_MB}
  IN  \E e \in high : high = {e} /\ kernel_start .. kernel_end \subseteq EntryMemory(given[e])

(* In the map of a PC, setting up the regions neither clears the kernel    *)
(* image nor puts any of it into a region or the heap; and the heap lies   *)
(* in available memory, where no clearing and no region reaches into it.   *)
KernelAndHeapKept ==
  OneHighEntry =>
    /\ KernelMemory \intersect (cleared \union HeapMemory) = {}
    /\ HeapMemory \intersect cleared = {}
    /\ \A r \in Region : (KernelMemory \union HeapMemory) \intersect RegionMemory(r) = {}
    /\ HeapMemory \subseteq
         UNION {EntryMemory(given[e]) : e \in {d \in 1 .. Len(given) : given[d].type = Available}}

(* The last address of an entry lies in the kernel image, or is the one    *)
(* before it.  (The code never reads the high word of an address.)         *)
EndsInKernel(e) == e.type = Available /\ e.addr + e.len <= kernel_end

(* Below the end of the kernel image mm_init clears or hands out only what *)
(* lies above 1 MB and in an entry that ends inside the image, or with it: *)
(* such an entry is not cut, any other one is, in whatever entries of the  *)
(* map the image lies.                                                     *)
KernelKept ==
  \A a \in cleared \union HeapMemory \union UNION {RegionMemory(r) : r \in Region} :
     a < kernel_end =>
       /\ a >= ONE_MB
       /\ \E e \in {given[d] : d \in 1 .. Len(given)} :
            EndsInKernel(e) /\ a \in e.addr .. e.addr + e.len - 1

(* Frames start at page borders, and the frames and the bitmap of a region *)
(* lie in the memory of the map entry it was made from, as it would be     *)
(* without the high word of its address, unless the entry starts above the *)
(* kernel: then it is moved down, and starts at the first page border      *)
(* behind the kernel, or behind the heap if the entry gave that.           *)
RegionsPlaced ==
  \A r \in Region :
     LET e == given[bitmap_stack[r].entry]
     IN  /\ bitmap_stack[r].first_block % PAGE_SIZE = 0
         /\ IF e.addr <= kernel_end
            THEN RegionMemory(r) \subseteq EntryMemory([e EXCEPT !.high = 0])
            ELSE \E start \in {kernel_end, kernel_end + MEM_DYNAMIC_MIN_SIZE} :
                   bitmap_stack[r].first_block = align_up(start, PAGE_SIZE)

(* Whether mm_init has made a region by the end, without which frame_alloc *)
(* follows a NULL pointer: in the map of a PC it has exactly if a page     *)
(* border is left behind the kernel and, if there is room for it, behind   *)
(* the heap, and the memory ends below the last address.  An entry that    *)
(* ends there, or goes on behind it, has an end of 0 or a little more to   *)
(* the code, and is rejected.                                              *)
RoomForFrames(e) ==
  LET end == e.addr + e.len
      start == IF end - kernel_end >= MEM_DYNAMIC_MIN_SIZE
               THEN kernel_end + MEM_DYNAMIC_MIN_SIZE ELSE kernel_end
  IN  end < ADDR_MOD /\ \E border \in start .. end - 1 : border % PAGE_SIZE = 0

FrameAllocatorReady ==
  OneHighEntry /\ i > Len(map) =>
    (firstblock # NULL <=>
       \E e \in 1 .. Len(given) : /\ given[e].type = Available
                                 /\ kernel_end \in EntryMemory(given[e])
                                 /\ RoomForFrames(given[e]))

(* The available entries that mm_init has looked at and not rejected.      *)
Kept(e) == e < i /\ given[e].type = Available /\ map[e].type = Available

(* The regions that frame_alloc and frame_free get to: from firstblock     *)
(* along next, up to the first NULL.                                       *)
Reachable(r) ==
  \A S \in SUBSET Region :
     /\ firstblock \in S
     /\ \A s \in S : bitmap_stack[s].next \in S \union {NULL}
     => r \in S

(* Which memory the frame allocator gets to: that of every entry kept, but *)
(* for those that come after an available entry which was rejected when    *)
(* there was a region already (mm_init hooks the next region to nothing,   *)
(* and those behind it to that one), and for those that find bitmap_stack  *)
(* used up.                                                                *)
ChainComplete ==
  \A e \in 1 .. i - 1 :
     (\E r \in Region : bitmap_stack[r].entry = e /\ Reachable(r)) <=>
       /\ Kept(e)
       /\ \A d \in 1 .. e - 1 : given[d].type = Available /\ ~ Kept(d) =>
                                 \A c \in 1 .. d - 1 : ~ Kept(c)
       /\ Cardinality({d \in 1 .. e : Kept(d)}) <= BITMAP_STACK_SIZE

(* A region has as many frames as fit in its memory with their bitmap.     *)
MostFrames ==
  \A r \in Region :
     LET size == bitmap_stack[r].size
         fit  == {b \in 0 .. size : b * PAGE_SIZE + Bitmaps(b) * WORD_SIZE <= size}
     IN  /\ bitmap_stack[r].blocks_count \in fit
         /\ \A b \in fit : b <= bitmap_stack[r].blocks_count

=============================================================================
