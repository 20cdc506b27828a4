----------------------------- MODULE PhysFrames -----------------------------
(***************************************************************************)
(* The page-frame allocator of src/kernel/arch/pmm.c: frame_alloc and      *)
(* frame_free over the chain of regions that mm_init has built.            *)
(*                                                                         *)
(* A region is an array of frames followed by its bitmap.  The chain and   *)
(* the geometry of the regions do not change once mm_init has run, so they *)
(* are constants here (MemInit models how they come to be).  The clients   *)
(* are the callers: they ask for runs of frames and give frames back that  *)
(* they hold, in pieces if they like.                                      *)
(***************************************************************************)
EXTENDS Integers, FiniteSets

CONSTANTS
  Client,        (* The callers of the allocator.                            *)
  RegionCount,   (* The number of regions in the chain from firstblock.      *)
  first_block,   (* The address of the first frame of each region.           *)
  blocks_count,  (* The number of frames of each region.                     *)
  UINT32BITS,    (* The number of bits in a bitmap word: 32 in the code.     *)
  BLOCK_SIZE,    (* The size of a frame in bytes: 4096 in the code.          *)
  Counts,        (* The "count" arguments of the calls.                      *)
  Aligns         (* The "align_up" arguments of frame_alloc.                 *)

(* The regions, in the order of the chain. *)
Region == 1 .. RegionCount

ASSUME SizeAssumption ==
  /\ UINT32BITS \in Nat /\ UINT32BITS > 1
  /\ BLOCK_SIZE \in Nat \ {0}
  /\ Counts \subseteq Nat
  /\ Aligns \subseteq Nat

ASSUME ChainAssumption ==
  /\ RegionCount \in Nat \ {0}
  /\ first_block \in [Region -> Nat]
  /\ blocks_count \in [Region -> Nat]

VARIABLES
  bitmap,                  (* The frames of each region whose bit is set.    *)
  search_next_startblock,  (* The bitmap word where the next search starts.  *)
  owns                     (* The frames (addresses) each client was given   *)
                           (* and has not passed to frame_free since.        *)

vars == <<bitmap, search_next_startblock, owns>>

-----------------------------------------------------------------------------
(* Geometry.  The search covers blocks_count / 32 + 1 words, so the bitmap *)
(* has bits for frames past the end of the region; bit b of word w stands  *)
(* for frame w * 32 + b whether that frame exists or not.                  *)

Bit == 0 .. UINT32BITS - 1

Words(r) == blocks_count[r] \div UINT32BITS + 1

Slot(r) == 0 .. Words(r) * UINT32BITS - 1

FrameAddr(r, k) == first_block[r] + k * BLOCK_SIZE

(* The frames k, k + 1, ..., k + n - 1 of region r, by address. *)
RunAddrs(r, k, n) == {FrameAddr(r, i) : i \in k .. k + n - 1}

(* The set bits of word w. *)
WordBits(r, w) == {b \in Bit : w * UINT32BITS + b \in bitmap[r]}

-----------------------------------------------------------------------------
(* The scan of one word.  The loop visits j = 0, 1, ..., 31 with "bit" as  *)
(* the mask it tests.  While no streak is open it skips every j that is    *)
(* not a multiple of the alignment, and the "continue" that skips j also   *)
(* skips the shift of the mask: at j the loop tests the bit that lies as   *)
(* many places below j as it has skipped positions so far.                 *)

TestedBit(skip, j) == j - Cardinality({i \in skip : i < j})

(* The positions the loop skips in a word whose set bits are B: those that *)
(* are not aligned and come after a skipped position or after a set bit,   *)
(* where no streak is open.                                                *)
Skipped(B, align) ==
  CHOOSE skip \in SUBSET Bit :
     \A j \in Bit :
        j \in skip <=> /\ j % align # 0
                       /\ j - 1 \in skip \/ TestedBit(skip, j - 1) \in B

(* The positions at which the loop finds a clear bit. *)
SeenClear(B, align) ==
  LET skip == Skipped(B, align)
  IN  {j \in Bit \ skip : TestedBit(skip, j) \notin B}

(* Fits with "32 - j < count" off by one: the run may leave the word. *)
FitsOneLate(B, n, align) ==
  LET seen == SeenClear(B, align) \union {UINT32BITS}
  IN  {j \in 0 .. UINT32BITS - n + 1 : j .. j + n - 1 \subseteq seen}

(* Fits without the reset of the streak at a set bit. *)
FitsNoReset(B, n, align) == (0 .. UINT32BITS - n) \intersect SeenClear(B, align)

(* The positions where a streak of n clear bits can start; the loop gives  *)
(* up on a word as soon as fewer than n positions are left.                *)
Fits(B, n, align) ==
  LET seen == SeenClear(B, align)
  IN  {j \in 0 .. UINT32BITS - n : j .. j + n - 1 \subseteq seen}

(* The loop has found a clear bit before it gave up on the word. *)
HasFree(B, n, align) ==
  (0 .. UINT32BITS - n) \intersect SeenClear(B, align) # {}

(* The words of region r that one call may search. *)
Searched(r) == search_next_startblock[r] .. Words(r) - 1

(* NextStart of a search that moves the hint at every clear bit it sees    *)
(* (isnotset_snsb is never reset).                                         *)
NextStartLast(r, last, n, align) ==
  LET seen == {w \in Searched(r) : w <= last /\ HasFree(WordBits(r, w), n, align)}
  IN  IF seen = {} THEN search_next_startblock[r]
      ELSE CHOOSE w \in seen : \A v \in seen : w >= v

(* The start of the search after a call that looked at the words up to w:  *)
(* the first of them in which it saw a clear bit.                          *)
NextStart(r, last, n, align) ==
  LET seen == {w \in Searched(r) : w <= last /\ HasFree(WordBits(r, w), n, align)}
  IN  IF seen = {} THEN search_next_startblock[r]
      ELSE CHOOSE w \in seen : \A v \in seen : w <= v

-----------------------------------------------------------------------------
Init ==
  /\ bitmap = [r \in Region |-> {}]
  /\ search_next_startblock = [r \in Region |-> 0]
  /\ owns = [c \in Client |-> {}]

(* "count == 0 || count > 32" ends both calls at once. *)
BadCount(count) == count = 0 \/ count > UINT32BITS

(* Align_up is replaced by 1 when it is 0. *)
Alignment(align_up) == IF align_up = 0 THEN 1 ELSE align_up

(* The positions in word w of region r where n frames fit. *)
Room(r, w, n, align) == Fits(WordBits(r, w), n, align)

(* The search of region r ends without a result. *)
NoRoom(r, n, align) == \A w \in Searched(r) : Room(r, w, n, align) = {}

(* FirstRoom of an allocator that takes the last region with room. *)
LastRoom(r, w, j, n, align) ==
  /\ j \in Room(r, w, n, align)
  /\ \A i \in Room(r, w, n, align) : j >= i
  /\ \A s \in Region : s > r => NoRoom(s, n, align)

(* The place where frame_alloc stops: the first region in the chain that   *)
(* has room, the first word in it, the first position in that word.        *)
FirstRoom(r, w, j, n, align) ==
  /\ j \in Room(r, w, n, align)
  /\ \A i \in Room(r, w, n, align) : j <= i
  /\ \A v \in Searched(r) : v < w => Room(r, v, n, align) = {}
  /\ \A s \in Region : s < r => NoRoom(s, n, align)

(* frame_alloc returns a run: its bits are set, and the search hints of    *)
(* the regions walked on the way move up to the first word with a clear    *)
(* bit.                                                                    *)
AllocRun(c, n, align) ==
  \E r \in Region :
    \E w \in Searched(r) : \E j \in Room(r, w, n, align) :
      LET k == w * UINT32BITS + j
      IN  /\ FirstRoom(r, w, j, n, align)
          /\ bitmap' = [bitmap EXCEPT ![r] = @ \union (k .. k + n - 1)]
          /\ search_next_startblock' =
               [s \in Region |->
                  IF s < r THEN NextStart(s, Words(s) - 1, n, align)
                  ELSE IF s = r THEN NextStart(r, w, n, align)
                  ELSE search_next_startblock[s]]
          /\ owns' = [owns EXCEPT ![c] = @ \union RunAddrs(r, k, n)]

(* frame_alloc returns NULL after it has walked the whole chain: the       *)
(* search hints move all the same.                                         *)
AllocFails(n, align) ==
  /\ \A r \in Region : NoRoom(r, n, align)
  /\ search_next_startblock' =
       [s \in Region |-> NextStart(s, Words(s) - 1, n, align)]
  /\ UNCHANGED <<bitmap, owns>>

frame_alloc(c, count, align_up) ==
  \/ BadCount(count) /\ UNCHANGED vars
  \/ ~ BadCount(count) /\ AllocRun(c, count, Alignment(align_up))
  \/ ~ BadCount(count) /\ AllocFails(count, Alignment(align_up))

-----------------------------------------------------------------------------
(* frame_free compares the address with first_block + blocks_count, a      *)
(* number of frames added to a number of bytes.                            *)
InRange(r, addr) ==
  first_block[r] <= addr /\ addr <= first_block[r] + blocks_count[r]

(* The bit number is the frame number modulo 31, and the rest of the frame *)
(* number gives the word: from frame 31 on that is the bit of another      *)
(* frame.                                                                  *)
FreedSlot(frame) ==
  LET bitn    == frame % (UINT32BITS - 1)
      bitmapn == (frame - bitn) \div UINT32BITS
  IN  bitmapn * UINT32BITS + bitn

(* FreedBits of a frame_free that clears one bit too many. *)
FreedOneMore(r, addr, count) ==
  LET frame == (addr - first_block[r]) \div BLOCK_SIZE
      k     == FreedSlot(frame)
  IN  IF UINT32BITS - (frame % (UINT32BITS - 1)) < count THEN {} ELSE k .. k + count

(* The bits that frame_free clears in region r.  A run that does not fit   *)
(* in the word clears nothing.                                             *)
FreedBits(r, addr, count) ==
  LET frame == (addr - first_block[r]) \div BLOCK_SIZE
      k     == FreedSlot(frame)
  IN  IF UINT32BITS - (frame % (UINT32BITS - 1)) < count THEN {} ELSE k .. k + count - 1

(* The caller gives up count frames from addr on, and frame_free clears    *)
(* their bits in the first region whose range holds the address.           *)
frame_free(c, addr, count) ==
  LET released == {addr + i * BLOCK_SIZE : i \in 0 .. count - 1}
  IN  /\ released \subseteq owns[c]
      /\ owns' = [owns EXCEPT ![c] = @ \ released]
      /\ UNCHANGED search_next_startblock
      /\ \/ BadCount(count) /\ UNCHANGED bitmap
         \/ /\ ~ BadCount(count)
            /\ \E r \in Region :
                 /\ InRange(r, addr)
                 /\ \A s \in Region : s < r => ~ InRange(s, addr)
                 /\ bitmap' = [bitmap EXCEPT ![r] = @ \ FreedBits(r, addr, count)]
         \/ /\ ~ BadCount(count)   (* "Cant free block": only a log line.  *)
            /\ \A r \in Region : ~ InRange(r, addr)
            /\ UNCHANGED bitmap

-----------------------------------------------------------------------------
Next ==
  \E c \in Client, count \in Counts :
     \/ \E align_up \in Aligns : frame_alloc(c, count, align_up)
     \/ \E addr \in owns[c] : frame_free(c, addr, count)

Spec == Init /\ [][Next]_vars

-----------------------------------------------------------------------------
(* Properties.                                                             *)

(* Every bit that is set lies in a word of its bitmap, a hint points into  *)
(* the bitmap, and clients hold addresses of frames the bitmaps cover.     *)
AllFrames == UNION {{FrameAddr(r, k) : k \in Slot(r)} : r \in Region}

TypeOK ==
  /\ bitmap \in [Region -> SUBSET Nat]
  /\ \A r \in Region : bitmap[r] \subseteq Slot(r)
  /\ search_next_startblock \in [Region -> Nat]
  /\ \A r \in Region : search_next_startblock[r] < Words(r)
  /\ owns \in [Client -> SUBSET AllFrames]

(* No frame is in the hands of two callers of frame_alloc.                 *)
NoSharedFrame ==
  \A c, d \in Client : c # d => owns[c] \intersect owns[d] = {}

(* As long as a caller holds a frame its bit is set: nobody's frame_free   *)
(* of other frames has put it back into circulation.                       *)
HeldBitsSet ==
  \A c \in Client, r \in Region : \A k \in Slot(r) :
     FrameAddr(r, k) \in owns[c] => k \in bitmap[r]

(* Frame_alloc hands out bits past the end of a region (where the region   *)
(* keeps its bitmap) only when the words it searches have no run of that   *)
(* length left among the frames that exist.                                *)
PastEndOnlyWhenFull ==
  [][\A r \in Region :
       LET given == bitmap'[r] \ bitmap[r]
           n     == Cardinality(given)
       IN  (\E k \in given : k >= blocks_count[r]) =>
             \A k \in 0 .. blocks_count[r] - n :
                /\ k \div UINT32BITS >= search_next_startblock[r]
                /\ (k % UINT32BITS) + n <= UINT32BITS
                => (k .. k + n - 1) \intersect bitmap[r] # {}]_vars

(* A frame that is given to frame_free by the caller that holds it is      *)
(* available again after the call.                                         *)
ReleasedAreCleared ==
  [][\A c \in Client, r \in Region : \A k \in Slot(r) :
        FrameAddr(r, k) \in owns[c] \ owns'[c] => k \notin bitmap'[r]]_vars

=============================================================================
