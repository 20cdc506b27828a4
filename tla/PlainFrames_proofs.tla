------------------------- MODULE PlainFrames_proofs -------------------------
(***************************************************************************)
(* Proofs about the page-frame allocator under the assumptions of          *)
(* PlainFrames, for every number of regions and clients, every size of     *)
(* region, large ones included, and every length of a bitmap word.         *)
(***************************************************************************)
EXTENDS PlainFrames, NatLemmas, FiniteSetTheorems, TLAPS

USE DEF Region, Bit

-----------------------------------------------------------------------------
(* The scan of a word when no alignment is asked for.                      *)

(* With align_up 0 or 1 the alignment in use is 1. *)
LEMMA AlignmentIsOne ==
  ASSUME NEW a \in Aligns
  PROVE  Alignment(a) = 1
BY NoAlignment DEF Alignment

(* No position is skipped. *)
LEMMA NothingSkipped ==
  ASSUME NEW B
  PROVE  Skipped(B, 1) = {}
<1> DEFINE After(skip, j) == j - 1 \in skip \/ TestedBit(skip, j - 1) \in B
           Is(skip) == \A j \in Bit : j \in skip <=> j % 1 # 0 /\ After(skip, j)
<1>1. \A j \in Bit : j % 1 = 0
  BY SizeAssumption
<1> HIDE DEF After
<1>2. {} \in SUBSET Bit /\ Is({})
  BY <1>1
<1>3. \A skip \in SUBSET Bit : Is(skip) => skip = {}
  BY <1>1
<1>4. Skipped(B, 1) = CHOOSE skip \in SUBSET Bit : Is(skip)
  BY Zenon DEF Skipped, After
<1> HIDE DEF Is
<1>5. QED
  BY <1>2, <1>3, <1>4

(* The loop sees exactly the clear bits of the word. *)
LEMMA SeesClearBits ==
  ASSUME NEW B
  PROVE  SeenClear(B, 1) = Bit \ B
<1>1. \A j \in Bit : {i \in {} : i < j} = {}
  OBVIOUS
<1>2. \A j \in Bit : TestedBit({}, j) = j - 0
  BY <1>1, FS_EmptySet DEF TestedBit
<1>3. \A j \in Bit : TestedBit({}, j) = j
  BY <1>2, SizeAssumption
<1>4. QED
  BY <1>3, NothingSkipped DEF SeenClear

(* A fitting position is the start of a run of clear bits in the word. *)
LEMMA FitsAreClear ==
  ASSUME NEW B, NEW n \in 1 .. UINT32BITS, NEW j \in Fits(B, n, 1)
  PROVE  /\ j \in Nat /\ j + n <= UINT32BITS
         /\ j .. j + n - 1 \subseteq Bit \ B
BY SeesClearBits, SizeAssumption DEF Fits

-----------------------------------------------------------------------------
(* Words, slots and addresses.                                             *)

(* Words are numbered from 0 and the bits of a word are slots. *)
LEMMA WordsType ==
  ASSUME NEW r \in Region
  PROVE  /\ blocks_count[r] \in Nat
         /\ Words(r) \in Nat \ {0}
         /\ blocks_count[r] < Words(r) * UINT32BITS
<1>1. blocks_count[r] \in Nat /\ UINT32BITS \in Nat \ {0}
  BY ChainAssumption, SizeAssumption
<1> DEFINE q == blocks_count[r] \div UINT32BITS
<1>2. q \in Nat /\ blocks_count[r] < q * UINT32BITS + UINT32BITS
  BY <1>1, DivideBounds
<1> HIDE DEF q
<1>3. (q + 1) * UINT32BITS = q * UINT32BITS + UINT32BITS
  BY <1>1, <1>2
<1>4. Words(r) = q + 1
  BY DEF Words, q
<1>5. QED
  BY <1>1, <1>2, <1>3, <1>4

(* A bit of a word of the bitmap is a slot of the region. *)
LEMMA BitsAreSlots ==
  ASSUME NEW r \in Region, NEW w \in Nat, w < Words(r), NEW b \in Bit
  PROVE  w * UINT32BITS + b \in Slot(r)
<1>1. w * UINT32BITS + UINT32BITS <= Words(r) * UINT32BITS
  BY TimesStrict, WordsType, SizeAssumption
<1>2. w * UINT32BITS \in Nat /\ Words(r) * UINT32BITS \in Nat
  BY WordsType, SizeAssumption
<1>3. QED
  BY <1>1, <1>2, SizeAssumption DEF Slot

(* The addresses of a region lie between its first frame and its end. *)
LEMMA AddrBounds ==
  ASSUME NEW r \in Region, NEW k \in Slot(r)
  PROVE  /\ k \in Nat /\ k * BLOCK_SIZE \in Nat
         /\ FrameAddr(r, k) \in Nat
         /\ first_block[r] <= FrameAddr(r, k)
         /\ FrameAddr(r, k) < RegionEnd(r)
<1>1. /\ Words(r) * UINT32BITS \in Nat /\ first_block[r] \in Nat
      /\ BLOCK_SIZE \in Nat \ {0}
  BY WordsType, SizeAssumption, ChainAssumption, SMTT(30)
<1>2. k \in Nat /\ k < Words(r) * UINT32BITS
  BY <1>1 DEF Slot
<1>3. k * BLOCK_SIZE + BLOCK_SIZE <= (Words(r) * UINT32BITS) * BLOCK_SIZE
  BY <1>1, <1>2, TimesStrict
<1>4. k * BLOCK_SIZE \in Nat /\ (Words(r) * UINT32BITS) * BLOCK_SIZE \in Nat
  BY <1>1, <1>2
<1>5. QED
  BY <1>1, <1>2, <1>3, <1>4 DEF FrameAddr, RegionEnd

(* No address stands for two slots. *)
LEMMA AddrInjective ==
  ASSUME NEW r \in Region, NEW i \in Slot(r),
         NEW s \in Region, NEW k \in Slot(s),
         FrameAddr(r, i) = FrameAddr(s, k)
  PROVE  r = s /\ i = k
<1>1. r = s
  <2>1. /\ RegionEnd(r) \in Int /\ RegionEnd(s) \in Int
        /\ first_block[r] \in Nat /\ first_block[s] \in Nat
    <3>1. \A p \in Region : Words(p) * UINT32BITS * BLOCK_SIZE \in Nat
      BY WordsType, SizeAssumption
    <3>2. QED
      BY <3>1, ChainAssumption, SMTT(30) DEF RegionEnd
  <2>2. FrameAddr(r, i) \in Nat /\ FrameAddr(s, k) \in Nat
    BY AddrBounds
  <2>3. /\ first_block[r] <= FrameAddr(r, i) /\ FrameAddr(r, i) < RegionEnd(r)
        /\ first_block[s] <= FrameAddr(s, k) /\ FrameAddr(s, k) < RegionEnd(s)
    BY AddrBounds
  <2>4. QED
    BY <2>1, <2>2, <2>3, RegionsApart
<1>2. i * BLOCK_SIZE = k * BLOCK_SIZE
  BY <1>1, AddrBounds, ChainAssumption, SMTT(30) DEF FrameAddr
<1>3. i = k
  <2>1. BLOCK_SIZE \in Nat \ {0}
    BY SizeAssumption
  <2>2. CASE i < k
    BY <1>2, <2>1, <2>2, AddrBounds, TimesStrict
  <2>3. CASE k < i
    BY <1>2, <2>1, <2>3, <1>1, AddrBounds, TimesStrict
  <2>4. QED
    BY <2>2, <2>3, AddrBounds
<1>4. QED
  BY <1>1, <1>3

-----------------------------------------------------------------------------
(* What the two calls do to a bitmap.                                      *)

(* A search hint stays inside the bitmap. *)
LEMMA NextStartType ==
  ASSUME TypeOK, NEW r \in Region, NEW last, NEW n, NEW align
  PROVE  NextStart(r, last, n, align) \in Nat /\ NextStart(r, last, n, align) < Words(r)
<1> DEFINE seen == {w \in Searched(r) : w <= last /\ HasFree(WordBits(r, w), n, align)}
<1>1. search_next_startblock[r] \in Nat /\ search_next_startblock[r] < Words(r)
  BY DEF TypeOK
<1>2. \A w \in Searched(r) : w \in Nat /\ w < Words(r)
  BY <1>1, WordsType DEF Searched
<1>3. seen \subseteq Nat /\ \A w \in seen : w < Words(r)
  BY <1>2
<1>4. NextStart(r, last, n, align) = IF seen = {} THEN search_next_startblock[r]
                                     ELSE CHOOSE w \in seen : \A v \in seen : w <= v
  BY DEF NextStart
<1> HIDE DEF seen
<1>5. seen # {} => \E w \in seen : \A v \in seen : w <= v
  BY <1>3, LeastNatural
<1>6. QED
  BY <1>1, <1>3, <1>4, <1>5

(* The bits of one word are those whose number has the word as quotient.   *)
LEMMA WordOfBit ==
  ASSUME NEW w \in Nat, NEW b \in Bit
  PROVE  w * UINT32BITS + b \in Nat /\ (w * UINT32BITS + b) \div UINT32BITS = w
BY QuotientRemainder, SizeAssumption

(* The frames of a run are all sound, or none of them is.                  *)
SoundTogether(r, k, n) ==
  k .. k + n - 1 \subseteq Sound[r] \/ (k .. k + n - 1) \intersect Sound[r] = {}

(* A frame is sound exactly if its word is not muddled.                    *)
LEMMA SoundByWord ==
  ASSUME NEW r \in Region, NEW k \in Slot(r)
  PROVE  k \in Sound[r] <=> k \div UINT32BITS \notin Muddled[r]
BY DEF Sound

(* So it is with a run inside one word.                                    *)
LEMMA RunInOneWord ==
  ASSUME NEW r \in Region, NEW w \in Nat, NEW j \in Nat, NEW n \in 1 .. UINT32BITS,
         j + n <= UINT32BITS,
         \A i \in w * UINT32BITS + j .. w * UINT32BITS + j + n - 1 : i \in Slot(r)
  PROVE  /\ SoundTogether(r, w * UINT32BITS + j, n)
         /\ w \in Muddled[r] =>
              (w * UINT32BITS + j .. w * UINT32BITS + j + n - 1) \intersect Sound[r] = {}
<1> DEFINE R == w * UINT32BITS + j .. w * UINT32BITS + j + n - 1
<1>1. ASSUME NEW i \in R
      PROVE  i \div UINT32BITS = w
  <2>1. UINT32BITS \in Nat /\ w * UINT32BITS \in Nat
    BY SizeAssumption
  <2> DEFINE b == i - w * UINT32BITS
  <2>2. b \in Bit /\ i = w * UINT32BITS + b
    BY <2>1
  <2> HIDE DEF b
  <2>3. QED
    BY <2>2, WordOfBit
<1>2. \A i \in R : i \in Sound[r] <=> w \notin Muddled[r]
  BY <1>1, SoundByWord
<1>3. QED
  BY <1>2 DEF SoundTogether

(* The bits frame_alloc sets are slots of the region, and were clear. *)
LEMMA RunWasClear ==
  ASSUME TypeOK, NEW r \in Region, NEW w \in Searched(r),
         NEW n \in 1 .. UINT32BITS, NEW j \in Room(r, w, n, 1)
  PROVE  LET k == w * UINT32BITS + j
         IN  /\ k \in Nat
             /\ k .. k + n - 1 \subseteq Slot(r) \ bitmap[r]
             /\ SoundTogether(r, k, n)
<1> DEFINE k == w * UINT32BITS + j
<1>1. w \in Nat /\ w < Words(r)
  BY WordsType DEF Searched, TypeOK
<1>2. j \in Nat /\ j .. j + n - 1 \subseteq Bit \ WordBits(r, w)
  BY FitsAreClear DEF Room
<1>3. w * UINT32BITS \in Nat
  BY <1>1, SizeAssumption
<1>4. ASSUME NEW i \in k .. k + n - 1
      PROVE  i \in Slot(r) \ bitmap[r]
  <2> DEFINE b == i - w * UINT32BITS
  <2>1. b \in j .. j + n - 1 /\ i = w * UINT32BITS + b
    BY <1>2, <1>3
  <2>2. b \in Bit /\ b \notin WordBits(r, w)
    BY <2>1, <1>2
  <2> HIDE DEF b
  <2>3. QED
    BY <2>1, <2>2, <1>1, BitsAreSlots DEF WordBits
<1>5. SoundTogether(r, k, n)
  <2>1. j + n <= UINT32BITS
    BY FitsAreClear DEF Room
  <2>2. QED
    BY <1>1, <1>2, <1>4, <2>1, RunInOneWord
<1>6. QED
  BY <1>2, <1>3, <1>4, <1>5

(* The bit that frame_free takes for the one of frame k. *)
LEMMA FreedSlotIs ==
  ASSUME NEW k \in Nat
  PROVE  LET bitn == k % (UINT32BITS - 1)
         IN  /\ bitn \in Bit /\ bitn < UINT32BITS - 1 /\ bitn <= k
             /\ (k - bitn) \div UINT32BITS \in Nat
             /\ FreedSlot(k) = ((k - bitn) \div UINT32BITS) * UINT32BITS + bitn
<1> DEFINE c == UINT32BITS - 1
           bitn == k % c
<1>1. c \in Nat \ {0} /\ UINT32BITS \in Nat \ {0}
  BY SizeAssumption
<1>2. bitn \in 0 .. c - 1 /\ k = (k \div c) * c + bitn /\ (k \div c) * c \in Nat
  <2> HIDE DEF c
  <2>1. bitn \in 0 .. c - 1 /\ k = (k \div c) * c + bitn
    BY <1>1, RemainderIs
  <2>2. k \div c \in Nat
    BY <1>1, DivideBounds
  <2>3. QED
    BY <1>1, <2>1, <2>2
<1>3. bitn <= k
  <2> HIDE DEF bitn, c
  <2>1. QED
    BY <1>1, <1>2
<1>4. (k - bitn) \div UINT32BITS \in Nat
  <2>1. k - bitn \in Nat
    BY <1>1, <1>2, <1>3
  <2>2. QED
    BY <1>1, <2>1, DivideBounds
<1>5. QED
  BY <1>1, <1>2, <1>3, <1>4 DEF FreedSlot

(* Frame_free recognises the address of a slot only in the region of the   *)
(* slot.  It clears the bits of the frames from that address on, or none   *)
(* at all, or bits of a muddled word.                                      *)
LEMMA FreedExactly ==
  ASSUME NEW r \in Region, NEW s \in Region, NEW k \in Slot(s),
         InRange(r, FrameAddr(s, k)), NEW count \in 1 .. UINT32BITS
  PROVE  /\ r = s
         /\ \/ FreedBits(r, FrameAddr(s, k), count) = {}
            \/ /\ FreedBits(r, FrameAddr(s, k), count) = k .. k + count - 1
               /\ k .. k + count - 1 \subseteq Slot(r)
            \/ FreedBits(r, FrameAddr(s, k), count) \intersect Sound[r] = {}
<1> DEFINE a == FrameAddr(s, k)
<1>1. /\ UINT32BITS \in Nat /\ UINT32BITS > 1 /\ BLOCK_SIZE \in Nat \ {0}
      /\ first_block[r] \in Nat /\ first_block[s] \in Nat
  BY SizeAssumption, ChainAssumption
<1>2. /\ k \in Nat /\ k * BLOCK_SIZE \in Nat /\ a \in Nat
      /\ first_block[s] <= a /\ a < RegionEnd(s)
  BY AddrBounds
<1>3. first_block[r] <= a /\ a <= first_block[r] + blocks_count[r]
  BY DEF InRange
<1>4. r = s
  <2>1. Words(r) * UINT32BITS \in Nat /\ blocks_count[r] < Words(r) * UINT32BITS
    BY WordsType, <1>1
  <2>2. Words(r) * UINT32BITS <= Words(r) * UINT32BITS * BLOCK_SIZE
    BY <2>1, <1>1
  <2>3. /\ blocks_count[r] \in Nat
        /\ Words(r) * UINT32BITS * BLOCK_SIZE \in Nat
        /\ Words(s) * UINT32BITS * BLOCK_SIZE \in Nat
    BY WordsType, <1>1
  <2>4. RegionEnd(r) \in Nat /\ RegionEnd(s) \in Nat /\ a < RegionEnd(r)
    BY <2>1, <2>2, <2>3, <1>1, <1>2, <1>3 DEF RegionEnd
  <2> HIDE DEF a
  <2>5. QED
    BY <2>4, <1>1, <1>2, <1>3, RegionsApart
<1>5. a - first_block[r] = k * BLOCK_SIZE
  BY <1>1, <1>2, <1>4 DEF FrameAddr
<1>6. (a - first_block[r]) \div BLOCK_SIZE = k
  BY <1>1, <1>2, <1>5, DivideOffset
<1> DEFINE bitn == k % (UINT32BITS - 1)
<1>7. FreedBits(r, a, count) =
        IF UINT32BITS - bitn < count THEN {}
        ELSE FreedSlot(k) .. FreedSlot(k) + count - 1
  BY <1>6 DEF FreedBits
<1>8. PICK w \in Nat : FreedSlot(k) = w * UINT32BITS + bitn /\ bitn \in Bit
  BY <1>2, FreedSlotIs
<1> HIDE DEF a, bitn
<1>9. CASE UINT32BITS - bitn < count
  BY <1>4, <1>7, <1>9 DEF a
<1>10. CASE ~ (UINT32BITS - bitn < count) /\ FreedSlot(k) = k
  <2>1. w * UINT32BITS + bitn + count <= Words(r) * UINT32BITS
    <3>1. k < Words(r) * UINT32BITS /\ Words(r) \in Nat /\ Words(r) * UINT32BITS \in Nat
      BY <1>1, <1>4, WordsType DEF Slot
    <3>2. w * UINT32BITS \in Nat /\ w * UINT32BITS < Words(r) * UINT32BITS
      BY <1>1, <1>8, <1>10, <3>1
    <3>3. w < Words(r)
      BY <1>1, <3>1, <3>2, TimesMonotone
    <3>4. w * UINT32BITS + UINT32BITS <= Words(r) * UINT32BITS
      BY <1>1, <3>1, <3>3, TimesStrict
    <3>5. QED
      BY <1>1, <1>8, <1>10, <3>1, <3>2, <3>4
  <2>2. k .. k + count - 1 \subseteq Slot(r)
    BY <1>1, <1>2, <1>8, <1>10, <2>1, WordsType DEF Slot
  <2>3. QED
    BY <1>4, <1>7, <1>10, <2>2 DEF a
<1>11. CASE ~ (UINT32BITS - bitn < count) /\ FreedSlot(k) # k
  <2>1. w \in Muddled[r]
    <3>1. FreedSlot(k) \div UINT32BITS = w
      BY <1>8, WordOfBit
    <3>2. k \in Mistaken[r]
      BY <1>4, <1>11 DEF Mistaken
    <3>3. QED
      BY <3>1, <3>2 DEF Muddled
  <2>2. ASSUME NEW i \in FreedSlot(k) .. FreedSlot(k) + count - 1
        PROVE  i \notin Sound[r]
    <3>1. w * UINT32BITS \in Nat /\ bitn \in Nat
      BY <1>1, <1>8
    <3> DEFINE b == i - w * UINT32BITS
    <3>2. b \in Bit /\ i = w * UINT32BITS + b
      BY <1>1, <1>8, <1>11, <3>1
    <3> HIDE DEF b
    <3>3. i \div UINT32BITS = w
      BY <3>2, WordOfBit
    <3>4. QED
      BY <2>1, <3>3 DEF Sound
  <2>3. QED
    BY <1>4, <1>7, <1>11, <2>2 DEF a
<1>12. QED
  BY <1>9, <1>10, <1>11 DEF a

-----------------------------------------------------------------------------
(* The steps of Next, taken apart once for all the theorems below.         *)

(* A step changes nothing, moves hints only, hands out a run of clear      *)
(* bits, or gives frames up and clears none or exactly the bits of those   *)
(* frames, or bits of frames that are not sound.                           *)
HintsKept ==
  /\ search_next_startblock' \in [Region -> Nat]
  /\ \A s \in Region : search_next_startblock'[s] < Words(s)

HintsMove == HintsKept /\ UNCHANGED <<bitmap, owns>>

HandOut(c, r, k, n) ==
  /\ k \in Nat
  /\ k .. k + n - 1 \subseteq Slot(r) \ bitmap[r]
  /\ SoundTogether(r, k, n)
  /\ bitmap' = [bitmap EXCEPT ![r] = @ \union (k .. k + n - 1)]
  /\ owns' = [owns EXCEPT ![c] = @ \union RunAddrs(r, k, n)]
  /\ HintsKept

GiveUp(c, released) ==
  /\ released \subseteq owns[c]
  /\ owns' = [owns EXCEPT ![c] = @ \ released]
  /\ UNCHANGED search_next_startblock

TakeBack(r, k, n, released) ==
  /\ k .. k + n - 1 \subseteq Slot(r)
  /\ released = RunAddrs(r, k, n)
  /\ bitmap' = [bitmap EXCEPT ![r] = @ \ (k .. k + n - 1)]

Muddle(r, bits) ==
  /\ bits \intersect Sound[r] = {}
  /\ bitmap' = [bitmap EXCEPT ![r] = @ \ bits]

Returned(released) ==
  \/ UNCHANGED bitmap
  \/ \E r \in Region, k \in Nat, n \in 1 .. UINT32BITS : TakeBack(r, k, n, released)
  \/ \E r \in Region : \E bits : Muddle(r, bits)

(* A call of frame_alloc. *)
LEMMA AllocStep ==
  ASSUME TypeOK, NEW c \in Client, NEW count \in Counts, NEW a \in Aligns,
         frame_alloc(c, count, a)
  PROVE  \/ UNCHANGED vars
         \/ HintsMove
         \/ \E r \in Region, k \in Nat, n \in 1 .. UINT32BITS : HandOut(c, r, k, n)
<1>1. CASE BadCount(count) /\ UNCHANGED vars
  BY <1>1
<1>2. ASSUME ~ BadCount(count)
      PROVE  count \in 1 .. UINT32BITS
  BY <1>2, SizeAssumption DEF BadCount
<1>3. CASE ~ BadCount(count) /\ AllocRun(c, count, 1)
  <2> DEFINE Found(r, w, j) ==
        LET k == w * UINT32BITS + j
        IN  /\ bitmap' = [bitmap EXCEPT ![r] = @ \union (k .. k + count - 1)]
            /\ search_next_startblock' =
                 [s \in Region |->
                    IF s < r THEN NextStart(s, Words(s) - 1, count, 1)
                    ELSE IF s = r THEN NextStart(r, w, count, 1)
                    ELSE search_next_startblock[s]]
            /\ owns' = [owns EXCEPT ![c] = @ \union RunAddrs(r, k, count)]
  <2>1. PICK r \in Region :
          \E w \in Searched(r) : \E j \in Room(r, w, count, 1) : Found(r, w, j)
    BY <1>3 DEF AllocRun
  <2>2. PICK w \in Searched(r) : \E j \in Room(r, w, count, 1) : Found(r, w, j)
    BY <2>1
  <2>3. PICK j \in Room(r, w, count, 1) : Found(r, w, j)
    BY <2>2
  <2> DEFINE k == w * UINT32BITS + j
  <2>4. /\ k \in Nat /\ k .. k + count - 1 \subseteq Slot(r) \ bitmap[r]
        /\ SoundTogether(r, k, count)
    BY <1>2, <1>3, RunWasClear
  <2>5. HintsKept
    BY <2>3, NextStartType DEF HintsKept, TypeOK
  <2>6. HandOut(c, r, k, count)
    BY <2>3, <2>4, <2>5 DEF HandOut
  <2>7. QED
    BY <1>2, <1>3, <2>4, <2>6
<1>4. CASE ~ BadCount(count) /\ AllocFails(count, 1)
  <2>1. HintsKept
    BY <1>4, NextStartType DEF AllocFails, HintsKept
  <2>2. QED
    BY <1>4, <2>1 DEF AllocFails, HintsMove
<1>5. QED
  BY <1>1, <1>3, <1>4, AlignmentIsOne DEF frame_alloc

(* A call of frame_free. *)
LEMMA FreeStep ==
  ASSUME TypeOK, NEW c \in Client, NEW count \in Counts, NEW addr \in owns[c],
         frame_free(c, addr, count)
  PROVE  \E released \in SUBSET AllFrames : GiveUp(c, released) /\ Returned(released)
<1> DEFINE released == {addr + i * BLOCK_SIZE : i \in 0 .. count - 1}
<1>1. GiveUp(c, released) /\ released \in SUBSET AllFrames
  BY DEF frame_free, GiveUp, TypeOK
<1>2. CASE UNCHANGED bitmap
  BY <1>1, <1>2 DEF Returned
<1>3. ASSUME ~ BadCount(count),
             NEW r \in Region,
             InRange(r, addr),
             bitmap' = [bitmap EXCEPT ![r] = @ \ FreedBits(r, addr, count)]
      PROVE  Returned(released)
  <2>1. count \in 1 .. UINT32BITS
    BY <1>3, SizeAssumption DEF BadCount
  <2>2. PICK s \in Region : \E k \in Slot(s) : addr = FrameAddr(s, k)
    BY DEF TypeOK, AllFrames
  <2>3. PICK k \in Slot(s) : addr = FrameAddr(s, k)
    BY <2>2
  <2>4. /\ r = s
        /\ \/ FreedBits(r, addr, count) = {}
           \/ /\ FreedBits(r, addr, count) = k .. k + count - 1
              /\ k .. k + count - 1 \subseteq Slot(r)
           \/ FreedBits(r, addr, count) \intersect Sound[r] = {}
    BY <1>3, <2>1, <2>3, FreedExactly
  <2>5. CASE FreedBits(r, addr, count) = {}
    BY <1>3, <2>5 DEF TypeOK, Returned
  <2>6. CASE /\ FreedBits(r, addr, count) = k .. k + count - 1
             /\ k .. k + count - 1 \subseteq Slot(r)
    <3>1. k \in Nat /\ first_block[r] \in Nat /\ BLOCK_SIZE \in Nat /\ count \in Nat
      BY <2>1, <2>3, AddrBounds, ChainAssumption, SizeAssumption
    <3>2. addr = first_block[r] + k * BLOCK_SIZE
      BY <2>3, <2>4 DEF FrameAddr
    <3>3. released = RunAddrs(r, k, count)
      <4>1. \A i \in 0 .. count - 1 : addr + i * BLOCK_SIZE = FrameAddr(r, k + i)
        BY <3>1, <3>2 DEF FrameAddr
      <4>2. \A i \in k .. k + count - 1 :
               i - k \in 0 .. count - 1 /\ k + (i - k) = i
        BY <3>1
      <4>3. \A i \in 0 .. count - 1 : k + i \in k .. k + count - 1
        BY <3>1
      <4>4. QED
        BY <4>1, <4>2, <4>3 DEF RunAddrs
    <3>4. TakeBack(r, k, count, released)
      BY <1>3, <2>6, <3>3 DEF TakeBack
    <3>5. QED
      BY <2>1, <3>1, <3>4 DEF Returned
  <2>7. CASE FreedBits(r, addr, count) \intersect Sound[r] = {}
    <3>1. Muddle(r, FreedBits(r, addr, count))
      BY <1>3, <2>7 DEF Muddle
    <3>2. QED
      BY <3>1 DEF Returned
  <2>8. QED
    BY <2>4, <2>5, <2>6, <2>7
<1>4. QED
  BY <1>1, <1>2, <1>3 DEF frame_free

-----------------------------------------------------------------------------
(* Type correctness.                                                       *)

(* Empty bitmaps, hints at their first words and clients without frames    *)
(* have their types.                                                       *)
LEMMA TypeInit == Init => TypeOK
BY WordsType, ChainAssumption DEF Init, TypeOK

(* No call of frame_alloc or frame_free leaves the types. *)
LEMMA TypeStep == TypeOK /\ [Next]_vars => TypeOK'
<1> SUFFICES ASSUME TypeOK, [Next]_vars
             PROVE  TypeOK'
  OBVIOUS
<1>1. CASE UNCHANGED vars
  BY <1>1 DEF vars, TypeOK
<1>2. ASSUME NEW c \in Client, NEW count \in Counts, NEW a \in Aligns,
             frame_alloc(c, count, a)
      PROVE  TypeOK'
  <2>1. CASE HintsMove
    BY <2>1 DEF HintsMove, HintsKept, TypeOK
  <2>2. ASSUME NEW r \in Region, NEW k \in Nat, NEW n \in 1 .. UINT32BITS,
               HandOut(c, r, k, n)
        PROVE  TypeOK'
    <3>1. k .. k + n - 1 \subseteq Slot(r) /\ k .. k + n - 1 \subseteq Nat
      BY <2>2 DEF HandOut
    <3>2. /\ bitmap' \in [Region -> SUBSET Nat]
          /\ \A s \in Region : bitmap'[s] \subseteq Slot(s)
      BY <2>2, <3>1 DEF HandOut, TypeOK
    <3>3. owns' \in [Client -> SUBSET AllFrames]
      <4>1. RunAddrs(r, k, n) \subseteq AllFrames
        BY <3>1 DEF RunAddrs, AllFrames
      <4>2. QED
        BY <2>2, <4>1 DEF HandOut, TypeOK
    <3>4. QED
      BY <2>2, <3>2, <3>3 DEF HandOut, HintsKept, TypeOK
  <2>3. QED
    BY <1>1, <1>2, <2>1, <2>2, AllocStep
<1>3. ASSUME NEW c \in Client, NEW count \in Counts, NEW addr \in owns[c],
             frame_free(c, addr, count)
      PROVE  TypeOK'
  <2>1. PICK released \in SUBSET AllFrames :
          GiveUp(c, released) /\ Returned(released)
    BY <1>3, FreeStep
  <2>2. /\ bitmap' \in [Region -> SUBSET Nat]
        /\ \A s \in Region : bitmap'[s] \subseteq Slot(s)
    BY <2>1 DEF Returned, TakeBack, Muddle, TypeOK
  <2>3. owns' \in [Client -> SUBSET AllFrames]
    BY <2>1 DEF GiveUp, TypeOK
  <2>4. QED
    BY <2>1, <2>2, <2>3 DEF GiveUp, TypeOK
<1>4. QED
  BY <1>1, <1>2, <1>3 DEF Next

(* Bitmaps, hints and the clients' frames always have their types: no bit  *)
(* outside a bitmap is set, no hint leaves it.                             *)
THEOREM TypeCorrect == Spec => []TypeOK
BY TypeInit, TypeStep, PTL DEF Spec

-----------------------------------------------------------------------------
(* The sound frames.                                                       *)

(* A slot is sound exactly if its address is the one of a sound frame.     *)
LEMMA SoundByAddr ==
  ASSUME NEW r \in Region, NEW k \in Slot(r)
  PROVE  FrameAddr(r, k) \in SoundFrames <=> k \in Sound[r]
<1>1. \A s \in Region : \A i \in Sound[s] : i \in Slot(s)
  BY DEF Sound
<1>2. QED
  BY <1>1, AddrInjective DEF SoundFrames

(* Sound frames are frames the bitmaps cover. *)
LEMMA SoundAreFrames == SoundFrames \subseteq AllFrames
BY DEF SoundFrames, Sound, AllFrames

(* frame_free takes no frame for another that stands less than 31 frames   *)
(* from the start of its region.                                           *)
LEMMA NotMistaken ==
  ASSUME NEW k \in Nat, k < UINT32BITS - 1
  PROVE  FreedSlot(k) = k
<1>1. k % (UINT32BITS - 1) = k
  BY SizeAssumption
<1>2. (k - k) \div UINT32BITS = 0 /\ 0 * UINT32BITS + k = k
  BY SizeAssumption
<1>3. QED
  BY <1>1, <1>2 DEF FreedSlot

(* The frames whose addresses frame_free accepts: blocks_count is taken    *)
(* for a number of bytes.                                                  *)
LEMMA AcceptedFrames ==
  ASSUME NEW r \in Region, NEW k \in Slot(r), InRange(r, FrameAddr(r, k))
  PROVE  k \in Nat /\ k * BLOCK_SIZE <= blocks_count[r]
<1>1. /\ k \in Nat /\ k * BLOCK_SIZE \in Nat /\ FrameAddr(r, k) \in Nat
      /\ first_block[r] \in Nat /\ blocks_count[r] \in Nat
  BY AddrBounds, ChainAssumption, WordsType
<1>2. FrameAddr(r, k) = first_block[r] + k * BLOCK_SIZE
  BY DEF FrameAddr
<1>3. QED
  BY <1>1, <1>2 DEF InRange

(* In a region of fewer than 31 * 4096 frames (496 MB) every frame is      *)
(* sound.                                                                  *)
THEOREM SmallAllSound ==
  ASSUME NEW r \in Region, blocks_count[r] < (UINT32BITS - 1) * BLOCK_SIZE
  PROVE  Sound[r] = Slot(r)
<1>1. ASSUME NEW k \in Slot(r), InRange(r, FrameAddr(r, k))
      PROVE  FreedSlot(k) = k
  <2>1. k \in Nat /\ k * BLOCK_SIZE <= blocks_count[r]
    BY <1>1, AcceptedFrames
  <2>2. /\ BLOCK_SIZE \in Nat \ {0} /\ UINT32BITS - 1 \in Nat
        /\ (UINT32BITS - 1) * BLOCK_SIZE \in Nat /\ k * BLOCK_SIZE \in Nat
        /\ blocks_count[r] \in Nat
    BY <2>1, SizeAssumption, WordsType
  <2>3. k * BLOCK_SIZE < (UINT32BITS - 1) * BLOCK_SIZE
    BY <2>1, <2>2
  <2>4. k < UINT32BITS - 1
    BY <2>1, <2>2, <2>3, TimesMonotone
  <2>5. QED
    BY <2>1, <2>4, NotMistaken
<1>2. Mistaken[r] = {}
  BY <1>1 DEF Mistaken
<1>3. Muddled[r] = {}
  BY <1>2 DEF Muddled
<1>4. QED
  BY <1>3 DEF Sound

(* In a region of fewer than 2 * 31 * 4096 frames (992 MB), such as the    *)
(* one of a machine of 512 MB, every frame but the first 32 is sound.      *)
THEOREM FirstWordOnly ==
  ASSUME NEW r \in Region, blocks_count[r] < (2 * (UINT32BITS - 1)) * BLOCK_SIZE
  PROVE  \A k \in Slot(r) : k >= UINT32BITS => k \in Sound[r]
<1> DEFINE c == UINT32BITS - 1
<1>1. c \in Nat \ {0} /\ UINT32BITS \in Nat /\ UINT32BITS = c + 1
  BY SizeAssumption
<1>2. ASSUME NEW k \in Slot(r), InRange(r, FrameAddr(r, k))
      PROVE  FreedSlot(k) \div UINT32BITS = 0
  <2>1. k \in Nat /\ k * BLOCK_SIZE <= blocks_count[r]
    BY <1>2, AcceptedFrames
  <2>2. /\ BLOCK_SIZE \in Nat \ {0} /\ 2 * c \in Nat
        /\ (2 * c) * BLOCK_SIZE \in Nat /\ k * BLOCK_SIZE \in Nat
        /\ blocks_count[r] \in Nat
    BY <1>1, <2>1, SizeAssumption, WordsType
  <2>3. k * BLOCK_SIZE < (2 * c) * BLOCK_SIZE
    BY <2>1, <2>2
  <2>4. k < 2 * c
    BY <2>1, <2>2, <2>3, TimesMonotone
  <2> HIDE DEF c
  <2>5. k < c => k % c = k /\ k - k = 0
    BY <1>1, <2>1
  <2>6. k >= c => k % c = k - c /\ k - (k - c) = c
    <3> SUFFICES ASSUME k >= c PROVE k % c = k - c
      BY <1>1, <2>1
    <3>1. PICK e \in 0 .. c - 1 : e = k - c /\ 1 * c + e = k
      BY <1>1, <2>1, <2>4
    <3>2. (1 * c + e) % c = e
      BY <1>1, QuotientRemainder
    <3>3. QED
      BY <3>1, <3>2
  <2>7. PICK m \in {0, c} : k - (k % c) = m /\ k % c \in 0 .. c - 1
    BY <1>1, <2>1, <2>4, <2>5, <2>6
  <2>8. m \div UINT32BITS = 0
    <3>1. m \in 0 .. UINT32BITS - 1 /\ UINT32BITS \in Nat \ {0} /\ 0 * UINT32BITS + m = m
      BY <1>1, <2>7
    <3>2. QED
      BY <3>1, QuotientRemainder
  <2>9. FreedSlot(k) = k % c
    <3>1. 0 * UINT32BITS + (k % c) = k % c
      BY <1>1, <2>7
    <3>2. QED
      BY <2>7, <2>8, <3>1 DEF FreedSlot, c
  <2>10. k % c \in 0 .. UINT32BITS - 1 /\ UINT32BITS \in Nat \ {0}
         /\ 0 * UINT32BITS + (k % c) = k % c
    BY <1>1, <2>7
  <2>11. QED
    BY <2>9, <2>10, QuotientRemainder
<1>3. Muddled[r] \subseteq {0}
  BY <1>2 DEF Muddled, Mistaken
<1>4. ASSUME NEW k \in Slot(r), k >= UINT32BITS
      PROVE  k \div UINT32BITS # 0
  <2>1. k \in Nat /\ UINT32BITS \in Nat \ {0}
    BY <1>1 DEF Slot
  <2>2. k < (k \div UINT32BITS) * UINT32BITS + UINT32BITS
    BY <2>1, DivideBounds
  <2>3. k \div UINT32BITS = 0 => (k \div UINT32BITS) * UINT32BITS = 0
    BY <2>1
  <2>4. QED
    BY <1>4, <2>1, <2>2, <2>3
<1>5. QED
  BY <1>3, <1>4 DEF Sound

-----------------------------------------------------------------------------
(* The inductive invariant: what a caller holds has its bit set, so that   *)
(* the clear bits frame_alloc looks for belong to nobody; and nobody's     *)
(* frames are also somebody else's, so that frame_free takes no bit away   *)
(* from another caller.  Both hold for the sound frames: whatever a call   *)
(* does to the others stays in their words.                                *)

(* The inductive invariant. *)
IInv == TypeOK /\ NoSoundFrameShared /\ SoundBitsHeld

(* At first nobody holds a frame. *)
LEMMA SafeInit == Init => IInv
BY TypeInit DEF Init, IInv, NoSoundFrameShared, SoundBitsHeld

(* Sound frames whose bits are clear belong to nobody. *)
LEMMA ClearIsUnowned ==
  ASSUME IInv, NEW r \in Region, NEW k \in Nat, NEW n \in 1 .. UINT32BITS,
         k .. k + n - 1 \subseteq Slot(r) \ bitmap[r],
         NEW d \in Client
  PROVE  owns[d] \intersect RunAddrs(r, k, n) \intersect SoundFrames = {}
BY SoundByAddr DEF IInv, SoundBitsHeld, RunAddrs

(* frame_alloc hands out sound frames that nobody holds and marks them,      *)
(* frame_free unmarks only sound frames that it takes back.                 *)
LEMMA SafeStep == IInv /\ [Next]_vars => IInv'
<1> SUFFICES ASSUME IInv, [Next]_vars
             PROVE  NoSoundFrameShared' /\ SoundBitsHeld'
  BY TypeStep DEF IInv
<1> USE DEF IInv
<1>1. CASE UNCHANGED <<bitmap, owns>>
  BY <1>1 DEF NoSoundFrameShared, SoundBitsHeld
<1>2. ASSUME NEW c \in Client, NEW count \in Counts, NEW a \in Aligns,
             frame_alloc(c, count, a)
      PROVE  NoSoundFrameShared' /\ SoundBitsHeld'
  <2>1. ASSUME NEW r \in Region, NEW k \in Nat, NEW n \in 1 .. UINT32BITS,
               HandOut(c, r, k, n)
        PROVE  NoSoundFrameShared' /\ SoundBitsHeld'
    <3>1. /\ owns' = [owns EXCEPT ![c] = @ \union RunAddrs(r, k, n)]
          /\ bitmap' = [bitmap EXCEPT ![r] = @ \union (k .. k + n - 1)]
          /\ k .. k + n - 1 \subseteq Slot(r)
          /\ bitmap \in [Region -> SUBSET Nat]
          /\ owns \in [Client -> SUBSET AllFrames]
      BY <2>1 DEF HandOut, TypeOK
    <3>2. \A d \in Client : owns[d] \intersect RunAddrs(r, k, n) \intersect SoundFrames = {}
      BY <2>1, ClearIsUnowned DEF HandOut
    <3>3. NoSoundFrameShared'
      BY <3>1, <3>2 DEF NoSoundFrameShared
    <3>4. SoundBitsHeld'
      <4> SUFFICES ASSUME NEW d \in Client, NEW s \in Region, NEW i \in Sound[s],
                          FrameAddr(s, i) \in owns'[d]
                   PROVE  i \in bitmap'[s]
        BY DEF SoundBitsHeld
      <4>1. CASE FrameAddr(s, i) \in owns[d]
        BY <3>1, <4>1 DEF SoundBitsHeld
      <4>2. CASE FrameAddr(s, i) \in RunAddrs(r, k, n)
        <5>1. PICK m \in k .. k + n - 1 : FrameAddr(s, i) = FrameAddr(r, m)
          BY <4>2 DEF RunAddrs
        <5>2. i \in Slot(s) /\ m \in Slot(r)
          BY <3>1 DEF Sound
        <5>3. s = r /\ i = m
          BY <5>1, <5>2, AddrInjective
        <5>4. QED
          BY <3>1, <5>1, <5>3
      <4>3. QED
        BY <3>1, <4>1, <4>2
    <3>5. QED
      BY <3>3, <3>4
  <2>2. QED
    BY <1>1, <1>2, <2>1, AllocStep DEF vars, HintsMove
<1>3. ASSUME NEW c \in Client, NEW count \in Counts, NEW addr \in owns[c],
             frame_free(c, addr, count)
      PROVE  NoSoundFrameShared' /\ SoundBitsHeld'
  <2>1. PICK released \in SUBSET AllFrames :
          GiveUp(c, released) /\ Returned(released)
    BY <1>3, FreeStep
  <2>2. /\ owns' = [owns EXCEPT ![c] = @ \ released]
        /\ released \subseteq owns[c]
        /\ owns \in [Client -> SUBSET AllFrames]
        /\ bitmap \in [Region -> SUBSET Nat]
    BY <2>1 DEF GiveUp, TypeOK
  <2>3. NoSoundFrameShared'
    BY <2>2 DEF NoSoundFrameShared
  <2>4. SoundBitsHeld'
    <3> SUFFICES ASSUME NEW d \in Client, NEW s \in Region, NEW i \in Sound[s],
                        FrameAddr(s, i) \in owns'[d]
                 PROVE  i \in bitmap'[s]
      BY DEF SoundBitsHeld
    <3>1. FrameAddr(s, i) \in SoundFrames
      BY DEF SoundFrames
    <3>2. FrameAddr(s, i) \in owns[d] /\ FrameAddr(s, i) \notin released
      BY <2>2, <3>1 DEF NoSoundFrameShared
    <3>3. i \in bitmap[s]
      BY <3>2 DEF SoundBitsHeld
    <3>4. ASSUME NEW r \in Region, NEW k \in Nat, NEW n \in 1 .. UINT32BITS,
                 TakeBack(r, k, n, released)
          PROVE  i \in bitmap'[s]
      <4>1. s = r => i \notin k .. k + n - 1
        BY <3>2, <3>4 DEF TakeBack, RunAddrs
      <4>2. QED
        BY <2>2, <3>3, <3>4, <4>1 DEF TakeBack
    <3>5. ASSUME NEW r \in Region, NEW bits, Muddle(r, bits)
          PROVE  i \in bitmap'[s]
      BY <2>2, <3>3, <3>5 DEF Muddle
    <3>6. QED
      BY <2>1, <3>3, <3>4, <3>5 DEF Returned
  <2>5. QED
    BY <2>3, <2>4
<1>4. QED
  BY <1>1, <1>2, <1>3 DEF Next, vars

(* No sound frame is ever in the hands of two callers of frame_alloc. *)
THEOREM NeverShared == Spec => []NoSoundFrameShared
<1>1. IInv => NoSoundFrameShared
  BY DEF IInv
<1>2. QED
  BY <1>1, SafeInit, SafeStep, PTL DEF Spec

(* What a caller holds of the sound frames is marked as taken for as long  *)
(* as he holds it.                                                         *)
THEOREM BitsHeld == Spec => []SoundBitsHeld
<1>1. IInv => SoundBitsHeld
  BY DEF IInv
<1>2. QED
  BY <1>1, SafeInit, SafeStep, PTL DEF Spec

-----------------------------------------------------------------------------
(* Nobody's sound frames are taken back behind his back: frame_free clears *)
(* bits of sound frames only if its caller gives them up in the same call. *)
THEOREM OnlyReleasedCleared == Spec => ClearedWereReleased
<1> DEFINE Cleared ==
      \A r \in Region : \A k \in (bitmap[r] \ bitmap'[r]) \intersect Sound[r] :
         \E c \in Client : FrameAddr(r, k) \in owns[c] \ owns'[c]
<1>1. TypeOK /\ [Next]_vars => [Cleared]_vars
  <2> SUFFICES ASSUME TypeOK, Next
               PROVE  Cleared \/ UNCHANGED vars
    OBVIOUS
  <2>1. ASSUME NEW c \in Client, NEW count \in Counts, NEW a \in Aligns,
               frame_alloc(c, count, a)
        PROVE  Cleared \/ UNCHANGED vars
    <3>1. CASE HintsMove
      BY <3>1 DEF HintsMove
    <3>2. ASSUME NEW r \in Region, NEW k \in Nat, NEW n \in 1 .. UINT32BITS,
                 HandOut(c, r, k, n)
          PROVE  Cleared
      BY <3>2 DEF HandOut, TypeOK
    <3>3. QED
      BY <2>1, <3>1, <3>2, AllocStep
  <2>2. ASSUME NEW c \in Client, NEW count \in Counts, NEW addr \in owns[c],
               frame_free(c, addr, count)
        PROVE  Cleared
    <3>1. PICK released \in SUBSET AllFrames :
            GiveUp(c, released) /\ Returned(released)
      BY <2>2, FreeStep
    <3>2. \A addrs \in released : addrs \in owns[c] \ owns'[c]
      BY <3>1 DEF GiveUp, TypeOK
    <3>3. ASSUME NEW r \in Region, NEW k \in Nat, NEW n \in 1 .. UINT32BITS,
                 TakeBack(r, k, n, released),
                 NEW s \in Region, NEW i \in bitmap[s] \ bitmap'[s]
          PROVE  FrameAddr(s, i) \in released
      BY <3>3 DEF TakeBack, RunAddrs, TypeOK
    <3>4. ASSUME NEW r \in Region, NEW bits, Muddle(r, bits),
                 NEW s \in Region, NEW i \in bitmap[s] \ bitmap'[s]
          PROVE  i \notin Sound[s]
      BY <3>4 DEF Muddle, TypeOK
    <3>5. QED
      BY <3>1, <3>2, <3>3, <3>4 DEF Returned
  <2>3. QED
    BY <2>1, <2>2 DEF Next
<1> HIDE DEF Cleared
<1>2. Spec => [][Cleared]_vars
  BY <1>1, TypeCorrect, PTL DEF Spec
<1>3. QED
  BY <1>2, PTL DEF ClearedWereReleased, Cleared

-----------------------------------------------------------------------------
(* The end of a region.                                                    *)

(* Where a run of n frames that exist is free, in a word the search looks  *)
(* at: there is room in that word, at that bit.                            *)
LEMMA FreeRunIsRoom ==
  ASSUME TypeOK, NEW r \in Region, NEW n \in 1 .. UINT32BITS, NEW k \in Nat,
         k < blocks_count[r],
         k \div UINT32BITS >= search_next_startblock[r],
         (k % UINT32BITS) + n <= UINT32BITS,
         (k .. k + n - 1) \intersect bitmap[r] = {}
  PROVE  LET v == k \div UINT32BITS
             b == k % UINT32BITS
         IN  /\ v \in Searched(r) /\ v * UINT32BITS \in Nat
             /\ b \in Nat /\ k = v * UINT32BITS + b
             /\ b \in Room(r, v, n, 1)
<1>1. UINT32BITS \in Nat \ {0} /\ blocks_count[r] \in Nat
  BY SizeAssumption, WordsType
<1> DEFINE v == k \div UINT32BITS
           b == k % UINT32BITS
<1>2. v \in Nat /\ b \in 0 .. UINT32BITS - 1 /\ k = v * UINT32BITS + b
  <2>1. v \in Nat
    BY <1>1, DivideBounds
  <2>2. b \in 0 .. UINT32BITS - 1 /\ k = v * UINT32BITS + b
    BY <1>1, RemainderIs
  <2>3. QED
    BY <1>1, <2>1, <2>2
<1>3. v * UINT32BITS \in Nat
  BY <1>1, <1>2
<1> HIDE DEF v, b
<1>4. v < Words(r)
  <2>1. v * UINT32BITS < Words(r) * UINT32BITS /\ Words(r) \in Nat /\ Words(r) * UINT32BITS \in Nat
    BY <1>1, <1>2, <1>3, WordsType
  <2>2. QED
    BY <1>1, <1>2, <1>3, <2>1, TimesMonotone
<1>5. v \in Searched(r)
  <2>1. search_next_startblock[r] <= v
    BY DEF v
  <2>2. QED
    BY <1>2, <1>4, <2>1, WordsType DEF Searched, TypeOK
<1>6. b + n <= UINT32BITS
  BY DEF b
<1>7. ASSUME NEW i \in b .. b + n - 1
      PROVE  i \in Bit \ WordBits(r, v)
  <2>1. v * UINT32BITS + i \in k .. k + n - 1
    BY <1>1, <1>2, <1>3, <1>6
  <2>2. QED
    BY <1>1, <1>2, <1>6, <2>1 DEF WordBits
<1>8. b \in Room(r, v, n, 1)
  BY <1>1, <1>2, <1>6, <1>7, SeesClearBits DEF Room, Fits
<1>9. QED
  BY <1>2, <1>3, <1>5, <1>8 DEF v, b

(* The run that is handed out starts at or below every run that is free.   *)
LEMMA FirstIsLowest ==
  ASSUME TypeOK, NEW r \in Region, NEW w \in Searched(r), NEW n \in 1 .. UINT32BITS,
         NEW j, FirstRoom(r, w, j, n, 1), NEW k \in Nat,
         k < blocks_count[r],
         k \div UINT32BITS >= search_next_startblock[r],
         (k % UINT32BITS) + n <= UINT32BITS,
         (k .. k + n - 1) \intersect bitmap[r] = {}
  PROVE  w * UINT32BITS + j <= k
<1> DEFINE u == k \div UINT32BITS
           c == k % UINT32BITS
<1>1. /\ u \in Searched(r) /\ u * UINT32BITS \in Nat
      /\ c \in Nat /\ k = u * UINT32BITS + c /\ c \in Room(r, u, n, 1)
  BY FreeRunIsRoom
<1> HIDE DEF u, c
<1>2. UINT32BITS \in Nat \ {0} /\ w \in Nat /\ u \in Nat /\ w * UINT32BITS \in Nat
  <2>1. UINT32BITS \in Nat \ {0} /\ w \in Nat /\ u \in Nat
    BY <1>1, SizeAssumption, WordsType, SMTT(30) DEF Searched, TypeOK
  <2>2. QED
    BY <2>1
<1>3. /\ j \in Nat /\ j + n <= UINT32BITS
      /\ \A i \in Room(r, w, n, 1) : j <= i
      /\ \A v \in Searched(r) : v < w => Room(r, v, n, 1) = {}
  BY FitsAreClear DEF FirstRoom, Room
<1>4. ~ (u < w)
  BY <1>1, <1>3
<1>5. CASE u = w
  BY <1>1, <1>2, <1>3, <1>5
<1>6. CASE w < u
  <2>1. w * UINT32BITS + UINT32BITS <= u * UINT32BITS
    BY <1>2, <1>6, TimesStrict
  <2>2. QED
    BY <1>1, <1>2, <1>3, <2>1
<1>7. QED
  BY <1>2, <1>4, <1>5, <1>6

(* The frames past the end of a region, where its bitmap lies, are the     *)
(* last frame_alloc hands out: only if none of the words it searches has a *)
(* free run of that length among the frames that exist.                    *)
THEOREM EndOnlyWhenFull == Spec => PastEndOnlyWhenFull
<1> DEFINE Full(r, n) ==
      \A k \in 0 .. blocks_count[r] - n :
         /\ k \div UINT32BITS >= search_next_startblock[r]
         /\ (k % UINT32BITS) + n <= UINT32BITS
         => (k .. k + n - 1) \intersect bitmap[r] # {}
           Late ==
      \A r \in Region :
         LET given == bitmap'[r] \ bitmap[r]
             n     == Cardinality(given)
         IN  (\E k \in given : k >= blocks_count[r]) => Full(r, n)
<1>1. TypeOK /\ [Next]_vars => [Late]_vars
  <2> SUFFICES ASSUME TypeOK, Next
               PROVE  Late \/ UNCHANGED vars
    OBVIOUS
  <2>1. (\A r \in Region : bitmap'[r] \subseteq bitmap[r]) => Late
    OBVIOUS
  <2>2. ASSUME NEW c \in Client, NEW n \in 1 .. UINT32BITS, AllocRun(c, n, 1)
        PROVE  Late
    <3> DEFINE Found(r, w, j) ==
          LET k == w * UINT32BITS + j
          IN  /\ FirstRoom(r, w, j, n, 1)
              /\ bitmap' = [bitmap EXCEPT ![r] = @ \union (k .. k + n - 1)]
    <3>1. PICK r \in Region :
            \E w \in Searched(r) : \E j \in Room(r, w, n, 1) : Found(r, w, j)
      BY <2>2 DEF AllocRun
    <3>2. PICK w \in Searched(r) : \E j \in Room(r, w, n, 1) : Found(r, w, j)
      BY <3>1
    <3>3. PICK j \in Room(r, w, n, 1) : Found(r, w, j)
      BY <3>2
    <3> DEFINE k == w * UINT32BITS + j
    <3>4. k \in Nat /\ k .. k + n - 1 \subseteq Slot(r) \ bitmap[r]
      BY RunWasClear
    <3>5. /\ bitmap' = [bitmap EXCEPT ![r] = @ \union (k .. k + n - 1)]
          /\ FirstRoom(r, w, j, n, 1)
      BY <3>3
    <3>6. ASSUME NEW i \in Nat, i <= blocks_count[r] - n,
                 i \div UINT32BITS >= search_next_startblock[r],
                 (i % UINT32BITS) + n <= UINT32BITS,
                 (i .. i + n - 1) \intersect bitmap[r] = {}
          PROVE  k <= i
      <4>1. i < blocks_count[r]
        BY <3>6, WordsType
      <4>2. QED
        BY <3>5, <3>6, <4>1, FirstIsLowest
    <3> HIDE DEF k
    <3>7. /\ bitmap'[r] \ bitmap[r] = k .. k + n - 1
          /\ \A s \in Region : s # r => bitmap'[s] = bitmap[s]
      BY <3>4, <3>5 DEF TypeOK
    <3>8. Cardinality(k .. k + n - 1) = n
      <4>1. k \in Int /\ k + n - 1 \in Int /\ k <= k + n - 1
        BY <3>4
      <4>2. QED
        BY <4>1, FS_Interval
    <3>9. (\E i \in k .. k + n - 1 : i >= blocks_count[r]) => Full(r, n)
      BY <3>4, <3>6, WordsType
    <3> HIDE DEF Full
    <3>10. QED
      BY <3>7, <3>8, <3>9
  <2>3. ASSUME NEW c \in Client, NEW count \in Counts, NEW a \in Aligns,
               frame_alloc(c, count, a)
        PROVE  Late
    <3>1. CASE UNCHANGED bitmap
      BY <2>1, <3>1
    <3>2. CASE ~ BadCount(count) /\ AllocRun(c, count, 1)
      <4>1. count \in 1 .. UINT32BITS
        BY <3>2, SizeAssumption DEF BadCount
      <4>2. QED
        BY <2>2, <3>2, <4>1
    <3>3. QED
      BY <2>3, <3>1, <3>2, AlignmentIsOne DEF frame_alloc, AllocFails, vars
  <2>4. ASSUME NEW c \in Client, NEW count \in Counts, NEW addr \in owns[c],
               frame_free(c, addr, count)
        PROVE  Late
    <3>1. PICK released \in SUBSET AllFrames :
            GiveUp(c, released) /\ Returned(released)
      BY <2>4, FreeStep
    <3>2. \A r \in Region : bitmap'[r] \subseteq bitmap[r]
      BY <3>1 DEF Returned, TakeBack, Muddle, TypeOK
    <3>3. QED
      BY <2>1, <3>2
  <2> HIDE DEF Late
  <2>5. QED
    BY <2>3, <2>4 DEF Next
<1> HIDE DEF Late
<1>2. Spec => [][Late]_vars
  BY <1>1, TypeCorrect, PTL DEF Spec
<1>3. QED
  BY <1>2, PTL DEF PastEndOnlyWhenFull, Late, Full

-----------------------------------------------------------------------------
(* The search hint.                                                        *)

(* The new hint does not lie behind the last word that was searched with a *)
(* clear bit, and before it no clear bit leaves room for n frames in its   *)
(* word.                                                                   *)
LEMMA HintPasses ==
  ASSUME TypeOK, NEW r \in Region, NEW last \in Int, NEW n \in 1 .. UINT32BITS,
         NEW w \in search_next_startblock[r] .. NextStart(r, last, n, 1) - 1,
         NEW b \in Bit \ WordBits(r, w)
  PROVE  UINT32BITS - b < n
<1> DEFINE seen == {v \in Searched(r) : v <= last /\ HasFree(WordBits(r, v), n, 1)}
           next == NextStart(r, last, n, 1)
<1>1. search_next_startblock[r] \in Nat /\ next \in Nat /\ next < Words(r)
  BY NextStartType DEF TypeOK
<1>2. seen \subseteq Nat /\ seen # {}
  <2>1. \A v \in Searched(r) : v \in Nat
    BY <1>1, WordsType DEF Searched
  <2>2. seen # {}
    <3>1. seen = {} => next = search_next_startblock[r]
      BY DEF NextStart
    <3>2. QED
      BY <1>1, <3>1
  <2>3. QED
    BY <2>1, <2>2
<1>3. next = CHOOSE v \in seen : \A u \in seen : v <= u
  BY <1>2 DEF NextStart
<1>4. next \in seen /\ \A u \in seen : next <= u
  <2> HIDE DEF seen, next
  <2>1. \E v \in seen : \A u \in seen : v <= u
    BY <1>2, LeastNatural
  <2>2. QED
    BY <1>3, <2>1
<1>5. w \in Nat /\ w < next /\ w \in Searched(r) /\ w <= last
  <2>1. w \in Nat /\ w < next /\ search_next_startblock[r] <= w
    BY <1>1
  <2>2. next <= last
    BY <1>4
  <2> HIDE DEF seen, next
  <2>3. QED
    BY <1>1, <2>1, <2>2, WordsType DEF Searched
<1>6. w \notin seen
  <2> HIDE DEF seen, next
  <2>1. QED
    BY <1>1, <1>4, <1>5
<1>7. ~ HasFree(WordBits(r, w), n, 1)
  BY <1>5, <1>6
<1>8. b \notin 0 .. UINT32BITS - n
  BY <1>7, SeesClearBits DEF HasFree
<1>9. QED
  BY <1>8, SizeAssumption

(* The hint passes only frames at the end of a word, fewer of them than    *)
(* the request was for.                                                    *)
THEOREM HintKeepsWithin == Spec => HintPassesWordEndsOnly
<1> DEFINE Passes ==
      \A r \in Region :
         \A w \in search_next_startblock[r] .. search_next_startblock'[r] - 1 :
           \A c \in Client, count \in Counts, align_up \in Aligns :
              frame_alloc(c, count, align_up) =>
                \A b \in Bit \ WordBits(r, w) : UINT32BITS - b < count
<1>1. TypeOK => Passes
  <2> SUFFICES ASSUME TypeOK, NEW r \in Region,
                      NEW w \in search_next_startblock[r] .. search_next_startblock'[r] - 1,
                      NEW c \in Client, NEW count \in Counts, NEW align_up \in Aligns,
                      frame_alloc(c, count, align_up),
                      NEW b \in Bit \ WordBits(r, w)
               PROVE  UINT32BITS - b < count
    OBVIOUS
  <2>1. search_next_startblock[r] \in Nat
    BY DEF TypeOK
  <2>2. search_next_startblock'[r] # search_next_startblock[r]
    BY <2>1
  <2>3. ~ BadCount(count)
    <3>1. UNCHANGED vars => search_next_startblock' = search_next_startblock
      BY DEF vars
    <3>2. QED
      BY <2>2, <3>1 DEF frame_alloc
  <2>4. count \in 1 .. UINT32BITS
    BY <2>3, SizeAssumption DEF BadCount
  <2>5. PICK last \in Int : search_next_startblock'[r] = NextStart(r, last, count, 1)
    <3>1. CASE AllocFails(count, 1)
      BY <3>1, WordsType DEF AllocFails
    <3>2. CASE AllocRun(c, count, 1)
      <4>1. PICK s \in Region : \E v \in Searched(s) :
              search_next_startblock' =
                [q \in Region |->
                   IF q < s THEN NextStart(q, Words(q) - 1, count, 1)
                   ELSE IF q = s THEN NextStart(s, v, count, 1)
                   ELSE search_next_startblock[q]]
        BY <3>2 DEF AllocRun
      <4>2. Searched(s) \subseteq Int /\ Words(r) - 1 \in Int
        BY WordsType DEF Searched, TypeOK
      <4>3. QED
        BY <2>2, <4>1, <4>2
    <3>3. QED
      BY <2>3, <3>1, <3>2, AlignmentIsOne DEF frame_alloc
  <2>6. QED
    BY <2>4, <2>5, HintPasses
<1> HIDE DEF Passes
<1>2. Spec => [][Passes]_vars
  BY <1>1, TypeCorrect, PTL DEF Spec
<1>3. QED
  BY <1>2, PTL DEF HintPassesWordEndsOnly, Passes

-----------------------------------------------------------------------------
(* The allocator implements the abstract one.                              *)

(* The addresses of a run of slots are a run of frames. *)
LEMMA RunIsRun ==
  ASSUME NEW r \in Region, NEW k \in Nat, NEW n \in 1 .. UINT32BITS
  PROVE  RunAddrs(r, k, n) = Abstract!Run(FrameAddr(r, k), n)
<1>1. first_block[r] \in Nat /\ BLOCK_SIZE \in Nat
  BY ChainAssumption, SizeAssumption
<1>2. \A i \in 0 .. n - 1 :
         /\ k + i \in k .. k + n - 1
         /\ FrameAddr(r, k + i) = FrameAddr(r, k) + i * BLOCK_SIZE
  BY <1>1 DEF FrameAddr
<1>3. \A i \in k .. k + n - 1 : i - k \in 0 .. n - 1 /\ k + (i - k) = i
  OBVIOUS
<1>4. QED
  BY <1>2, <1>3 DEF RunAddrs, Abstract!Run

(* The free frames after a step. *)
LEMMA FreeFramesNext ==
  FreeFrames' = UNION {{FrameAddr(s, i) : i \in Sound[s] \ bitmap'[s]} : s \in Region}
BY DEF FreeFrames, FrameAddr

(* A sound slot is clear exactly if the frame at its address is free,      *)
(* before and after a step.                                                *)
LEMMA FreeIsClear ==
  ASSUME NEW r \in Region, NEW k \in Sound[r]
  PROVE  /\ FrameAddr(r, k) \in FreeFrames <=> k \notin bitmap[r]
         /\ FrameAddr(r, k) \in FreeFrames' <=> k \notin bitmap'[r]
<1>1. \A s \in Region : \A i \in Sound[s] : i \in Slot(s)
  BY DEF Sound
<1>2. QED
  BY <1>1, FreeFramesNext, AddrInjective DEF FreeFrames

(* Free frames are sound frames, before and after a step.                  *)
LEMMA FreeAreFrames == FreeFrames \subseteq SoundFrames /\ FreeFrames' \subseteq SoundFrames
BY FreeFramesNext DEF FreeFrames, SoundFrames

(* If the sound slots that are clear change by exactly those of the set R, *)
(* so do the free frames.                                                  *)
LEMMA FreeSetEq ==
  ASSUME NEW R,
         \A s \in Region : \A i \in Sound[s] :
            i \notin bitmap'[s] <=> FrameAddr(s, i) \in R
  PROVE  FreeFrames' = R \intersect SoundFrames
<1>1. \A f \in SoundFrames : f \in FreeFrames' <=> f \in R
  BY FreeIsClear DEF SoundFrames
<1>2. QED
  BY <1>1, FreeAreFrames

(* Everything that frame_alloc and frame_free do to the callers' sound     *)
(* frames is a step of the abstract allocator, or no step at all.          *)
LEMMA StepRefines == TypeOK /\ [Next]_vars => [Abstract!Next]_(Abstract!vars)
<1> SUFFICES ASSUME TypeOK, [Next]_vars
             PROVE  Abstract!Next \/ UNCHANGED <<FreeFrames, SoundOwns>>
  BY DEF Abstract!vars
<1>1. CASE UNCHANGED <<bitmap, owns>>
  BY <1>1, FreeFramesNext DEF FreeFrames, SoundOwns
<1>2. ASSUME NEW c \in Client, NEW count \in Counts, NEW a \in Aligns,
             frame_alloc(c, count, a)
      PROVE  Abstract!Next \/ UNCHANGED <<FreeFrames, SoundOwns>>
  <2>1. ASSUME NEW r \in Region, NEW k \in Nat, NEW n \in 1 .. UINT32BITS,
               HandOut(c, r, k, n)
        PROVE  Abstract!Allocate(c) \/ UNCHANGED <<FreeFrames, SoundOwns>>
    <3> DEFINE R == Abstract!Run(FrameAddr(r, k), n)
    <3>1. /\ k .. k + n - 1 \subseteq Slot(r) \ bitmap[r]
          /\ SoundTogether(r, k, n)
          /\ bitmap' = [bitmap EXCEPT ![r] = @ \union (k .. k + n - 1)]
          /\ owns' = [owns EXCEPT ![c] = @ \union R]
          /\ R = RunAddrs(r, k, n)
          /\ bitmap \in [Region -> SUBSET Nat]
          /\ owns \in [Client -> SUBSET AllFrames]
      BY <2>1, RunIsRun DEF HandOut, TypeOK
    <3> HIDE DEF R
    <3>2. CASE k .. k + n - 1 \subseteq Sound[r]
      <4>1. R \subseteq FreeFrames
        BY <3>1, <3>2, FreeIsClear DEF RunAddrs
      <4>2. FrameAddr(r, k) \in SoundFrames
        BY <3>2 DEF SoundFrames
      <4>3. \A s \in Region : \A i \in Sound[s] :
               FrameAddr(s, i) \in R <=> s = r /\ i \in k .. k + n - 1
        <5>1. \A s \in Region : \A i \in Sound[s] : i \in Slot(s)
          BY DEF Sound
        <5>2. QED
          BY <3>1, <5>1, AddrInjective DEF RunAddrs
      <4>4. \A s \in Region : \A i \in Sound[s] :
               i \notin bitmap'[s] <=> i \notin bitmap[s] /\ ~ (s = r /\ i \in k .. k + n - 1)
        BY <3>1
      <4>5. FreeFrames' = (FreeFrames \ R) \intersect SoundFrames
        <5>1. \A s \in Region : \A i \in Sound[s] :
                 i \notin bitmap'[s] <=> FrameAddr(s, i) \in FreeFrames \ R
          BY <4>3, <4>4, FreeIsClear
        <5>2. QED
          BY <5>1, FreeSetEq
      <4>6. FreeFrames' = FreeFrames \ R
        BY <4>5, FreeAreFrames
      <4>7. SoundOwns' = [SoundOwns EXCEPT ![c] = @ \union R]
        <5>1. R \subseteq SoundFrames
          BY <4>1, FreeAreFrames
        <5>2. QED
          BY <3>1, <5>1 DEF SoundOwns
      <4>8. QED
        BY <4>1, <4>2, <4>6, <4>7 DEF Abstract!Allocate, R
    <3>3. CASE (k .. k + n - 1) \intersect Sound[r] = {}
      <4>1. R \intersect SoundFrames = {}
        BY <3>1, <3>3, SoundByAddr DEF RunAddrs
      <4>2. SoundOwns' = SoundOwns
        BY <3>1, <4>1 DEF SoundOwns
      <4>3. \A s \in Region : \A i \in Sound[s] :
               i \notin bitmap'[s] <=> FrameAddr(s, i) \in FreeFrames
        BY <3>1, <3>3, FreeIsClear
      <4>4. FreeFrames' = FreeFrames
        BY <4>3, FreeSetEq, FreeAreFrames
      <4>5. QED
        BY <4>2, <4>4
    <3>4. QED
      BY <3>1, <3>2, <3>3 DEF SoundTogether
  <2>2. QED
    BY <1>1, <1>2, <2>1, AllocStep DEF vars, HintsMove, Abstract!Next
<1>3. ASSUME NEW c \in Client, NEW count \in Counts, NEW addr \in owns[c],
             frame_free(c, addr, count)
      PROVE  Abstract!Release(c)
  <2>1. PICK released \in SUBSET AllFrames :
          GiveUp(c, released) /\ Returned(released)
    BY <1>3, FreeStep
  <2> DEFINE R == released \intersect SoundFrames
  <2>2. R \in SUBSET SoundOwns[c] /\ SoundOwns' = [SoundOwns EXCEPT ![c] = @ \ R]
    BY <2>1 DEF GiveUp, TypeOK, SoundOwns
  <2>3. CASE UNCHANGED bitmap
    <3>1. FreeFrames' = FreeFrames
      BY <2>3, FreeFramesNext DEF FreeFrames
    <3>2. QED
      BY <2>2, <3>1 DEF Abstract!Release
  <2>4. ASSUME NEW r \in Region, NEW k \in Nat, NEW n \in 1 .. UINT32BITS,
               TakeBack(r, k, n, released)
        PROVE  FreeFrames' = FreeFrames \union R
    <3>1. /\ k .. k + n - 1 \subseteq Slot(r)
          /\ bitmap' = [bitmap EXCEPT ![r] = @ \ (k .. k + n - 1)]
          /\ released = RunAddrs(r, k, n)
          /\ bitmap \in [Region -> SUBSET Nat]
      BY <2>4 DEF TakeBack, TypeOK
    <3>2. \A s \in Region : \A i \in Sound[s] :
             FrameAddr(s, i) \in released <=> s = r /\ i \in k .. k + n - 1
      <4>1. \A s \in Region : \A i \in Sound[s] : i \in Slot(s)
        BY DEF Sound
      <4>2. QED
        BY <3>1, <4>1, AddrInjective DEF RunAddrs
    <3>3. \A s \in Region : \A i \in Sound[s] :
             i \notin bitmap'[s] <=> i \notin bitmap[s] \/ (s = r /\ i \in k .. k + n - 1)
      BY <3>1
    <3>4. FreeFrames' = (FreeFrames \union released) \intersect SoundFrames
      <4>1. \A s \in Region : \A i \in Sound[s] :
               i \notin bitmap'[s] <=> FrameAddr(s, i) \in FreeFrames \union released
        BY <3>2, <3>3, FreeIsClear
      <4>2. QED
        BY <4>1, FreeSetEq
    <3>5. QED
      BY <3>4, FreeAreFrames
  <2>5. ASSUME NEW r \in Region, NEW bits, Muddle(r, bits)
        PROVE  FreeFrames' = FreeFrames
    <3>1. \A s \in Region : \A i \in Sound[s] :
             i \notin bitmap'[s] <=> FrameAddr(s, i) \in FreeFrames
      BY <2>5, FreeIsClear DEF Muddle, TypeOK
    <3>2. FreeFrames' = FreeFrames \intersect SoundFrames
      BY <3>1, FreeSetEq
    <3>3. QED
      BY <3>2, FreeAreFrames
  <2>6. QED
    BY <2>1, <2>2, <2>3, <2>4, <2>5 DEF Returned, Abstract!Release
<1>4. QED
  BY <1>1, <1>2, <1>3 DEF Next, vars, Abstract!Next

(* frame_alloc and frame_free implement the abstract frame allocator on    *)
(* the sound frames.                                                       *)
THEOREM Implements == Spec => ImplementsAllocator
<1>1. Init => Abstract!Init
  BY DEF Init, Abstract!Init, FreeFrames, SoundFrames, SoundOwns
<1>2. QED
  BY <1>1, StepRefines, TypeCorrect, PTL DEF Spec, ImplementsAllocator, Abstract!Spec

=============================================================================
